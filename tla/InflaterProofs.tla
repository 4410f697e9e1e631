---------------------------- MODULE InflaterProofs ----------------------------
(***************************************************************************)
(* What the inflater (inflate.rs) is given comes out of it, whatever its   *)
(* staging buffer, its window and the dictionary of its decoder hold; and  *)
(* what is built on it, the gzip reader (decompose/gzip.rs) and the OOXML  *)
(* canonicalizer (chunker/office/canonical).                               *)
(*                                                                         *)
(* drain loops until the inflater has nothing to do, so the model of it is *)
(* a recursive function; what it ends with is found here through the       *)
(* relation between what it begins and what it ends with, by induction on  *)
(* what the decoder still holds.                                           *)
(***************************************************************************)
EXTENDS GzipReader, CanonicalPackage, SequenceTheorems, FiniteSetTheorems,
        WellFoundedInduction, TLAPS

(***************************************************************************)
(* The loop of drain.                                                      *)
(***************************************************************************)
\* P relates every i that stops to what it becomes, and every other one to
\* what its successor is related to.
RunsClosed(P, S, T, X) ==
  /\ \A i \in S : i \in X => <<i, T[i]>> \in P
  /\ \A i, r \in S : i \notin X /\ <<T[i], r>> \in P => <<i, r>> \in P

\* The least of these relations.
Ends(S, T, X) ==
  {p \in S \X S : \A P \in SUBSET (S \X S) : RunsClosed(P, S, T, X) => p \in P}

(* A loop over a set has a function that goes around it.                    *)
LEMMA LoopExists ==
  ASSUME NEW S, NEW T \in [S -> S], NEW X
  PROVE  \E f : f = [i \in S |-> IF i \in X THEN T[i] ELSE f[T[i]]]
<1>1. PICK E : E = Ends(S, T, X)
  OBVIOUS
<1>2. E \subseteq S \X S
  BY <1>1 DEF Ends
<1>3. /\ \A i \in S : i \in X => <<i, T[i]>> \in E
      /\ \A i, r \in S : i \notin X /\ <<T[i], r>> \in E => <<i, r>> \in E
  BY <1>1 DEF Ends, RunsClosed
<1>4. ASSUME NEW P \in SUBSET E, RunsClosed(P, S, T, X), NEW i, NEW r, <<i, r>> \in E
      PROVE  <<i, r>> \in P
  BY <1>1, <1>2, <1>4 DEF Ends
<1>5. ASSUME NEW i \in S, NEW r \in S, <<i, r>> \in E, i \in X PROVE r = T[i]
  <2>1. PICK P : P = {p \in E : p[1] \in X => p[2] = T[p[1]]}
    OBVIOUS
  <2>2. \A j, s : <<j, s>> \in P <=> <<j, s>> \in E /\ (j \in X => s = T[j])
    BY <2>1
  <2>3. RunsClosed(P, S, T, X)
    BY <1>3, <2>2 DEF RunsClosed
  <2>4. P \in SUBSET E
    BY <2>1
  <2> QED BY <1>4, <1>5, <2>2, <2>3, <2>4
<1>6. ASSUME NEW i \in S, NEW r \in S, <<i, r>> \in E, i \notin X PROVE <<T[i], r>> \in E
  <2>1. PICK P : P = {p \in E : p[1] \notin X => <<T[p[1]], p[2]>> \in E}
    OBVIOUS
  <2>2. \A j, s : <<j, s>> \in P <=> <<j, s>> \in E /\ (j \notin X => <<T[j], s>> \in E)
    BY <2>1
  <2>3. RunsClosed(P, S, T, X)
    BY <1>3, <2>2 DEF RunsClosed
  <2>4. P \in SUBSET E
    BY <2>1
  <2> QED BY <1>4, <1>6, <2>2, <2>3, <2>4
<1>7. ASSUME NEW i \in S, NEW r \in S, NEW s \in S, <<i, r>> \in E, <<i, s>> \in E PROVE r = s
  <2>1. PICK P : P = {p \in E : \A t \in S : <<p[1], t>> \in E => t = p[2]}
    OBVIOUS
  <2>2. \A j, u : <<j, u>> \in P <=>
                  <<j, u>> \in E /\ \A t \in S : <<j, t>> \in E => t = u
    BY <2>1
  <2>3. RunsClosed(P, S, T, X)
    <3>1. \A j \in S : j \in X => <<j, T[j]>> \in P
      BY <1>3, <1>5, <2>2
    <3>2. ASSUME NEW j \in S, NEW u \in S, j \notin X, <<T[j], u>> \in P PROVE <<j, u>> \in P
      BY <1>3, <1>6, <2>2, <3>2
    <3> QED BY <3>1, <3>2 DEF RunsClosed
  <2>4. P \in SUBSET E
    BY <2>1
  <2>5. <<i, r>> \in P
    BY <1>4, <1>7, <2>3, <2>4
  <2> QED BY <1>7, <2>2, <2>5
<1>8. PICK f : f = [i \in S |-> IF \E r \in S : <<i, r>> \in E
                                THEN CHOOSE r \in S : <<i, r>> \in E ELSE S]
  OBVIOUS
<1>9. \A i \in S : \A r \in S : <<i, r>> \in E => f[i] = r
  BY <1>7, <1>8
<1>10. \A i \in S : (\A r \in S : <<i, r>> \notin E) => f[i] = S
  BY <1>8
<1>11. ASSUME NEW i \in S PROVE f[i] = IF i \in X THEN T[i] ELSE f[T[i]]
  <2>1. CASE i \in X
    BY <1>3, <1>9, <2>1
  <2>2. CASE i \notin X
    <3>1. CASE \E r \in S : <<i, r>> \in E
      BY <1>6, <1>9, <2>2, <3>1
    <3>2. CASE \A r \in S : <<i, r>> \notin E
      <4>1. \A r \in S : <<T[i], r>> \notin E
        BY <1>3, <2>2, <3>2
      <4> QED BY <1>10, <2>2, <3>2, <4>1
    <3> QED BY <3>1, <3>2
  <2> QED BY <2>1, <2>2
<1>12. f = [i \in S |-> f[i]]
  BY <1>8
<1> QED BY <1>11, <1>12

(* Every non-empty set of numbers has a least one.                          *)
LEMMA LeastNat ==
  ASSUME NEW T \in SUBSET Nat, T # {}
  PROVE  \E x \in T : \A y \in T : x <= y
<1> DEFINE R == OpToRel(<, Nat)
<1>1. IsWellFoundedOn(R, Nat)
  BY NatLessThanWellFounded
<1>2. \A x, y \in Nat : x < y => <<x, y>> \in R
  BY DEF OpToRel
<1> HIDE DEF R
<1>3. PICK x \in T : \A y \in T : ~ (<<y, x>> \in R)
  BY <1>1, WFMin
<1>4. ASSUME NEW y \in T PROVE x <= y
  <2>1. x \in Nat /\ y \in Nat /\ ~(y < x)
    BY <1>2, <1>3
  <2> QED BY <2>1
<1> QED BY <1>4

(***************************************************************************)
(* The decoder.                                                            *)
(***************************************************************************)
Decoders == [held : Nat, over : BOOLEAN, bad : BOOLEAN]

\* What reading one byte makes of a decoder.
HasRead(d, byte) ==
  [held |-> d.held + byte.grows, over |-> byte.kind = "last", bad |-> byte.kind = "bad"]

\* f tells the decoder behind each of the first n bytes.
Reads(f, n, d, input) ==
  f = [k \in 0..n |-> IF k = 0 THEN d ELSE HasRead(f[k - 1], input[k])]

(* There is such an f for every input.                                      *)
LEMMA ReadsExist ==
  ASSUME NEW d, NEW input PROVE \A n \in Nat : \E f : Reads(f, n, d, input)
<1> DEFINE Lacking == {n \in Nat : ~\E f : Reads(f, n, d, input)}
<1>1. SUFFICES ASSUME Lacking # {} PROVE FALSE
  OBVIOUS
<1>2. PICK n \in Lacking : \A k \in Lacking : n <= k
  BY <1>1, LeastNat
<1>3. n \in Nat /\ ~\E f : Reads(f, n, d, input)
  BY <1>2
<1>4. n # 0
  <2>1. ASSUME n = 0 PROVE \E f : Reads(f, n, d, input)
    <3>1. PICK f : f = [k \in 0..n |-> d]
      OBVIOUS
    <3>2. f = [k \in 0..n |-> IF k = 0 THEN d ELSE HasRead(f[k - 1], input[k])]
      BY <2>1, <3>1
    <3> QED BY <3>2 DEF Reads
  <2> QED BY <1>3, <2>1
<1>5. n - 1 \in Nat /\ n - 1 \notin Lacking
  BY <1>2, <1>3, <1>4
<1>6. PICK f : Reads(f, n - 1, d, input)
  BY <1>5
<1>7. /\ \A k \in 0..(n - 1) :
           f[k] = IF k = 0 THEN d ELSE HasRead(f[k - 1], input[k])
  BY <1>6 DEF Reads
<1>8. PICK g : g = [k \in 0..n |-> IF k = n THEN HasRead(f[n - 1], input[n]) ELSE f[k]]
  OBVIOUS
<1>9. \A k \in 0..n : g[k] = IF k = 0 THEN d ELSE HasRead(g[k - 1], input[k])
  <2> HIDE DEF Lacking
  <2> SUFFICES ASSUME NEW k \in 0..n
               PROVE  g[k] = IF k = 0 THEN d ELSE HasRead(g[k - 1], input[k])
    OBVIOUS
  <2>1. k # 0 => k - 1 \in 0..n /\ k - 1 # n /\ g[k - 1] = f[k - 1]
    BY <1>3, <1>8
  <2>2. CASE k = n
    BY <1>3, <1>4, <1>8, <2>1, <2>2
  <2>3. CASE k # n
    <3>1. k \in 0..(n - 1) /\ g[k] = f[k]
      BY <1>3, <1>8, <2>3
    <3> QED BY <1>7, <2>1, <3>1
  <2> QED BY <2>2, <2>3
<1>10. Reads(g, n, d, input)
  <2>1. g = [k \in 0..n |-> g[k]]
    BY <1>8
  <2> QED BY <1>9, <2>1 DEF Reads
<1> QED BY <1>3, <1>10

\* f adds up what the bytes of s decode to.
Grown(f, s) ==
  /\ f \in [0..Len(s) -> Int] /\ f[0] = 0
  /\ \A k \in 1..Len(s) : f[k] = f[k - 1] + s[k].grows

(* The decoder reads at least a byte of what it is given, of a single byte  *)
(* all, and nothing behind the end of the stream or a malformed byte.       *)
LEMMA DecodedReads ==
  ASSUME NEW d \in Decoders, NEW input \in Seq(CompressedByte), input # <<>>, Growth \subseteq Nat
  PROVE  /\ Decoded(d, input).after \in Decoders
         /\ Decoded(d, input).read \in 1..Len(input)
         /\ Len(input) = 1 => /\ Decoded(d, input).read = 1
                              /\ Decoded(d, input).after = HasRead(d, input[1])
         /\ \A f : Grown(f, input) =>
              Decoded(d, input).after.held = d.held + f[Decoded(d, input).read]
         /\ Decoded(d, input).after.over <=> input[Decoded(d, input).read].kind = "last"
         /\ Decoded(d, input).after.bad <=> input[Decoded(d, input).read].kind = "bad"
<1>1. PICK n \in Nat : n = Len(input) /\ n # 0
  BY LenProperties, EmptySeq
<1> DEFINE run[k \in 0..Len(input)] ==
             IF k = 0 THEN d
             ELSE LET before == run[k - 1] byte == input[k] IN
                  [held |-> before.held + byte.grows,
                   over |-> byte.kind = "last", bad |-> byte.kind = "bad"]
           Stops(k) == k = Len(input) \/ run[k].held >= Dict \/ run[k].over \/ run[k].bad
           read == CHOOSE k \in 0..Len(input) :
                     /\ k > 0 /\ Stops(k) /\ \A m \in 1..(k - 1) : ~Stops(m)
<1>2. Decoded(d, input) = [after |-> run[read], read |-> read]
  BY DEF Decoded
<1>3. run = [k \in 0..n |-> IF k = 0 THEN d ELSE HasRead(run[k - 1], input[k])]
  <2>1. PICK f : Reads(f, n, d, input)
    BY ReadsExist
  <2>2. f = [k \in 0..Len(input) |->
               IF k = 0 THEN d
               ELSE LET before == f[k - 1] byte == input[k] IN
                    [held |-> before.held + byte.grows,
                     over |-> byte.kind = "last", bad |-> byte.kind = "bad"]]
    BY <1>1, <2>1 DEF Reads, HasRead
  <2> QED BY <1>1, <2>2 DEF HasRead
<1> HIDE DEF run
<1>4. run[0] = d /\ \A k \in 1..n : run[k] = HasRead(run[k - 1], input[k])
  <2>1. \A k \in 1..n : k \in 0..n /\ k # 0
    OBVIOUS
  <2>2. 0 \in 0..n
    OBVIOUS
  <2> QED BY <1>3, <2>1, <2>2
<1>5. \A k \in 0..n : run[k] \in Decoders
  <2> DEFINE Off == {k \in Nat : k \in 0..n /\ run[k] \notin Decoders}
  <2>1. SUFFICES ASSUME Off # {} PROVE FALSE
    OBVIOUS
  <2>2. PICK k \in Off : \A j \in Off : k <= j
    BY <2>1, LeastNat
  <2>3. k # 0
    BY <1>4, <2>2
  <2>4. k - 1 \in 0..n /\ run[k - 1] \in Decoders /\ k \in 1..n
    BY <2>2, <2>3
  <2>5. input[k] \in CompressedByte /\ input[k].grows \in Nat
    <3>1. input[k] \in CompressedByte
      BY <1>1, <2>4, ElementOfSeq
    <3> QED BY <3>1 DEF CompressedByte
  <2>6. run[k] = HasRead(run[k - 1], input[k])
    BY <1>4, <2>4
  <2>7. run[k] \in Decoders
    BY <2>4, <2>5, <2>6 DEF HasRead, Decoders
  <2> QED BY <2>2, <2>7
<1>6. PICK k \in 0..n : /\ k > 0 /\ Stops(k) /\ \A m \in 1..(k - 1) : ~Stops(m)
  <2> DEFINE At == {k \in Nat : k \in 1..n /\ Stops(k)}
  <2>1. n \in At
    BY <1>1
  <2>2. PICK k \in At : \A j \in At : k <= j
    BY <2>1, LeastNat
  <2>3. \A m \in 1..(k - 1) : m \in Nat /\ m \in 1..n /\ ~(k <= m)
    BY <2>2
  <2>4. k \in 0..n /\ k > 0 /\ Stops(k)
    BY <2>2
  <2>5. \A m \in 1..(k - 1) : ~Stops(m)
    BY <2>2, <2>3
  <2> QED BY <2>4, <2>5
<1>7. read \in 0..n /\ read > 0
  BY <1>1, <1>6
<1> HIDE DEF read
<1>8. read \in 1..n
  BY <1>7
<1>9. n = 1 => read = 1 /\ run[read] = HasRead(d, input[1])
  BY <1>4, <1>8
<1>10. ASSUME NEW f, Grown(f, input) PROVE run[read].held = d.held + f[read]
  <2> DEFINE Off == {m \in Nat : m \in 0..n /\ run[m].held # d.held + f[m]}
  <2>1. SUFFICES ASSUME Off # {} PROVE FALSE
    BY <1>7
  <2>2. PICK m \in Off : \A j \in Off : m <= j
    BY <2>1, LeastNat
  <2>3. m \in 0..n /\ run[m].held # d.held + f[m]
    BY <2>2
  <2>4. d.held \in Nat /\ \A j \in 0..n : f[j] \in Int /\ run[j].held \in Nat
    BY <1>1, <1>5, <1>10 DEF Grown, Decoders
  <2>5. m # 0
    BY <1>4, <1>10, <2>3, <2>4 DEF Grown
  <2>6. m - 1 \in 0..n /\ m \in 1..n /\ ~(m <= m - 1) /\ m - 1 \in Nat
    BY <2>3, <2>5
  <2>7. run[m - 1].held = d.held + f[m - 1]
    BY <2>2, <2>6
  <2>8. f[m] = f[m - 1] + input[m].grows
    BY <1>1, <1>10, <2>6 DEF Grown
  <2>9. run[m].held = run[m - 1].held + input[m].grows
    <3>1. run[m] = HasRead(run[m - 1], input[m])
      BY <1>4, <2>6
    <3> QED BY <3>1 DEF HasRead
  <2>10. input[m].grows \in Nat
    <3>1. input[m] \in CompressedByte
      BY <1>1, <2>6, ElementOfSeq
    <3> QED BY <3>1 DEF CompressedByte
  <2> QED BY <2>3, <2>4, <2>6, <2>7, <2>8, <2>9, <2>10
<1>11. /\ run[read].over <=> input[read].kind = "last"
       /\ run[read].bad <=> input[read].kind = "bad"
  <2>1. run[read] = HasRead(run[read - 1], input[read])
    BY <1>4, <1>8
  <2>2. \A e, b : /\ HasRead(e, b).over <=> b.kind = "last"
                  /\ HasRead(e, b).bad <=> b.kind = "bad"
    BY DEF HasRead
  <2> QED BY <2>1, <2>2
<1>12. Decoded(d, input).after = run[read] /\ Decoded(d, input).read = read
  BY <1>2
<1> HIDE DEF Stops
<1> QED BY <1>1, <1>5, <1>7, <1>8, <1>9, <1>10, <1>11, <1>12

(* What a window takes of what is held.                                     *)
LEMMA RoomFits == \A n \in Nat : Room(n) \in Nat /\ n - Room(n) \in Nat
BY InflaterAssumption DEF Room

(* A window full, or what there is.                                         *)
LEMMA RoomIs ==
  \A n \in Nat : /\ n > 0 => n - Room(n) < n
                 /\ n <= Window <=> n - Room(n) = 0
                 /\ n - Room(n) \in Nat /\ Room(n) \in Nat
BY InflaterAssumption DEF Room

(* Nothing left of an empty sequence, or of one.                            *)
LEMMA StagedLeft ==
  ASSUME NEW s \in Seq(CompressedByte)
  PROVE  /\ SubSeq(s, 0 + 1, Len(s)) = s
         /\ Len(s) = 1 => SubSeq(s, 1 + 1, Len(s)) = <<>>
<1>1. PICK n \in Nat : n = Len(s)
  BY LenProperties
<1>2. SubSeq(s, 0 + 1, n) = s
  <2>1. 0 + 1 \in 1..(n + 1) /\ n \in (0 + 1 - 1)..n
    BY <1>1
  <2>2. /\ SubSeq(s, 0 + 1, n) \in Seq(CompressedByte) /\ Len(SubSeq(s, 0 + 1, n)) = n
        /\ \A k \in 1..n : SubSeq(s, 0 + 1, n)[k] = s[k]
    BY <1>1, <2>1, SubSeqProperties
  <2> QED BY <1>1, <2>2, SeqEqual
<1>3. n = 1 => SubSeq(s, 1 + 1, n) = <<>>
  OBVIOUS
<1> QED BY <1>1, <1>2, <1>3

\* The inflater behind a call, before its outcome is judged.
Behold(i, r) ==
  [i EXCEPT !.decoder = r.decoder, !.staged = SubSeq(@, r.read + 1, Len(@)),
            !.pending = @ + r.written, !.produced = @ + r.written]

\* What a call makes of the decoder: while it holds output it writes some and
\* reads nothing; otherwise it reads what there is.
LEMMA CallIs ==
  ASSUME NEW d \in Decoders, NEW input \in Seq(CompressedByte), NEW fin, NEW r,
         r = Inflate(d, input, fin)
  PROVE  /\ r.decoder \in Decoders /\ r.read \in 0..Len(input) /\ r.written \in Nat
         /\ d.held > 0 => r.read = 0 /\ r.written > 0 /\ r.decoder.held < d.held
         /\ ~(d.held > 0) /\ input # <<>> => r.read > 0
         /\ ~(d.held > 0) /\ input = <<>> => r.status \in {"data", "buf"}
<1>1. PICK n \in Nat : n = Len(input)
  BY LenProperties
<1>2. ASSUME NEW e \in Decoders, NEW read, NEW written \in Nat, e.held - written \in Nat, NEW answer
      PROVE  /\ Result(e, read, written, answer).decoder \in Decoders
             /\ Result(e, read, written, answer).decoder.held = e.held - written
             /\ Result(e, read, written, answer).read = read
             /\ Result(e, read, written, answer).written = written
             /\ Result(e, read, written, answer).status = answer
  BY <1>2 DEF Result, Decoders
<1>3. d.held \in Nat
  BY DEF Decoders
<1>4. CASE d.held > 0
  <2>1. r = Result(d, 0, Room(d.held), Status(d))
    BY <1>4 DEF Inflate
  <2>2. PICK w \in Nat : w = Room(d.held) /\ d.held - w \in Nat /\ d.held - w < d.held
    BY <1>3, <1>4, RoomIs
  <2>3. /\ r.decoder \in Decoders /\ r.read = 0 /\ r.written = w
        /\ r.decoder.held = d.held - w
    BY <1>2, <2>1, <2>2
  <2>4. 0 \in 0..n /\ w > 0
    BY <1>1, <1>3, <2>2
  <2> QED BY <1>1, <1>4, <2>2, <2>3, <2>4
<1>5. CASE ~(d.held > 0) /\ input = <<>>
  <2>1. PICK answer : answer \in {"data", "buf"} /\ r = Result(d, 0, 0, answer)
    BY <1>5 DEF Inflate
  <2>2. d.held - 0 \in Nat
    BY <1>3
  <2>3. 0 \in 0..n
    BY <1>1
  <2>4. r.decoder \in Decoders /\ r.read = 0 /\ r.written = 0 /\ r.status = answer
    BY <1>2, <2>1, <2>2
  <2> QED BY <1>1, <1>5, <2>1, <2>3, <2>4
<1>6. CASE ~(d.held > 0) /\ input # <<>>
  <2>1. PICK c : c = Decoded(d, input)
    OBVIOUS
  <2>2. c.after \in Decoders /\ c.read \in 1..n
    BY <1>1, <1>6, <2>1, DecodedReads, InflaterAssumption
  <2>3. PICK answer : r = Result(c.after, c.read, Room(c.after.held), answer)
    BY <1>6, <2>1 DEF Inflate, HavingRead
  <2>4. c.after.held \in Nat
    BY <2>2 DEF Decoders
  <2>5. PICK w \in Nat : w = Room(c.after.held) /\ c.after.held - w \in Nat
    BY <2>4, RoomIs
  <2>6. /\ r.decoder \in Decoders /\ r.read = c.read /\ r.written = w
    BY <1>2, <2>2, <2>3, <2>5
  <2>7. c.read \in 0..n /\ c.read > 0
    BY <2>2
  <2> QED BY <1>1, <1>6, <2>6, <2>7
<1> QED BY <1>4, <1>5, <1>6

\* i has become o, and handed on all that it produced but what is pending.
Handed(i, o) == o \in Inflaters /\ o.produced + i.pending = i.produced + o.pending

(* A turn hands on what it produced; and one that does not stop leaves less *)
(* staged, or as much and less held.                                        *)
LEMMA TurnHands ==
  ASSUME NEW i \in Inflaters, NEW fin \in BOOLEAN
  PROVE  /\ Handed(i, Turn(i, fin).after)
         /\ ~Turn(i, fin).stop =>
              \/ Len(Turn(i, fin).after.staged) < Len(i.staged)
              \/ /\ Len(Turn(i, fin).after.staged) = Len(i.staged)
                 /\ Turn(i, fin).after.decoder.held < i.decoder.held
<1>1. PICK r : r = Inflate(i.decoder, i.staged, fin)
  OBVIOUS
<1>2. /\ i.decoder \in Decoders /\ i.staged \in Seq(CompressedByte)
      /\ i.pending \in Nat /\ i.produced \in Nat
  BY DEF Inflaters, Decoders
<1>3. /\ r.decoder \in Decoders /\ r.read \in 0..Len(i.staged) /\ r.written \in Nat
      /\ i.decoder.held > 0 => r.read = 0 /\ r.written > 0 /\ r.decoder.held < i.decoder.held
      /\ ~(i.decoder.held > 0) /\ i.staged # <<>> => r.read > 0
      /\ ~(i.decoder.held > 0) /\ i.staged = <<>> => r.status \in {"data", "buf"}
  BY <1>1, <1>2, CallIs
<1>4. PICK n \in Nat : n = Len(i.staged)
  BY <1>2, LenProperties
<1>5. PICK q \in Seq(CompressedByte) : q = SubSeq(i.staged, r.read + 1, n) /\ Len(q) = n - r.read
  <2>1. r.read \in Nat /\ r.read <= n /\ r.read + 1 \in Int /\ n \in Int
    BY <1>3, <1>4
  <2>2. \A k \in (r.read + 1)..n : i.staged[k] \in CompressedByte
    <3>1. \A k \in (r.read + 1)..n : k \in 1..n
      BY <2>1
    <3> QED BY <1>2, <1>4, <3>1, ElementOfSeq
  <2>3. PICK a \in Int : a = r.read + 1
    BY <2>1
  <2>4. /\ SubSeq(i.staged, a, n) \in Seq(CompressedByte)
        /\ Len(SubSeq(i.staged, a, n)) = IF a <= n THEN n - a + 1 ELSE 0
    <3>1. \A k \in a..n : i.staged[k] \in CompressedByte
      BY <2>2, <2>3
    <3> QED BY <1>4, <3>1, SubSeqProperties
  <2>5. (IF a <= n THEN n - a + 1 ELSE 0) = n - r.read
    BY <1>4, <2>1, <2>3
  <2> QED BY <2>3, <2>4, <2>5
<1>6. PICK fed : fed = Behold(i, r)
  OBVIOUS
<1>7. /\ fed.decoder = r.decoder /\ fed.staged = q /\ fed.pending = i.pending + r.written
      /\ fed.produced = i.produced + r.written
      /\ fed \in Inflaters
  <2>1. /\ fed.decoder = r.decoder /\ fed.staged = q /\ fed.pending = i.pending + r.written
        /\ fed.produced = i.produced + r.written
    BY <1>4, <1>5, <1>6 DEF Behold, Inflaters
  <2>2. i.pending + r.written \in Nat /\ i.produced + r.written \in Nat
    BY <1>2, <1>3
  <2>3. fed = [i EXCEPT !.decoder = r.decoder, !.staged = q,
                        !.pending = i.pending + r.written, !.produced = i.produced + r.written]
    BY <1>4, <1>5, <1>6 DEF Behold
  <2>4. fed \in Inflaters
    BY <1>3, <1>5, <2>2, <2>3 DEF Inflaters, Decoders
  <2> QED BY <2>1, <2>4
<1>8. fed.produced + i.pending = i.produced + fed.pending
  BY <1>2, <1>3, <1>7
<1>9. PICK t : t = Turn(i, fin)
  OBVIOUS
<1>10. /\ t.after \in {fed, [fed EXCEPT !.done = TRUE], Faulted(fed, "Malformed"),
                       Faulted(fed, "Geometry")}
       /\ ~t.stop => t.after = fed /\ r.status \notin {"data", "buf"}
  <2>1. t = Behind(i, r, fin)
    BY <1>1, <1>9 DEF Turn
  <2>2. CASE r.status = "streamEnd"
    <3>1. t = Go([fed EXCEPT !.done = TRUE], TRUE)
      BY <1>6, <2>1, <2>2 DEF Behind, Behold
    <3>2. \A a, s : Go(a, s).after = a /\ Go(a, s).stop = s
      BY DEF Go
    <3>3. PICK over : over = [fed EXCEPT !.done = TRUE]
      OBVIOUS
    <3>4. t.after = over /\ t.stop = TRUE
      BY <3>1, <3>2, <3>3
    <3> QED BY <3>3, <3>4
  <2>3. CASE r.status = "data"
    <3>1. t = Go(Faulted(fed, "Malformed"), TRUE)
      BY <1>6, <2>1, <2>3 DEF Behind, Behold
    <3> QED BY <3>1 DEF Go
  <2>4. CASE r.status = "buf"
    <3>1. t = Go(IF fin THEN Faulted(fed, "Geometry") ELSE fed, TRUE)
      BY <1>6, <2>1, <2>4 DEF Behind, Behold
    <3> QED BY <3>1 DEF Go
  <2>5. CASE r.status \notin {"streamEnd", "data", "buf"}
    <3>1. t \in {Go(Faulted(fed, "Geometry"), TRUE),
                 Go(fed, fed.staged = <<>> /\ (~fin \/ (r.read = 0 /\ r.written = 0)))}
      BY <1>6, <2>1, <2>5 DEF Behind, Behold
    <3>2. \A a, s : Go(a, s).after = a /\ Go(a, s).stop = s
      BY DEF Go
    <3> QED BY <2>5, <3>1, <3>2
  <2> QED BY <2>2, <2>3, <2>4, <2>5
<1>11. /\ Handed(i, fed) /\ Handed(i, [fed EXCEPT !.done = TRUE])
       /\ Handed(i, Faulted(fed, "Malformed")) /\ Handed(i, Faulted(fed, "Geometry"))
  <2>1. Handed(i, fed)
    BY <1>7, <1>8 DEF Handed
  <2>2. ASSUME NEW o, o \in {[fed EXCEPT !.done = TRUE], Faulted(fed, "Malformed"),
                             Faulted(fed, "Geometry")}
        PROVE  Handed(i, o)
    <3>1. o \in Inflaters /\ o.produced = fed.produced /\ o.pending = fed.pending
      BY <1>7, <2>2 DEF Faulted, Inflaters
    <3> QED BY <1>8, <3>1 DEF Handed
  <2> QED BY <2>1, <2>2
<1>12. Handed(i, t.after)
  BY <1>10, <1>11
<1>13. ASSUME ~t.stop
       PROVE  \/ Len(t.after.staged) < n
              \/ Len(t.after.staged) = n /\ t.after.decoder.held < i.decoder.held
  <2>1. t.after.staged = q /\ t.after.decoder = r.decoder /\ r.status \notin {"data", "buf"}
    BY <1>7, <1>10, <1>13
  <2>2. CASE i.decoder.held > 0
    <3>1. r.read = 0 /\ r.decoder.held < i.decoder.held
      BY <1>3, <2>2
    <3>2. Len(q) = n
      BY <1>4, <1>5, <3>1
    <3> QED BY <2>1, <3>1, <3>2
  <2>3. CASE ~(i.decoder.held > 0)
    <3>1. r.read > 0
      BY <1>3, <2>1, <2>3
    <3>2. n - r.read < n
      BY <1>3, <1>4, <3>1
    <3> QED BY <1>5, <2>1, <3>2
  <2> QED BY <2>2, <2>3
<1> QED BY <1>4, <1>9, <1>12, <1>13

(* The loop of drain goes on until a turn stops it.                         *)
LEMMA DrainGoesRound ==
  ASSUME NEW i \in Inflaters, NEW fin \in BOOLEAN
  PROVE  DrainLoop(i, fin) = IF Turn(i, fin).stop THEN Turn(i, fin).after
                             ELSE DrainLoop(Turn(i, fin).after, fin)
<1> DEFINE loop[j \in Inflaters] ==
             LET turn == Turn(j, fin) IN
             IF turn.stop THEN turn.after ELSE loop[turn.after]
<1>1. PICK T : T = [j \in Inflaters |-> Turn(j, fin).after]
  OBVIOUS
<1>2. PICK X : X = {j \in Inflaters : Turn(j, fin).stop}
  OBVIOUS
<1>3. T \in [Inflaters -> Inflaters]
  BY <1>1, TurnHands DEF Handed
<1>4. PICK f : f = [j \in Inflaters |-> IF j \in X THEN T[j] ELSE f[T[j]]]
  BY <1>3, LoopExists
<1>5. f = [j \in Inflaters |-> LET turn == Turn(j, fin) IN
                               IF turn.stop THEN turn.after ELSE f[turn.after]]
  BY <1>1, <1>2, <1>4
<1>6. loop = [j \in Inflaters |-> LET turn == Turn(j, fin) IN
                                  IF turn.stop THEN turn.after ELSE loop[turn.after]]
  BY <1>5
<1>7. \A j : DrainLoop(j, fin) = loop[j]
  BY DEF DrainLoop
<1> HIDE DEF loop
<1> QED BY <1>6, <1>7

(* What every turn that goes on keeps holds of the turn that stops: the     *)
(* loop ends, for no turn goes on without reading or writing.               *)
LEMMA LoopStops ==
  ASSUME NEW fin \in BOOLEAN, NEW G \in SUBSET Inflaters,
         \A i \in G : ~Turn(i, fin).stop => Turn(i, fin).after \in G,
         NEW i \in G
  PROVE  \E j \in G : Turn(j, fin).stop /\ DrainLoop(i, fin) = Turn(j, fin).after
<1> DEFINE Halts(j) == \E k \in G : Turn(k, fin).stop /\ DrainLoop(j, fin) = Turn(k, fin).after
           Off == {j \in G : ~Halts(j)}
<1>1. SUFFICES ASSUME Off # {} PROVE FALSE
  OBVIOUS
<1>2. \A j \in G : Len(j.staged) \in Nat /\ j.decoder.held \in Nat
  <2> SUFFICES ASSUME NEW j \in G PROVE Len(j.staged) \in Nat /\ j.decoder.held \in Nat
    OBVIOUS
  <2>1. j \in Inflaters
    OBVIOUS
  <2>2. j.staged \in Seq(CompressedByte) /\ j.decoder \in Decoders
    BY <2>1 DEF Inflaters, Decoders
  <2>3. j.decoder.held \in Nat
    BY <2>2 DEF Decoders
  <2> QED BY <2>2, <2>3, LenProperties
<1>3. PICK n \in {Len(j.staged) : j \in Off} : \A m \in {Len(j.staged) : j \in Off} : n <= m
  <2>1. {Len(j.staged) : j \in Off} \in SUBSET Nat /\ {Len(j.staged) : j \in Off} # {}
    BY <1>1, <1>2
  <2> QED BY <2>1, LeastNat
<1>4. PICK Least : Least = {j \in Off : Len(j.staged) = n}
  OBVIOUS
<1>5. PICK h \in {j.decoder.held : j \in Least} : \A m \in {j.decoder.held : j \in Least} : h <= m
  <2>1. {j.decoder.held : j \in Least} \in SUBSET Nat /\ {j.decoder.held : j \in Least} # {}
    BY <1>2, <1>3, <1>4
  <2> QED BY <2>1, LeastNat
<1>6. PICK j \in Least : j.decoder.held = h
  BY <1>5
<1>7. j \in G /\ j \in Off /\ Len(j.staged) = n /\ ~Halts(j)
  BY <1>4, <1>6
<1>8. PICK t : t = Turn(j, fin)
  OBVIOUS
<1>9. ~t.stop
  <2>1. t.stop => DrainLoop(j, fin) = t.after
    BY <1>7, <1>8, DrainGoesRound
  <2> QED BY <1>7, <1>8, <2>1
<1>10. PICK o \in G : o = t.after
  BY <1>7, <1>8, <1>9
<1>11. DrainLoop(j, fin) = DrainLoop(o, fin)
  BY <1>7, <1>8, <1>9, <1>10, DrainGoesRound
<1>12. o \in Off
  BY <1>7, <1>11
<1>13. Len(o.staged) < n \/ (Len(o.staged) = n /\ o.decoder.held < h)
  BY <1>6, <1>7, <1>8, <1>9, <1>10, TurnHands
<1> HIDE DEF Off
<1>14. n <= Len(o.staged) /\ n \in Nat /\ Len(o.staged) \in Nat
  BY <1>2, <1>3, <1>7, <1>10, <1>12
<1>15. Len(o.staged) = n /\ o.decoder.held < h
  BY <1>13, <1>14
<1>16. o \in Least
  BY <1>4, <1>12, <1>15
<1>17. h <= o.decoder.held /\ h \in Nat /\ o.decoder.held \in Nat
  BY <1>2, <1>5, <1>6, <1>7, <1>10, <1>16
<1> QED BY <1>15, <1>17

(* Draining an inflater hands on what it produced.                          *)
LEMMA DrainHands ==
  ASSUME NEW i \in Inflaters, NEW fin \in BOOLEAN
  PROVE  Handed(i, Drain(i, fin))
<1>1. Handed(i, i)
  BY DEF Handed
<1>2. Handed(i, DrainLoop(i, fin))
  <2>1. PICK G : G = {j \in Inflaters : Handed(i, j)}
    OBVIOUS
  <2>2. ASSUME NEW j \in G PROVE Turn(j, fin).after \in G
    <3>1. Handed(i, j) /\ Handed(j, Turn(j, fin).after) /\ j \in Inflaters
      BY <2>1, TurnHands
    <3>2. PICK o : o = Turn(j, fin).after
      OBVIOUS
    <3>3. o \in Inflaters /\ o.produced + j.pending = j.produced + o.pending
      BY <3>1, <3>2 DEF Handed
    <3>4. j.produced + i.pending = i.produced + j.pending
      BY <3>1 DEF Handed
    <3>5. /\ i.pending \in Nat /\ i.produced \in Nat /\ j.pending \in Nat /\ j.produced \in Nat
          /\ o.pending \in Nat /\ o.produced \in Nat
      BY <3>1, <3>3 DEF Inflaters
    <3>6. o.produced + i.pending = i.produced + o.pending
      BY <3>3, <3>4, <3>5
    <3> QED BY <2>1, <3>2, <3>3, <3>6 DEF Handed
  <2>3. G \in SUBSET Inflaters /\ i \in G
    BY <1>1, <2>1
  <2>4. PICK j \in G : DrainLoop(i, fin) = Turn(j, fin).after
    BY <2>2, <2>3, LoopStops
  <2> QED BY <2>1, <2>2, <2>4
<1> QED BY <1>1, <1>2 DEF Drain

(* One after the other.                                                     *)
LEMMA HandedTwice ==
  ASSUME NEW i \in Inflaters, NEW o, NEW p, Handed(i, o), Handed(o, p)
  PROVE  Handed(i, p)
<1>1. o \in Inflaters /\ p \in Inflaters
  BY DEF Handed
<1>2. o.produced + i.pending = i.produced + o.pending
  BY DEF Handed
<1>3. p.produced + o.pending = o.produced + p.pending
  BY DEF Handed
<1>4. /\ i.pending \in Nat /\ i.produced \in Nat /\ o.pending \in Nat /\ o.produced \in Nat
      /\ p.pending \in Nat /\ p.produced \in Nat
  BY <1>1 DEF Inflaters
<1>5. p.produced + i.pending = i.produced + p.pending
  BY <1>2, <1>3, <1>4
<1> QED BY <1>1, <1>5 DEF Handed

(* A fault changes nothing else.                                            *)
LEMMA FaultedHands ==
  ASSUME NEW i \in Inflaters, NEW fault \in {"Malformed", "Geometry"}
  PROVE  Handed(i, Faulted(i, fault)) /\ Faulted(i, fault).fault = fault
<1>1. PICK o : o = Faulted(i, fault)
  OBVIOUS
<1>2. o \in Inflaters /\ o.produced = i.produced /\ o.pending = i.pending /\ o.fault = fault
  BY <1>1 DEF Faulted, Inflaters
<1> QED BY <1>1, <1>2 DEF Handed

(* Nor does a byte that is staged.                                          *)
LEMMA StagedHands ==
  ASSUME NEW i \in Inflaters, NEW b \in CompressedByte
  PROVE  Handed(i, [i EXCEPT !.staged = Append(@, b)])
<1>1. Append(i.staged, b) \in Seq(CompressedByte)
  <2>1. i.staged \in Seq(CompressedByte)
    BY DEF Inflaters
  <2> QED BY <2>1, AppendProperties
<1>2. PICK o : o = [i EXCEPT !.staged = Append(@, b)]
  OBVIOUS
<1>3. o \in Inflaters /\ o.produced = i.produced /\ o.pending = i.pending
  BY <1>1, <1>2 DEF Inflaters
<1> QED BY <1>2, <1>3 DEF Handed

(* A byte pushed, and the stream closed.                                    *)
LEMMA PushHands ==
  ASSUME NEW i \in Inflaters, NEW b \in CompressedByte
  PROVE  Handed(i, PushByte(i, b))
<1>1. PICK fed : fed = [i EXCEPT !.staged = Append(@, b)]
  OBVIOUS
<1>2. Handed(i, fed) /\ fed \in Inflaters
  BY <1>1, StagedHands DEF Handed
<1>3. ASSUME NEW fin \in BOOLEAN PROVE Handed(i, Drain(fed, fin))
  <2>1. Handed(fed, Drain(fed, fin))
    BY <1>2, DrainHands
  <2> QED BY <1>2, <2>1, HandedTwice
<1>4. Handed(i, Faulted(i, "Geometry"))
  BY FaultedHands
<1>5. PushByte(i, b) \in {Faulted(i, "Geometry"), fed, Drain(fed, FALSE)}
  BY <1>1 DEF PushByte
<1>6. Handed(i, Drain(fed, FALSE))
  BY <1>3, Zenon
<1> QED BY <1>2, <1>4, <1>5, <1>6, Zenon

LEMMA CloseHands == ASSUME NEW i \in Inflaters PROVE Handed(i, CloseInflater(i))
<1>1. PICK o : o = Windowed(i)
  OBVIOUS
<1>2. \A fin \in BOOLEAN, j \in Inflaters : Handed(j, Drain(j, fin))
  BY DrainHands
<1>3. Handed(i, o)
  BY <1>1, <1>2, Zenon DEF Windowed
<1>4. o \in Inflaters
  BY <1>3 DEF Handed
<1>5. PICK p : p = Drain(o, TRUE)
  OBVIOUS
<1>6. Handed(o, p)
  BY <1>2, <1>4, <1>5, Zenon
<1>7. Handed(i, p) /\ p \in Inflaters
  BY <1>3, <1>4, <1>6, HandedTwice DEF Handed
<1>8. Handed(i, Complete(p))
  <2>1. Handed(i, Faulted(p, "Geometry"))
    BY <1>7, FaultedHands, HandedTwice
  <2> QED BY <1>7, <2>1 DEF Complete
<1> QED BY <1>1, <1>5, <1>8, Zenon DEF CloseInflater

\* The staged bytes are good: none is malformed, and only the last of them may
\* end the stream, which it does if it is over.
StagedGood(s, over) ==
  \A k \in 1..Len(s) : s[k].kind # "bad" /\ (s[k].kind = "last" <=> over /\ k = Len(s))

\* What was produced, what is held and what is staged make n bytes.
MakesUp(produced, held, s, n) ==
  \E f : Grown(f, s) /\ produced + held + f[Len(s)] = n

\* An inflater that was given a good part of a stream: n bytes, and the end
\* of the stream if it is over.
Sane(i, n, over) ==
  /\ i \in Inflaters /\ i.fault = "none" /\ ~i.decoder.bad
  /\ MakesUp(i.produced, i.decoder.held, i.staged, n)
  /\ StagedGood(i.staged, over)
  /\ i.staged # <<>> => ~i.decoder.over /\ ~i.done
  /\ i.staged = <<>> => (i.decoder.over <=> over)
  /\ i.done => over /\ i.decoder.held = 0
  /\ i.decoder.over /\ ~i.done => i.decoder.held > 0

(* Fields.                                                                  *)
LEMMA SaneFields ==
  ASSUME NEW i \in Inflaters
  PROVE  /\ i.decoder \in Decoders /\ i.staged \in Seq(CompressedByte) /\ Len(i.staged) \in Nat
         /\ i.produced \in Nat /\ i.decoder.held \in Nat
         /\ i.decoder.over \in BOOLEAN /\ i.decoder.bad \in BOOLEAN /\ i.done \in BOOLEAN
<1>1. /\ i.decoder \in Decoders /\ i.staged \in Seq(CompressedByte)
      /\ i.produced \in Nat /\ i.done \in BOOLEAN
  BY DEF Inflaters, Decoders
<1> QED BY <1>1, LenProperties DEF Decoders

(* A turn that only writes.                                                 *)
LEMMA SaneWrites ==
  ASSUME NEW i, NEW n, NEW over \in BOOLEAN, Sane(i, n, over), ~i.done, i.decoder.held > 0,
         NEW fin \in BOOLEAN, NEW t, t = Turn(i, fin)
  PROVE  /\ Sane(t.after, n, over) /\ t.after.staged = i.staged
         /\ t.stop => \/ t.after.done
                      \/ i.staged = <<>> /\ ~fin
         /\ ~t.stop => ~t.after.done
<1>1. i \in Inflaters
  BY DEF Sane
<1>2. PICK d \in Decoders : d = i.decoder /\ d.held \in Nat /\ d.held > 0 /\ ~d.bad
  BY <1>1, SaneFields DEF Sane
<1>3. PICK w \in Nat : /\ w = Room(d.held) /\ d.held - w < d.held
                       /\ d.held <= Window <=> d.held - w = 0
                       /\ d.held - w \in Nat /\ w > 0
  <2>1. PICK w : w = Room(d.held)
    OBVIOUS
  <2>2. /\ w \in Nat /\ d.held - w < d.held /\ d.held - w \in Nat
        /\ d.held <= Window <=> d.held - w = 0
    BY <1>2, <2>1, RoomIs
  <2>3. w > 0
    BY <1>2, <2>2
  <2> QED BY <2>1, <2>2, <2>3
<1>4. PICK r : r = Inflate(i.decoder, i.staged, fin)
  OBVIOUS
<1>5. r = Result(d, 0, w, Status(d))
  BY <1>2, <1>3, <1>4 DEF Inflate
<1>6. /\ r.decoder = [d EXCEPT !.held = d.held - w] /\ r.read = 0 /\ r.written = w
      /\ r.status = Status(d)
  BY <1>5 DEF Result
<1>7. /\ r.decoder \in Decoders /\ r.decoder.held = d.held - w /\ r.decoder.over = d.over
      /\ r.decoder.bad = d.bad
  BY <1>3, <1>6 DEF Decoders
<1>8. PICK fed : fed = Behold(i, r)
  OBVIOUS
<1>9. /\ fed.decoder = r.decoder /\ fed.staged = i.staged
      /\ fed.produced = i.produced + w /\ fed.done = i.done /\ fed.fault = i.fault
      /\ fed \in Inflaters
  <2>1. SubSeq(i.staged, r.read + 1, Len(i.staged)) = i.staged
    BY <1>1, <1>6, StagedLeft, SaneFields
  <2>2. i.pending + w \in Nat /\ i.produced + w \in Nat
    BY <1>1, <1>3 DEF Inflaters
  <2>3. fed = [i EXCEPT !.decoder = r.decoder, !.staged = i.staged,
                        !.pending = i.pending + w, !.produced = i.produced + w]
    BY <1>6, <1>8, <2>1 DEF Behold
  <2> QED BY <1>1, <1>7, <2>2, <2>3 DEF Inflaters, Decoders
<1>10. MakesUp(fed.produced, fed.decoder.held, fed.staged, n)
  <2>1. PICK f : Grown(f, i.staged) /\ i.produced + i.decoder.held + f[Len(i.staged)] = n
    BY DEF Sane, MakesUp
  <2>2. f[Len(i.staged)] \in Int /\ i.produced \in Nat
    BY <1>1, <2>1, SaneFields DEF Grown
  <2>3. fed.produced + fed.decoder.held + f[Len(i.staged)] = n
    BY <1>2, <1>3, <1>7, <1>9, <2>1, <2>2
  <2> QED BY <1>9, <2>1, <2>3 DEF MakesUp
<1>11. /\ fed.fault = "none" /\ ~fed.decoder.bad /\ ~fed.done /\ StagedGood(fed.staged, over)
       /\ fed.decoder.over = i.decoder.over
  BY <1>2, <1>7, <1>9 DEF Sane
<1>12. t = Behind(i, r, fin)
  BY <1>4 DEF Turn
<1>13. CASE d.over /\ d.held <= Window
  <2>1. r.status = "streamEnd"
    BY <1>2, <1>6, <1>13 DEF Status
  <2>2. t = Go([fed EXCEPT !.done = TRUE], TRUE)
    BY <1>8, <1>12, <2>1 DEF Behind, Behold
  <2>3. PICK o : o = [fed EXCEPT !.done = TRUE]
    OBVIOUS
  <2>4. t.after = o /\ t.stop
    BY <2>2, <2>3 DEF Go
  <2>5. /\ o \in Inflaters /\ o.decoder = fed.decoder /\ o.produced = fed.produced
        /\ o.staged = fed.staged /\ o.fault = fed.fault /\ o.done
    BY <1>9, <2>3 DEF Inflaters
  <2>6. i.staged = <<>> /\ over /\ o.decoder.held = 0
    BY <1>2, <1>3, <1>7, <1>9, <1>13, <2>5 DEF Sane
  <2>7. Sane(o, n, over)
    BY <1>2, <1>9, <1>10, <1>11, <1>13, <2>5, <2>6 DEF Sane
  <2> QED BY <1>9, <2>4, <2>5, <2>7
<1>14. CASE ~(d.over /\ d.held <= Window)
  <2>1. r.status = "ok"
    BY <1>2, <1>6, <1>14 DEF Status
  <2>2. t = Go(fed, fed.staged = <<>> /\ (~fin \/ (r.read = 0 /\ r.written = 0)))
    <3>1. ~(r.read = 0 /\ r.written = 0)
      BY <1>3, <1>6
    <3> QED BY <1>8, <1>12, <2>1, <3>1 DEF Behind, Behold
  <2>3. t.after = fed /\ (t.stop = (fed.staged = <<>> /\ (~fin \/ (r.read = 0 /\ r.written = 0))))
    BY <2>2 DEF Go
  <2>4. t.stop => i.staged = <<>> /\ ~fin
    <3>1. ~(r.read = 0 /\ r.written = 0)
      BY <1>3, <1>6
    <3>2. t.stop => fed.staged = <<>> /\ (~fin \/ (r.read = 0 /\ r.written = 0))
      BY <2>3, Zenon
    <3> QED BY <1>9, <3>1, <3>2
  <2>5. d.over => fed.decoder.held > 0
    BY <1>2, <1>3, <1>7, <1>9, <1>14
  <2>6. Sane(fed, n, over)
    BY <1>2, <1>9, <1>10, <1>11, <2>5 DEF Sane
  <2> QED BY <1>9, <1>11, <2>3, <2>4, <2>6
<1> QED BY <1>13, <1>14

\* q is what is left of s behind m bytes, and adds up to what is left of f.
LeftOver(s, m, f, q) ==
  /\ q \in Seq(CompressedByte) /\ Len(q) = Len(s) - m
  /\ \A k \in 1..(Len(s) - m) : q[k] = s[k + m]
  /\ \E g : Grown(g, q) /\ g[Len(q)] = f[Len(s)] - f[m]

(* What is left to add up behind the first bytes.                           *)
LEMMA GrownBehind ==
  ASSUME NEW s \in Seq(CompressedByte), NEW m \in 0..Len(s), NEW f, Grown(f, s),
         NEW q, q = SubSeq(s, m + 1, Len(s))
  PROVE  LeftOver(s, m, f, q)
<1>1. PICK n \in Nat : n = Len(s) /\ m \in 0..n
  BY LenProperties
<1>2. PICK a \in Int : a = m + 1
  OBVIOUS
<1>3. \A k \in a..n : s[k] \in CompressedByte
  <2>1. \A k \in a..n : k \in 1..n
    BY <1>1, <1>2
  <2> QED BY <1>1, <2>1, ElementOfSeq
<1>4. /\ q \in Seq(CompressedByte) /\ Len(q) = IF a <= n THEN n - a + 1 ELSE 0
      /\ \A k \in 1..(n - a + 1) : q[k] = s[a + k - 1]
  BY <1>1, <1>2, <1>3, SubSeqProperties
<1>5. Len(q) = n - m
  BY <1>1, <1>2, <1>4
<1>6. \A k \in 1..(n - m) : q[k] = s[k + m]
  <2> SUFFICES ASSUME NEW k \in 1..(n - m) PROVE q[k] = s[k + m]
    OBVIOUS
  <2>1. k \in 1..(n - a + 1) /\ a + k - 1 = k + m
    BY <1>1, <1>2
  <2> QED BY <1>4, <2>1
<1>7. /\ f[0] = 0 /\ \A k \in 0..n : f[k] \in Int
      /\ \A k \in 1..n : f[k] = f[k - 1] + s[k].grows
  BY <1>1 DEF Grown
<1>8. PICK g : g = [k \in 0..(n - m) |-> f[k + m] - f[m]]
  OBVIOUS
<1>9. \A k \in 0..(n - m) : k + m \in 0..n
  BY <1>1
<1>10. g \in [0..(n - m) -> Int]
  BY <1>1, <1>7, <1>8, <1>9
<1>11. g[0] = 0 /\ g[n - m] = f[n] - f[m]
  <2>1. 0 \in 0..(n - m) /\ n - m \in 0..(n - m) /\ 0 + m = m /\ (n - m) + m = n /\ m \in 0..n
    BY <1>1
  <2>2. g[0] = f[m] - f[m] /\ g[n - m] = f[n] - f[m]
    BY <1>8, <2>1
  <2>3. f[m] - f[m] = 0
    BY <1>7, <2>1
  <2> QED BY <2>2, <2>3
<1>12. ASSUME NEW k \in 1..(n - m) PROVE g[k] = g[k - 1] + q[k].grows
  <2>1. k \in 0..(n - m) /\ k - 1 \in 0..(n - m) /\ (k - 1) + m = (k + m) - 1 /\ k + m \in 1..n
    BY <1>1
  <2>2. g[k] = f[k + m] - f[m] /\ g[k - 1] = f[(k + m) - 1] - f[m]
    BY <1>8, <2>1
  <2>3. f[k + m] = f[(k + m) - 1] + q[k].grows
    BY <1>6, <1>7, <2>1
  <2>4. f[(k + m) - 1] \in Int /\ f[m] \in Int /\ q[k].grows \in Nat
    <3>1. q[k] \in CompressedByte
      BY <1>4, <1>5, ElementOfSeq
    <3>2. (k + m) - 1 \in 0..n /\ m \in 0..n
      BY <1>1, <2>1
    <3> QED BY <1>7, <3>1, <3>2, InflaterAssumption DEF CompressedByte
  <2>5. PICK u \in Int : u = f[(k + m) - 1]
    BY <2>4
  <2>6. PICK v \in Int : v = f[m]
    BY <2>4
  <2>7. PICK x \in Nat : x = q[k].grows
    BY <2>4
  <2>8. g[k] = (u + x) - v /\ g[k - 1] = u - v
    BY <2>2, <2>3, <2>5, <2>6, <2>7
  <2>9. (u + x) - v = (u - v) + x
    OBVIOUS
  <2> QED BY <2>7, <2>8, <2>9
<1>13. Grown(g, q)
  BY <1>5, <1>10, <1>11, <1>12 DEF Grown
<1> QED BY <1>1, <1>4, <1>5, <1>6, <1>11, <1>13 DEF LeftOver

(* A turn that reads.                                                       *)
LEMMA SaneReads ==
  ASSUME NEW i, NEW n, NEW over \in BOOLEAN, Sane(i, n, over), ~i.done, i.decoder.held = 0,
         i.staged # <<>>, NEW fin \in BOOLEAN, ~fin, NEW t, t = Turn(i, fin)
  PROVE  /\ Sane(t.after, n, over)
         /\ t.stop => t.after.staged = <<>>
         /\ ~t.stop => ~t.after.done
<1>1. i \in Inflaters
  BY DEF Sane
<1>2. PICK d \in Decoders : d = i.decoder /\ d.held = 0
  BY <1>1, SaneFields
<1>3. PICK s \in Seq(CompressedByte) : s = i.staged /\ s # <<>>
  BY <1>1, SaneFields
<1>4. PICK z \in Nat : z = Len(s)
  BY LenProperties
<1>5. PICK f : Grown(f, s) /\ i.produced + i.decoder.held + f[z] = n
  BY <1>3, <1>4 DEF Sane, MakesUp
<1>6. PICK c : c = Decoded(d, s)
  OBVIOUS
<1>7. PICK e \in Decoders : e = c.after
  BY <1>3, <1>6, DecodedReads, InflaterAssumption
<1>8. PICK m \in 1..z : m = c.read
  BY <1>3, <1>4, <1>6, DecodedReads, InflaterAssumption
<1>9. /\ e.held = d.held + f[m]
      /\ e.over <=> s[m].kind = "last"
      /\ e.bad <=> s[m].kind = "bad"
  <2>1. /\ \A g : Grown(g, s) => c.after.held = d.held + g[c.read]
        /\ c.after.over <=> s[c.read].kind = "last"
        /\ c.after.bad <=> s[c.read].kind = "bad"
    BY <1>3, <1>6, DecodedReads, InflaterAssumption
  <2> QED BY <1>5, <1>7, <1>8, <2>1
<1>10. s[m].kind # "bad" /\ (s[m].kind = "last" <=> over /\ m = z)
  BY <1>3, <1>4 DEF Sane, StagedGood
<1>11. ~e.bad /\ (e.over <=> over /\ m = z)
  BY <1>9, <1>10
<1>12. PICK h \in Nat : h = e.held
  BY DEF Decoders
<1>13. PICK w \in Nat : w = Room(h) /\ h - w \in Nat /\ (h <= Window <=> h - w = 0)
  BY RoomIs
<1>14. PICK r : r = Inflate(i.decoder, i.staged, fin)
  OBVIOUS
<1>15. r = Result(e, m, w, Status(e))
  <2>1. ~(d.held > 0)
    BY <1>2
  <2>2. r = HavingRead(c, fin)
    BY <1>2, <1>3, <1>6, <1>14, <2>1 DEF Inflate
  <2> QED BY <1>7, <1>8, <1>12, <1>13, <2>2 DEF HavingRead
<1>16. /\ r.decoder = [e EXCEPT !.held = h - w] /\ r.read = m /\ r.written = w
       /\ r.status = Status(e)
  BY <1>12, <1>15 DEF Result
<1>17. /\ r.decoder \in Decoders /\ r.decoder.held = h - w /\ r.decoder.over = e.over
       /\ r.decoder.bad = e.bad
  BY <1>13, <1>16 DEF Decoders
<1>18. PICK q \in Seq(CompressedByte) : /\ q = SubSeq(s, m + 1, z) /\ Len(q) = z - m
                                        /\ \A k \in 1..(z - m) : q[k] = s[k + m]
                                        /\ \E g : Grown(g, q) /\ g[Len(q)] = f[z] - f[m]
  <2>1. m \in 0..Len(s)
    BY <1>4
  <2>2. PICK q : q = SubSeq(s, m + 1, Len(s))
    OBVIOUS
  <2>3. /\ q \in Seq(CompressedByte) /\ Len(q) = Len(s) - m
        /\ \A k \in 1..(Len(s) - m) : q[k] = s[k + m]
        /\ \E g : Grown(g, q) /\ g[Len(q)] = f[Len(s)] - f[m]
    <3>1. LeftOver(s, m, f, q)
      BY <1>5, <2>1, <2>2, GrownBehind
    <3> QED BY <3>1 DEF LeftOver
  <2> QED BY <1>4, <2>2, <2>3
<1>19. PICK fed : fed = Behold(i, r)
  OBVIOUS
<1>20. /\ fed.decoder = r.decoder /\ fed.staged = q
       /\ fed.produced = i.produced + w /\ fed.done = i.done /\ fed.fault = i.fault
       /\ fed \in Inflaters
  <2>1. i.pending + w \in Nat /\ i.produced + w \in Nat
    BY <1>1, <1>13 DEF Inflaters
  <2>2. fed = [i EXCEPT !.decoder = r.decoder, !.staged = q,
                        !.pending = i.pending + w, !.produced = i.produced + w]
    BY <1>3, <1>4, <1>16, <1>18, <1>19 DEF Behold
  <2> QED BY <1>1, <1>17, <1>18, <2>1, <2>2 DEF Inflaters, Decoders
<1>21. MakesUp(fed.produced, fed.decoder.held, fed.staged, n)
  <2>1. PICK g : Grown(g, q) /\ g[Len(q)] = f[z] - f[m]
    BY <1>18
  <2>2. f[z] \in Int /\ f[m] \in Int /\ i.produced \in Nat
    <3>1. \A k \in 0..z : f[k] \in Int
      BY <1>4, <1>5 DEF Grown
    <3> QED BY <1>1, <3>1, SaneFields
  <2>3. fed.produced + fed.decoder.held + g[Len(q)] = n
    <3>1. fed.produced = i.produced + w /\ fed.decoder.held = h - w
      BY <1>17, <1>20
    <3>2. h = 0 + f[m] /\ i.produced + 0 + f[z] = n
      BY <1>2, <1>5, <1>9, <1>12
    <3>3. i.produced \in Nat /\ w \in Nat /\ h \in Nat
      BY <2>2
    <3>4. PICK y \in Int : y = f[z]
      BY <2>2
    <3>5. PICK x \in Int : x = f[m]
      BY <2>2
    <3>6. PICK p \in Nat : p = i.produced
      BY <3>3
    <3>7. (p + w) + (h - w) + (y - x) = n
      <4>1. h = 0 + x /\ p + 0 + y = n
        BY <3>2, <3>4, <3>5, <3>6
      <4> QED BY <4>1
    <3> QED BY <2>1, <3>1, <3>4, <3>5, <3>6, <3>7
  <2> QED BY <1>20, <2>1, <2>3 DEF MakesUp
<1>22. StagedGood(q, over)
  <2>1. ASSUME NEW k \in 1..(z - m)
        PROVE  q[k].kind # "bad" /\ (q[k].kind = "last" <=> over /\ k = z - m)
    <3>1. k + m \in 1..z /\ (k + m = z <=> k = z - m)
      OBVIOUS
    <3>2. s[k + m].kind # "bad" /\ (s[k + m].kind = "last" <=> over /\ k + m = z)
      BY <1>3, <1>4, <3>1 DEF Sane, StagedGood
    <3> QED BY <1>18, <3>1, <3>2
  <2> QED BY <1>18, <2>1 DEF StagedGood
<1>23. q = <<>> <=> m = z
  <2>1. q = <<>> <=> Len(q) = 0
    BY EmptySeq
  <2> QED BY <1>18, <2>1
<1>24. fed.fault = "none" /\ ~fed.decoder.bad /\ ~fed.done /\ (fed.decoder.over <=> over /\ m = z)
  <2>1. i.fault = "none"
    BY DEF Sane
  <2> QED BY <1>11, <1>17, <1>20, <2>1
<1>25. t = Behind(i, r, fin)
  BY <1>14 DEF Turn
<1>26. CASE e.over /\ h <= Window
  <2>1. r.status = "streamEnd"
    BY <1>11, <1>12, <1>16, <1>26 DEF Status
  <2>2. t = Go([fed EXCEPT !.done = TRUE], TRUE)
    BY <1>19, <1>25, <2>1 DEF Behind, Behold
  <2>3. PICK o : o = [fed EXCEPT !.done = TRUE]
    OBVIOUS
  <2>4. t.after = o /\ t.stop
    BY <2>2, <2>3 DEF Go
  <2>5. /\ o \in Inflaters /\ o.decoder = fed.decoder /\ o.produced = fed.produced
        /\ o.staged = fed.staged /\ o.fault = fed.fault /\ o.done
    BY <1>20, <2>3 DEF Inflaters
  <2>6. q = <<>> /\ over /\ o.decoder.held = 0
    BY <1>11, <1>13, <1>17, <1>20, <1>23, <1>26, <2>5
  <2>7. Sane(o, n, over)
    BY <1>11, <1>20, <1>21, <1>22, <1>24, <1>26, <2>5, <2>6 DEF Sane
  <2> QED BY <1>20, <2>4, <2>5, <2>6, <2>7
<1>27. CASE ~(e.over /\ h <= Window)
  <2>1. r.status = "ok"
    BY <1>11, <1>12, <1>16, <1>27 DEF Status
  <2>2. t = Go(fed, fed.staged = <<>>)
    <3>1. t = Go(fed, fed.staged = <<>> /\ (~fin \/ (r.read = 0 /\ r.written = 0)))
      BY <1>19, <1>25, <2>1 DEF Behind, Behold
    <3> QED BY <3>1
  <2>3. t.after = fed /\ (t.stop = (fed.staged = <<>>))
    BY <2>2 DEF Go
  <2>4. e.over => fed.decoder.held > 0
    BY <1>12, <1>13, <1>17, <1>20, <1>27
  <2>5. Sane(fed, n, over)
    BY <1>11, <1>17, <1>20, <1>21, <1>22, <1>23, <1>24, <2>4 DEF Sane
  <2>6. t.stop => fed.staged = <<>>
    BY <2>3, Zenon
  <2> QED BY <1>24, <2>3, <2>5, <2>6
<1> QED BY <1>26, <1>27

(* A turn with nothing to write and nothing to read.                        *)
LEMMA SaneIdles ==
  ASSUME NEW i, NEW n, NEW over \in BOOLEAN, Sane(i, n, over), ~i.done, i.decoder.held = 0,
         i.staged = <<>>, NEW fin \in BOOLEAN, ~fin, NEW t, t = Turn(i, fin)
  PROVE  t.stop /\ Sane(t.after, n, over) /\ t.after.staged = <<>>
<1>1. i \in Inflaters
  BY DEF Sane
<1>2. PICK d \in Decoders : d = i.decoder /\ d.held = 0
  BY <1>1, SaneFields
<1>3. PICK r : r = Inflate(i.decoder, i.staged, fin)
  OBVIOUS
<1>4. r = Result(d, 0, 0, "buf")
  <2>1. ~(d.held > 0)
    BY <1>2
  <2> QED BY <1>2, <1>3, <2>1 DEF Inflate
<1>5. /\ r.decoder = [d EXCEPT !.held = d.held - 0] /\ r.read = 0 /\ r.written = 0
      /\ r.status = "buf"
  BY <1>4 DEF Result
<1>6. r.decoder = d
  <2>1. d.held - 0 = d.held
    BY <1>2
  <2> QED BY <1>5, <2>1 DEF Decoders
<1>7. PICK fed : fed = Behold(i, r)
  OBVIOUS
<1>8. /\ fed.decoder = d /\ fed.staged = <<>> /\ fed.produced = i.produced
      /\ fed.done = i.done /\ fed.fault = i.fault /\ fed \in Inflaters
  <2>1. SubSeq(i.staged, r.read + 1, Len(i.staged)) = i.staged
    BY <1>1, <1>5, StagedLeft, SaneFields
  <2>2. i.pending + 0 = i.pending /\ i.produced + 0 = i.produced
    BY <1>1 DEF Inflaters
  <2>3. fed = [i EXCEPT !.decoder = d, !.staged = i.staged,
                        !.pending = i.pending, !.produced = i.produced]
    BY <1>5, <1>6, <1>7, <2>1, <2>2 DEF Behold
  <2> QED BY <1>1, <1>2, <2>3 DEF Inflaters, Decoders
<1>9. t = Go(fed, TRUE)
  <2>1. t = Go(IF fin THEN Faulted(fed, "Geometry") ELSE fed, TRUE)
    BY <1>3, <1>5, <1>7 DEF Turn, Behind, Behold
  <2> QED BY <2>1
<1>10. t.after = fed /\ t.stop
  BY <1>9 DEF Go
<1>11. Sane(fed, n, over)
  BY <1>2, <1>8 DEF Sane
<1> QED BY <1>8, <1>10, <1>11

(* Drained while there is more to come, an inflater has nothing staged.     *)
LEMMA SaneDrained ==
  ASSUME NEW i, NEW n, NEW over \in BOOLEAN, Sane(i, n, over), NEW fin \in BOOLEAN, ~fin
  PROVE  Sane(Drain(i, fin), n, over) /\ Drain(i, fin).staged = <<>>
<1>1. i \in Inflaters /\ i.fault = "none"
  BY DEF Sane
<1>2. CASE i.done
  <2>1. Drain(i, fin) = i
    BY <1>2 DEF Drain
  <2> QED BY <1>2, <2>1 DEF Sane
<1>3. CASE ~i.done
  <2>1. PICK G : G = {j \in Inflaters : Sane(j, n, over) /\ ~j.done}
    OBVIOUS
  <2>2. ASSUME NEW j \in G, NEW t, t = Turn(j, fin)
        PROVE  /\ Sane(t.after, n, over)
               /\ t.stop => t.after.staged = <<>>
               /\ ~t.stop => ~t.after.done
    <3>1. j \in Inflaters /\ Sane(j, n, over) /\ ~j.done /\ j.decoder.held \in Nat
      BY <2>1, SaneFields
    <3>2. CASE j.decoder.held > 0
      <4>1. /\ Sane(t.after, n, over) /\ t.after.staged = j.staged
            /\ t.stop => t.after.done \/ (j.staged = <<>> /\ ~fin)
            /\ ~t.stop => ~t.after.done
        BY <2>2, <3>1, <3>2, SaneWrites
      <4>2. Sane(t.after, n, over) /\ t.after.done => t.after.staged = <<>>
        BY DEF Sane
      <4> QED BY <4>1, <4>2
    <3>3. CASE ~(j.decoder.held > 0) /\ j.staged # <<>>
      <4>1. j.decoder.held = 0
        BY <3>1, <3>3
      <4> QED BY <2>2, <3>1, <3>3, <4>1, SaneReads
    <3>4. CASE ~(j.decoder.held > 0) /\ j.staged = <<>>
      <4>1. j.decoder.held = 0
        BY <3>1, <3>4
      <4> QED BY <2>2, <3>1, <3>4, <4>1, SaneIdles
    <3> QED BY <3>2, <3>3, <3>4
  <2>3. ASSUME NEW j \in G, ~Turn(j, fin).stop PROVE Turn(j, fin).after \in G
    <3>1. PICK t : t = Turn(j, fin)
      OBVIOUS
    <3>2. Sane(t.after, n, over) /\ ~t.after.done
      BY <2>2, <2>3, <3>1
    <3> QED BY <2>1, <3>1, <3>2 DEF Sane
  <2>4. G \in SUBSET Inflaters /\ i \in G
    BY <1>1, <1>3, <2>1
  <2>5. PICK j \in G : Turn(j, fin).stop /\ DrainLoop(i, fin) = Turn(j, fin).after
    BY <2>3, <2>4, LoopStops
  <2>6. Drain(i, fin) = DrainLoop(i, fin)
    BY <1>1, <1>3 DEF Drain
  <2>7. PICK t : t = Turn(j, fin)
    OBVIOUS
  <2>8. Sane(t.after, n, over) /\ t.after.staged = <<>>
    BY <2>2, <2>5, <2>7
  <2> QED BY <2>5, <2>6, <2>7, <2>8
<1> QED BY <1>2, <1>3

(* Drained to the end, the inflater of a whole stream is done.              *)
LEMMA SaneFinished ==
  ASSUME NEW i, NEW n, NEW over \in BOOLEAN, over, Sane(i, n, over), i.staged = <<>>,
         NEW fin \in BOOLEAN, fin
  PROVE  /\ Sane(Drain(i, fin), n, over) /\ Drain(i, fin).staged = <<>>
         /\ Drain(i, fin).done
<1>1. i \in Inflaters /\ i.fault = "none"
  BY DEF Sane
<1>2. CASE i.done
  <2>1. Drain(i, fin) = i
    BY <1>2 DEF Drain
  <2> QED BY <1>2, <2>1
<1>3. CASE ~i.done
  <2>1. PICK G : G = {j \in Inflaters : Sane(j, n, over) /\ ~j.done /\ j.staged = <<>>}
    OBVIOUS
  <2>2. ASSUME NEW j \in G, NEW t, t = Turn(j, fin)
        PROVE  /\ Sane(t.after, n, over) /\ t.after.staged = <<>>
               /\ t.stop => t.after.done
               /\ ~t.stop => ~t.after.done
    <3>1. j \in Inflaters /\ Sane(j, n, over) /\ ~j.done /\ j.staged = <<>>
      BY <2>1
    <3>2. j.decoder.held > 0
      BY <3>1 DEF Sane
    <3>3. /\ Sane(t.after, n, over) /\ t.after.staged = j.staged
          /\ t.stop => t.after.done \/ (j.staged = <<>> /\ ~fin)
          /\ ~t.stop => ~t.after.done
      BY <2>2, <3>1, <3>2, SaneWrites
    <3> QED BY <3>1, <3>3
  <2>3. ASSUME NEW j \in G, ~Turn(j, fin).stop PROVE Turn(j, fin).after \in G
    <3>1. PICK t : t = Turn(j, fin)
      OBVIOUS
    <3>2. Sane(t.after, n, over) /\ ~t.after.done /\ t.after.staged = <<>>
      BY <2>2, <2>3, <3>1
    <3> QED BY <2>1, <3>1, <3>2 DEF Sane
  <2>4. G \in SUBSET Inflaters /\ i \in G
    BY <1>1, <1>3, <2>1
  <2>5. PICK j \in G : Turn(j, fin).stop /\ DrainLoop(i, fin) = Turn(j, fin).after
    BY <2>3, <2>4, LoopStops
  <2>6. Drain(i, fin) = DrainLoop(i, fin)
    BY <1>1, <1>3 DEF Drain
  <2>7. PICK t : t = Turn(j, fin)
    OBVIOUS
  <2>8. Sane(t.after, n, over) /\ t.after.staged = <<>> /\ t.after.done
    BY <2>2, <2>5, <2>7
  <2> QED BY <2>5, <2>6, <2>7, <2>8
<1> QED BY <1>2, <1>3

(* A new inflater.                                                          *)
LEMMA SaneNew ==
  ASSUME NEW over \in BOOLEAN, ~over
  PROVE  NewInflater \in Inflaters /\ Sane(NewInflater, 0, over)
<1>1. PICK i : i = NewInflater
  OBVIOUS
<1>2. /\ i.decoder = [held |-> 0, over |-> FALSE, bad |-> FALSE] /\ i.staged = <<>>
      /\ i.pending = 0 /\ i.produced = 0 /\ ~i.done /\ i.fault = "none"
  BY <1>1 DEF NewInflater, NewDecoder
<1>3. i.decoder.held = 0 /\ ~i.decoder.over /\ ~i.decoder.bad
  BY <1>2
<1>4. i \in Inflaters
  BY <1>1 DEF NewInflater, NewDecoder, Inflaters
<1>5. Len(i.staged) = 0
  BY <1>2
<1>6. StagedGood(i.staged, over)
  BY <1>5 DEF StagedGood
<1>7. MakesUp(i.produced, i.decoder.held, i.staged, 0)
  <2>1. PICK f : f = [k \in 0..0 |-> 0]
    OBVIOUS
  <2>2. Grown(f, i.staged) /\ f[0] = 0
    BY <1>5, <2>1 DEF Grown
  <2>3. i.produced + i.decoder.held + f[Len(i.staged)] = 0
    BY <1>2, <1>3, <1>5, <2>2
  <2> QED BY <2>2, <2>3 DEF MakesUp
<1>8. Sane(i, 0, over)
  BY <1>2, <1>3, <1>4, <1>6, <1>7 DEF Sane
<1> QED BY <1>1, <1>4, <1>8

(* A byte pushed into the inflater of a stream that is not over.            *)
LEMMA SanePushed ==
  ASSUME NEW i, NEW n \in Nat, NEW was \in BOOLEAN, ~was, Sane(i, n, was),
         NEW b \in CompressedByte, b.kind # "bad", NEW over \in BOOLEAN, over <=> b.kind = "last"
  PROVE  Sane(PushByte(i, b), n + b.grows, over)
<1>1. i \in Inflaters /\ i.fault = "none" /\ ~i.done
  BY DEF Sane
<1>2. PICK s \in Seq(CompressedByte) : s = i.staged
  BY <1>1, SaneFields
<1>3. PICK z \in Nat : z = Len(s)
  BY LenProperties
<1>4. PICK q \in Seq(CompressedByte) : /\ q = Append(s, b) /\ Len(q) = z + 1
                                       /\ \A k \in 1..z : q[k] = s[k]
                                       /\ q[z + 1] = b
  BY <1>3, AppendProperties
<1>5. PICK fed : fed = [i EXCEPT !.staged = Append(@, b)]
  OBVIOUS
<1>6. /\ fed.decoder = i.decoder /\ fed.staged = q /\ fed.produced = i.produced
      /\ ~fed.done /\ fed.fault = "none" /\ fed \in Inflaters
  <2>1. fed = [i EXCEPT !.staged = q]
    BY <1>2, <1>4, <1>5
  <2> QED BY <1>1, <1>4, <2>1 DEF Inflaters
<1>7. StagedGood(q, over)
  <2>1. \A k \in 1..z : s[k].kind # "bad" /\ ~(s[k].kind = "last")
    BY <1>2, <1>3 DEF Sane, StagedGood
  <2>2. ASSUME NEW k \in 1..(z + 1)
        PROVE  q[k].kind # "bad" /\ (q[k].kind = "last" <=> over /\ k = z + 1)
    <3>1. CASE k = z + 1
      BY <1>4, <3>1
    <3>2. CASE k # z + 1
      <4>1. k \in 1..z
        BY <3>2
      <4> QED BY <1>4, <2>1, <3>2, <4>1
    <3> QED BY <3>1, <3>2
  <2> QED BY <1>4, <2>2 DEF StagedGood
<1>8. MakesUp(fed.produced, fed.decoder.held, q, n + b.grows)
  <2>1. PICK f : Grown(f, s) /\ i.produced + i.decoder.held + f[z] = n
    BY <1>2, <1>3 DEF Sane, MakesUp
  <2>2. /\ f[0] = 0 /\ \A k \in 0..z : f[k] \in Int
        /\ \A k \in 1..z : f[k] = f[k - 1] + s[k].grows
    BY <1>3, <2>1 DEF Grown
  <2>3. PICK x \in Nat : x = b.grows
    BY InflaterAssumption DEF CompressedByte
  <2>4. PICK y \in Int : y = f[z]
    <3>1. z \in 0..z
      OBVIOUS
    <3> QED BY <2>2, <3>1
  <2>5. PICK g : g = [k \in 0..(z + 1) |-> IF k = z + 1 THEN y + x ELSE f[k]]
    OBVIOUS
  <2>6. \A k \in 0..z : k \in 0..(z + 1) /\ k # z + 1
    OBVIOUS
  <2>7. g[z + 1] = y + x /\ \A k \in 0..z : g[k] = f[k]
    <3>1. z + 1 \in 0..(z + 1)
      OBVIOUS
    <3> QED BY <2>5, <2>6, <3>1
  <2>8. \A k \in 0..(z + 1) : g[k] \in Int
    <3>1. \A k \in 0..(z + 1) : k \in 0..z \/ k = z + 1
      OBVIOUS
    <3>2. y + x \in Int
      OBVIOUS
    <3> QED BY <2>2, <2>7, <3>1, <3>2
  <2>9. ASSUME NEW k \in 1..(z + 1) PROVE g[k] = g[k - 1] + q[k].grows
    <3>1. CASE k = z + 1
      <4>1. k - 1 = z /\ z \in 0..z
        BY <3>1
      <4>2. g[k - 1] = y
        BY <2>4, <2>7, <4>1
      <4> QED BY <1>4, <2>3, <2>7, <3>1, <4>2
    <3>2. CASE k # z + 1
      <4>1. k \in 1..z /\ k \in 0..z /\ k - 1 \in 0..z
        BY <3>2
      <4> QED BY <1>4, <2>2, <2>7, <4>1
    <3> QED BY <3>1, <3>2
  <2>10. Grown(g, q)
    <3>1. g \in [0..(z + 1) -> Int]
      BY <2>5, <2>8
    <3>2. g[0] = 0
      <4>1. 0 \in 0..z
        OBVIOUS
      <4> QED BY <2>2, <2>7, <4>1
    <3> QED BY <1>4, <2>9, <3>1, <3>2 DEF Grown
  <2>11. fed.produced + fed.decoder.held + g[z + 1] = n + b.grows
    <3>1. PICK p \in Nat : p = i.produced
      BY <1>1, SaneFields
    <3>2. PICK h \in Nat : h = i.decoder.held
      BY <1>1, SaneFields
    <3>3. p + h + y = n
      BY <2>1, <2>4, <3>1, <3>2
    <3>4. p + h + (y + x) = n + x
      BY <3>3
    <3> QED BY <1>6, <2>3, <2>7, <3>1, <3>2, <3>4
  <2> QED BY <1>4, <2>10, <2>11 DEF MakesUp
<1>9. q # <<>> /\ ~i.decoder.over
  <2>1. q # <<>>
    BY <1>3, <1>4, EmptySeq
  <2>2. ~i.decoder.over
    BY DEF Sane
  <2> QED BY <2>1, <2>2
<1>10. Sane(fed, n + b.grows, over)
  <2>1. ~i.decoder.bad
    BY DEF Sane
  <2> QED BY <1>6, <1>7, <1>8, <1>9, <2>1 DEF Sane
<1>11. \A fin \in BOOLEAN : ~fin => Sane(Drain(fed, fin), n + b.grows, over)
  BY <1>10, SaneDrained
<1>12. PushByte(i, b) \in {fed, Drain(fed, FALSE)}
  BY <1>1, <1>5 DEF PushByte
<1>13. Sane(Drain(fed, FALSE), n + b.grows, over)
  BY <1>11, Zenon
<1> QED BY <1>10, <1>12, <1>13, Zenon

(* The close of a whole stream: no fault, and all of it was produced.       *)
LEMMA SaneClosed ==
  ASSUME NEW i, NEW n, NEW over \in BOOLEAN, over, Sane(i, n, over), NEW o, o = CloseInflater(i)
  PROVE  o \in Inflaters /\ o.fault = "none" /\ o.produced = n
<1>1. PICK p : p = Windowed(i)
  OBVIOUS
<1>2. \A fin \in BOOLEAN : ~fin => Sane(Drain(i, fin), n, over) /\ Drain(i, fin).staged = <<>>
  BY SaneDrained
<1>3. Sane(p, n, over) /\ p.staged = <<>>
  BY <1>1, <1>2, Zenon DEF Windowed
<1>4. \A fin \in BOOLEAN : fin => /\ Sane(Drain(p, fin), n, over) /\ Drain(p, fin).staged = <<>>
                                  /\ Drain(p, fin).done
  BY <1>3, SaneFinished
<1>5. PICK r : r = Drain(p, TRUE)
  OBVIOUS
<1>6. Sane(r, n, over) /\ r.staged = <<>> /\ r.done
  BY <1>4, <1>5, Zenon
<1>7. r.fault = "none" /\ r.decoder.held = 0 /\ r \in Inflaters
  BY <1>6 DEF Sane
<1>8. r.produced = n
  <2>1. PICK f : Grown(f, r.staged) /\ r.produced + r.decoder.held + f[Len(r.staged)] = n
    BY <1>6 DEF Sane, MakesUp
  <2>2. Len(r.staged) = 0 /\ f[0] = 0
    BY <1>6, <2>1 DEF Grown
  <2> QED BY <1>7, <2>1, <2>2, SaneFields
<1>9. Complete(r) = r
  BY <1>6, <1>7 DEF Complete
<1>10. o = r
  BY <1>1, <1>5, <1>9, Zenon DEF CloseInflater
<1> QED BY <1>7, <1>8, <1>10

(***************************************************************************)
(* The gzip reader: while there is more to come.                           *)
(***************************************************************************)
\* A call of the decoder, and a turn of the loop, while there is more to come.
Call(d, input) == Inflate(d, input, FALSE)

Round(i) == Turn(i, FALSE)

Looped(i) == DrainLoop(i, FALSE)

(* A call of the decoder.                                                   *)
LEMMA InflateTyped ==
  ASSUME NEW d \in Decoders, NEW input \in Seq(CompressedByte), NEW r,
         r = Call(d, input)
  PROVE  r.decoder \in Decoders /\ r.read \in 0..Len(input) /\ r.written \in Nat
<1>1. PICK n \in Nat : n = Len(input)
  BY LenProperties
<1>2. ASSUME NEW e \in Decoders, NEW read, NEW written \in Nat, e.held - written \in Nat, NEW answer
      PROVE  /\ Result(e, read, written, answer).decoder \in Decoders
             /\ Result(e, read, written, answer).read = read
             /\ Result(e, read, written, answer).written = written
  BY <1>2 DEF Result, Decoders
<1>3. d.held \in Nat
  BY DEF Decoders
<1>4. CASE d.held > 0
  <2>1. r = Result(d, 0, Room(d.held), Status(d))
    BY <1>4 DEF Call, Inflate
  <2>2. Room(d.held) \in Nat /\ d.held - Room(d.held) \in Nat
    BY <1>3, RoomFits
  <2>3. /\ r.decoder \in Decoders /\ r.read = 0 /\ r.written = Room(d.held)
    BY <1>2, <2>1, <2>2
  <2>4. 0 \in 0..n
    BY <1>1
  <2> QED BY <1>1, <2>2, <2>3, <2>4
<1>5. CASE ~(d.held > 0) /\ input = <<>>
  <2>1. r = Result(d, 0, 0, "buf")
    BY <1>5 DEF Call, Inflate
  <2>2. d.held - 0 \in Nat
    BY <1>3
  <2> QED BY <1>1, <1>2, <1>3, <2>1, <2>2
<1>6. CASE ~(d.held > 0) /\ input # <<>>
  <2>1. PICK c : c = Decoded(d, input)
    OBVIOUS
  <2>2. c.after \in Decoders /\ c.read \in 1..n
    BY <1>1, <1>6, <2>1, DecodedReads, InflaterAssumption
  <2>3. r = Result(c.after, c.read, Room(c.after.held), Status(c.after))
    BY <1>6, <2>1 DEF Call, Inflate, HavingRead
  <2>4. c.after.held \in Nat
    BY <2>2 DEF Decoders
  <2>5. Room(c.after.held) \in Nat /\ c.after.held - Room(c.after.held) \in Nat
    BY <2>4, RoomFits
  <2>6. /\ r.decoder \in Decoders /\ r.read = c.read /\ r.written = Room(c.after.held)
    BY <1>2, <2>2, <2>3, <2>5
  <2> QED BY <1>1, <2>2, <2>5, <2>6
<1> QED BY <1>4, <1>5, <1>6

\* How its outcome is judged.
Judged(fed, answer) ==
  CASE answer = "streamEnd" -> Go([fed EXCEPT !.done = TRUE], TRUE)
    [] answer = "data" -> Go(Faulted(fed, "Malformed"), TRUE)
    [] answer = "buf" -> Go(fed, TRUE)
    [] OTHER -> Go(fed, fed.staged = <<>>)

(* A turn of the loop ends with what the call left, perhaps judged.         *)
LEMMA TurnIs ==
  ASSUME NEW i \in Inflaters, NEW r, r = Call(i.decoder, i.staged),
         NEW fed, fed = Behold(i, r)
  PROVE  /\ fed \in Inflaters
         /\ fed.decoder = r.decoder
         /\ fed.staged = SubSeq(i.staged, r.read + 1, Len(i.staged))
         /\ fed.pending = i.pending + r.written /\ fed.done = i.done /\ fed.fault = i.fault
         /\ Round(i) = Judged(fed, r.status)
<1>1. /\ i.decoder \in Decoders /\ i.staged \in Seq(CompressedByte)
      /\ i.pending \in Nat /\ i.produced \in Nat
  BY DEF Inflaters, Decoders
<1>2. r.decoder \in Decoders /\ r.read \in 0..Len(i.staged) /\ r.written \in Nat
  BY <1>1, InflateTyped
<1>3. SubSeq(i.staged, r.read + 1, Len(i.staged)) \in Seq(CompressedByte)
  <2>1. PICK n \in Nat : n = Len(i.staged)
    BY <1>1, LenProperties
  <2>2. r.read + 1 \in 1..(n + 1)
    BY <1>2, <2>1
  <2> QED BY <1>1, <2>1, <2>2, SubSeqProperties
<1>4. /\ fed.decoder = r.decoder
      /\ fed.staged = SubSeq(i.staged, r.read + 1, Len(i.staged))
      /\ fed.pending = i.pending + r.written /\ fed.done = i.done /\ fed.fault = i.fault
  BY DEF Behold, Inflaters
<1>5. fed \in Inflaters
  <2>1. i.pending + r.written \in Nat /\ i.produced + r.written \in Nat
    BY <1>1, <1>2
  <2> QED BY <1>2, <1>3, <2>1 DEF Behold, Inflaters, Decoders
<1>6. Round(i) = Judged(fed, r.status)
  BY DEF Judged, Round, Call, Turn, Behind, Behold
<1> QED BY <1>4, <1>5, <1>6

(* A turn makes an inflater of an inflater.                                 *)
LEMMA TurnTyped == ASSUME NEW i \in Inflaters PROVE Round(i).after \in Inflaters
<1>1. PICK r : r = Call(i.decoder, i.staged)
  OBVIOUS
<1>2. PICK fed : fed = Behold(i, r)
  OBVIOUS
<1>3. fed \in Inflaters
  BY <1>1, <1>2, TurnIs
<1>4. Round(i).after \in {fed, [fed EXCEPT !.done = TRUE], Faulted(fed, "Malformed")}
  <2>1. Round(i) = Judged(fed, r.status)
    BY <1>1, <1>2, TurnIs
  <2>2. CASE r.status = "streamEnd"
    <3>1. Judged(fed, r.status) = Go([fed EXCEPT !.done = TRUE], TRUE)
      BY <2>2 DEF Judged
    <3>2. \A a, s : Go(a, s).after = a
      BY DEF Go
    <3>3. PICK over : over = [fed EXCEPT !.done = TRUE]
      OBVIOUS
    <3>4. Round(i).after = over
      BY <2>1, <3>1, <3>2, <3>3
    <3> QED BY <3>3, <3>4
  <2>3. CASE r.status = "data"
    BY <2>1, <2>3 DEF Judged, Go
  <2>4. CASE r.status = "buf"
    BY <2>1, <2>4 DEF Judged, Go
  <2>5. CASE r.status \notin {"streamEnd", "data", "buf"}
    BY <2>1, <2>5 DEF Judged, Go
  <2> QED BY <2>2, <2>3, <2>4, <2>5
<1>5. [fed EXCEPT !.done = TRUE] \in Inflaters /\ Faulted(fed, "Malformed") \in Inflaters
  BY <1>3 DEF Faulted, Inflaters
<1> QED BY <1>3, <1>4, <1>5

(* The loop of drain goes on until a turn stops it.                         *)
LEMMA LoopGoesRound ==
  ASSUME NEW i \in Inflaters
  PROVE  Looped(i) = IF Round(i).stop THEN Round(i).after ELSE Looped(Round(i).after)
<1> DEFINE loop[j \in Inflaters] ==
             LET turn == Round(j) IN
             IF turn.stop THEN turn.after ELSE loop[turn.after]
<1>1. PICK T : T = [j \in Inflaters |-> Round(j).after]
  OBVIOUS
<1>2. PICK X : X = {j \in Inflaters : Round(j).stop}
  OBVIOUS
<1>3. T \in [Inflaters -> Inflaters]
  BY <1>1, TurnTyped
<1>4. PICK f : f = [j \in Inflaters |-> IF j \in X THEN T[j] ELSE f[T[j]]]
  BY <1>3, LoopExists
<1>5. f = [j \in Inflaters |-> LET turn == Round(j) IN
                               IF turn.stop THEN turn.after ELSE f[turn.after]]
  BY <1>1, <1>2, <1>4
<1>6. loop = [j \in Inflaters |-> LET turn == Round(j) IN
                                  IF turn.stop THEN turn.after ELSE loop[turn.after]]
  BY <1>5
<1>7. \A j : Looped(j) = loop[j]
  BY DEF Looped, DrainLoop, Round
<1> HIDE DEF loop
<1> QED BY <1>6, <1>7

\* An inflater that has not come to its end.
Running(i) ==
  /\ ~i.done /\ i.fault = "none" /\ ~i.decoder.bad
  /\ i.decoder.over => i.decoder.held > 0

\* What is to leave the inflater, or has left it.
Due(i) == i.pending + i.decoder.held

\* i has become o, which has `more` to give, and is over if `over` says so.
Became(i, o, more, over) ==
  /\ o \in Inflaters /\ o.fault = "none" /\ ~o.decoder.bad
  /\ Due(o) = Due(i) + more
  /\ o.decoder.over <=> over
  /\ o.done => over /\ o.decoder.held = 0
  /\ o.decoder.over /\ ~o.done => o.decoder.held > 0

(* Fields and their types.                                                  *)
LEMMA InflaterFields ==
  ASSUME NEW i \in Inflaters
  PROVE  /\ i.decoder \in Decoders /\ i.decoder.held \in Nat /\ i.decoder.over \in BOOLEAN
         /\ i.decoder.bad \in BOOLEAN /\ i.staged \in Seq(CompressedByte)
         /\ i.pending \in Nat /\ i.done \in BOOLEAN /\ Len(i.staged) \in Nat
<1>1. /\ i.decoder \in Decoders /\ i.staged \in Seq(CompressedByte)
      /\ i.pending \in Nat /\ i.done \in BOOLEAN
  BY DEF Inflaters, Decoders
<1> QED BY <1>1, LenProperties DEF Decoders

(* A turn that only writes.                                                 *)
LEMMA WritingRound ==
  ASSUME NEW i \in Inflaters, Running(i), i.decoder.held > 0, NEW o, o = Round(i).after
  PROVE  /\ Became(i, o, 0, i.decoder.over) /\ o.decoder.held < i.decoder.held
         /\ o.staged = i.staged
         /\ Round(i).stop <=> o.done \/ i.staged = <<>>
<1>1. PICK d \in Decoders : d = i.decoder /\ d.held \in Nat /\ d.held > 0 /\ ~d.bad
  BY InflaterFields DEF Running
<1>2. PICK w \in Nat : /\ w = Room(d.held) /\ d.held - w < d.held
                       /\ d.held <= Window <=> d.held - w = 0
                       /\ d.held - w \in Nat
  BY <1>1, RoomIs
<1>3. PICK r : r = Call(i.decoder, i.staged)
  OBVIOUS
<1>4. r = Result(d, 0, w, Status(d))
  BY <1>1, <1>2, <1>3 DEF Call, Inflate
<1>5. /\ r.decoder = [d EXCEPT !.held = d.held - w] /\ r.read = 0 /\ r.written = w
      /\ r.status = Status(d)
  BY <1>4 DEF Result
<1>6. /\ r.decoder.held = d.held - w /\ r.decoder.over = d.over /\ r.decoder.bad = d.bad
  BY <1>5 DEF Decoders
<1>7. PICK fed : fed = Behold(i, r)
  OBVIOUS
<1>8. /\ fed \in Inflaters /\ fed.decoder = r.decoder
      /\ fed.staged = SubSeq(i.staged, r.read + 1, Len(i.staged))
      /\ fed.pending = i.pending + w /\ fed.done = i.done /\ fed.fault = i.fault
      /\ Round(i) = Judged(fed, r.status)
  <2>1. /\ fed \in Inflaters /\ fed.decoder = r.decoder
        /\ fed.staged = SubSeq(i.staged, r.read + 1, Len(i.staged))
        /\ fed.pending = i.pending + r.written /\ fed.done = i.done /\ fed.fault = i.fault
        /\ Round(i) = Judged(fed, r.status)
    BY <1>3, <1>7, TurnIs
  <2> QED BY <1>5, <2>1
<1>9. fed.staged = i.staged
  BY <1>5, <1>8, StagedLeft, InflaterFields
<1>10. Due(fed) = Due(i) + 0
  BY <1>1, <1>2, <1>6, <1>8, InflaterFields DEF Due
<1>11. fed.fault = "none" /\ ~fed.done /\ ~fed.decoder.bad /\ (fed.decoder.over <=> d.over)
  BY <1>1, <1>6, <1>8 DEF Running
<1>12. CASE d.over /\ d.held <= Window
  <2>1. Round(i) = Go([fed EXCEPT !.done = TRUE], TRUE)
    BY <1>1, <1>5, <1>8, <1>12 DEF Judged, Status
  <2>2. o = [fed EXCEPT !.done = TRUE] /\ Round(i).stop
    BY <2>1 DEF Go
  <2>3. /\ o \in Inflaters /\ o.decoder = fed.decoder /\ o.pending = fed.pending
        /\ o.staged = fed.staged /\ o.fault = fed.fault /\ o.done
    BY <1>8, <2>2 DEF Inflaters
  <2>4. Due(o) = Due(i) + 0
    BY <1>10, <2>3 DEF Due
  <2>5. o.decoder.held = 0 /\ o.decoder.held < i.decoder.held
    BY <1>1, <1>2, <1>6, <1>8, <1>12, <2>3
  <2>6. Became(i, o, 0, i.decoder.over)
    BY <1>1, <1>11, <1>12, <2>3, <2>4, <2>5 DEF Became
  <2> QED BY <1>9, <2>2, <2>3, <2>5, <2>6
<1>13. CASE ~(d.over /\ d.held <= Window)
  <2>1. Status(d) = "ok"
    BY <1>1, <1>13 DEF Status
  <2>2. Round(i) = Go(fed, fed.staged = <<>>)
    BY <1>5, <1>8, <2>1 DEF Judged
  <2>3. o = fed /\ (Round(i).stop <=> fed.staged = <<>>)
    <3>1. Round(i).after = fed
      BY <2>2 DEF Go
    <3>2. Round(i).stop = (fed.staged = <<>>)
      BY <2>2 DEF Go
    <3> QED BY <3>1, <3>2
  <2>4. d.over => fed.decoder.held > 0
    BY <1>1, <1>2, <1>6, <1>8, <1>13
  <2>5. fed.decoder.held < i.decoder.held
    BY <1>1, <1>2, <1>6, <1>8
  <2>6. Became(i, o, 0, i.decoder.over)
    BY <1>1, <1>8, <1>10, <1>11, <2>3, <2>4 DEF Became
  <2> QED BY <1>9, <1>11, <2>3, <2>5, <2>6
<1> QED BY <1>12, <1>13

(* A turn that reads the one byte staged, which is the last turn.           *)
LEMMA ReadingRound ==
  ASSUME NEW i \in Inflaters, Running(i), i.decoder.held = 0,
         NEW b \in CompressedByte, i.staged = <<b>>, NEW o, o = Round(i).after
  PROVE  /\ Round(i).stop
         /\ b.kind = "bad" => o.fault # "none"
         /\ b.kind # "bad" => /\ Became(i, o, b.grows, b.kind = "last")
                              /\ o.staged = <<>>
<1>1. PICK d \in Decoders : d = i.decoder /\ d.held = 0 /\ ~d.bad
  BY InflaterFields DEF Running
<1>2. PICK g \in Nat : g = b.grows
  BY InflaterAssumption DEF CompressedByte
<1>3. PICK c \in Decoders : /\ c = HasRead(d, b) /\ c.held = g
                            /\ (c.over <=> b.kind = "last") /\ (c.bad <=> b.kind = "bad")
  <2>1. PICK c : c = HasRead(d, b)
    OBVIOUS
  <2>2. c = [held |-> d.held + b.grows, over |-> b.kind = "last", bad |-> b.kind = "bad"]
    BY <2>1 DEF HasRead
  <2>3. c.held = g
    BY <1>1, <1>2, <2>2
  <2>4. c.over = (b.kind = "last") /\ c.bad = (b.kind = "bad")
    BY <2>2
  <2>5. c \in Decoders
    <3>1. d.held + b.grows \in Nat
      BY <1>1, <1>2
    <3> QED BY <2>2, <3>1 DEF Decoders
  <2> QED BY <2>1, <2>3, <2>4, <2>5
<1>4. PICK w \in Nat : /\ w = Room(g) /\ g - w \in Nat
                       /\ g <= Window <=> g - w = 0
  BY <1>2, RoomIs
<1>5. Decoded(d, <<b>>).after = c /\ Decoded(d, <<b>>).read = 1
  <2>1. PICK s : s = <<b>>
    OBVIOUS
  <2>2. s \in Seq(CompressedByte) /\ s # <<>> /\ Len(s) = 1 /\ s[1] = b
    BY <2>1
  <2>3. d \in Decoders /\ Growth \subseteq Nat
    BY <1>1, InflaterAssumption
  <2>4. Decoded(d, s).read = 1 /\ Decoded(d, s).after = HasRead(d, s[1])
    BY ONLY <2>2, <2>3, DecodedReads
  <2> QED BY <1>3, <2>1, <2>2, <2>4
<1>6. PICK r : r = Call(i.decoder, i.staged)
  OBVIOUS
<1>7. r = Result(c, 1, w, Status(c))
  <2>1. ~(d.held > 0) /\ <<b>> # <<>>
    BY <1>1
  <2>2. r = HavingRead(Decoded(d, <<b>>), FALSE)
    BY <1>1, <1>6, <2>1 DEF Call, Inflate
  <2>3. PICK scanned : scanned = Decoded(d, <<b>>)
    OBVIOUS
  <2>4. scanned.after = c /\ scanned.read = 1
    BY <1>5, <2>3
  <2>5. HavingRead(scanned, FALSE) = Result(c, 1, Room(c.held), Status(c))
    BY <2>4 DEF HavingRead
  <2> QED BY <1>3, <1>4, <2>2, <2>3, <2>5
<1>8. /\ r.decoder = [c EXCEPT !.held = c.held - w] /\ r.read = 1 /\ r.written = w
      /\ r.status = Status(c)
  BY <1>7 DEF Result
<1>9. r.decoder.held = g - w /\ r.decoder.over = c.over /\ r.decoder.bad = c.bad
  BY <1>3, <1>8 DEF Decoders
<1>10. PICK fed : fed = Behold(i, r)
  OBVIOUS
<1>11. /\ fed \in Inflaters /\ fed.decoder = r.decoder
       /\ fed.staged = SubSeq(i.staged, r.read + 1, Len(i.staged))
       /\ fed.pending = i.pending + w /\ fed.done = i.done /\ fed.fault = i.fault
       /\ Round(i) = Judged(fed, r.status)
  <2>1. i \in Inflaters
    OBVIOUS
  <2>2. /\ fed \in Inflaters /\ fed.decoder = r.decoder
        /\ fed.staged = SubSeq(i.staged, r.read + 1, Len(i.staged))
        /\ fed.pending = i.pending + r.written /\ fed.done = i.done /\ fed.fault = i.fault
        /\ Round(i) = Judged(fed, r.status)
    BY ONLY <1>6, <1>10, <2>1, TurnIs
  <2> QED BY <1>8, <2>2
<1>12. fed.staged = <<>>
  <2>1. Len(i.staged) = 1 /\ i.staged \in Seq(CompressedByte)
    OBVIOUS
  <2> QED BY <1>8, <1>11, <2>1, StagedLeft
<1>13. Due(fed) = Due(i) + g
  BY <1>1, <1>2, <1>4, <1>9, <1>11, InflaterFields DEF Due
<1>14. /\ fed.fault = "none" /\ ~fed.done /\ (fed.decoder.over <=> b.kind = "last")
       /\ (fed.decoder.bad <=> b.kind = "bad")
  BY <1>3, <1>9, <1>11 DEF Running
<1>15. CASE b.kind = "bad"
  <2>1. Round(i) = Go(Faulted(fed, "Malformed"), TRUE)
    BY <1>3, <1>8, <1>11, <1>15 DEF Judged, Status
  <2>2. o = Faulted(fed, "Malformed") /\ Round(i).stop
    BY <2>1 DEF Go
  <2>3. o.fault = "Malformed"
    BY <1>11, <2>2 DEF Faulted, Inflaters
  <2> QED BY <1>15, <2>2, <2>3
<1>16. CASE b.kind = "last" /\ g <= Window
  <2>1. ~c.bad /\ c.over /\ c.held <= Window
    BY <1>3, <1>16
  <2>2. Status(c) = "streamEnd"
    BY <2>1 DEF Status
  <2>3. Round(i) = Go([fed EXCEPT !.done = TRUE], TRUE)
    BY <1>8, <1>11, <2>2 DEF Judged
  <2>4. o = [fed EXCEPT !.done = TRUE] /\ Round(i).stop
    BY <2>3 DEF Go
  <2>5. /\ o \in Inflaters /\ o.decoder = fed.decoder /\ o.pending = fed.pending
        /\ o.staged = fed.staged /\ o.fault = fed.fault /\ o.done
    BY <1>11, <2>4 DEF Inflaters
  <2>6. Due(o) = Due(i) + b.grows
    BY <1>2, <1>13, <2>5 DEF Due
  <2>7. o.decoder.held = 0
    BY <1>4, <1>9, <1>11, <1>16, <2>5
  <2>8. Became(i, o, b.grows, b.kind = "last")
    BY <1>14, <1>16, <2>5, <2>6, <2>7 DEF Became
  <2> QED BY <1>12, <1>16, <2>4, <2>5, <2>8
<1>17. CASE b.kind # "bad" /\ ~(b.kind = "last" /\ g <= Window)
  <2>1. Status(c) = "ok"
    BY <1>3, <1>17 DEF Status
  <2>2. Round(i) = Go(fed, fed.staged = <<>>)
    BY <1>8, <1>11, <2>1 DEF Judged
  <2>3. o = fed /\ Round(i).stop
    <3>1. Round(i).after = fed
      BY <2>2 DEF Go
    <3>2. Round(i).stop = (fed.staged = <<>>)
      BY <2>2 DEF Go
    <3> QED BY <1>12, <3>1, <3>2
  <2>4. b.kind = "last" => fed.decoder.held > 0
    BY <1>4, <1>9, <1>11, <1>17
  <2>5. Due(o) = Due(i) + b.grows
    BY <1>2, <1>13, <2>3
  <2>6. Became(i, o, b.grows, b.kind = "last")
    BY <1>11, <1>14, <1>17, <2>3, <2>4, <2>5 DEF Became
  <2> QED BY <1>12, <1>17, <2>3, <2>6
<1> QED BY <1>15, <1>16, <1>17

(* A turn with nothing to write and nothing to read.                        *)
LEMMA IdleRound ==
  ASSUME NEW i \in Inflaters, Running(i), i.decoder.held = 0, i.staged = <<>>,
         NEW o, o = Round(i).after
  PROVE  Round(i).stop /\ Became(i, o, 0, i.decoder.over) /\ o.staged = <<>>
<1>1. PICK d \in Decoders : d = i.decoder /\ d.held = 0 /\ ~d.bad
  BY InflaterFields DEF Running
<1>2. PICK r : r = Call(i.decoder, i.staged)
  OBVIOUS
<1>3. r = Result(d, 0, 0, "buf")
  <2>1. ~(d.held > 0)
    BY <1>1
  <2> QED BY <1>1, <1>2, <2>1 DEF Call, Inflate
<1>4. /\ r.decoder = [d EXCEPT !.held = d.held - 0] /\ r.read = 0 /\ r.written = 0
      /\ r.status = "buf"
  BY <1>3 DEF Result
<1>5. r.decoder.held = 0 /\ r.decoder.over = d.over /\ r.decoder.bad = d.bad
  BY <1>1, <1>4 DEF Decoders
<1>6. PICK fed : fed = Behold(i, r)
  OBVIOUS
<1>7. /\ fed \in Inflaters /\ fed.decoder = r.decoder
      /\ fed.staged = SubSeq(i.staged, r.read + 1, Len(i.staged))
      /\ fed.pending = i.pending + 0 /\ fed.done = i.done /\ fed.fault = i.fault
      /\ Round(i) = Judged(fed, r.status)
  <2>1. /\ fed \in Inflaters /\ fed.decoder = r.decoder
        /\ fed.staged = SubSeq(i.staged, r.read + 1, Len(i.staged))
        /\ fed.pending = i.pending + r.written /\ fed.done = i.done /\ fed.fault = i.fault
        /\ Round(i) = Judged(fed, r.status)
    BY ONLY i \in Inflaters, <1>2, <1>6, TurnIs
  <2>2. i.pending + r.written = i.pending + 0
    BY <1>4
  <2> QED BY <2>1, <2>2, Zenon
<1>8. fed.staged = <<>>
  BY <1>4, <1>7, StagedLeft, InflaterFields
<1>9. Round(i) = Go(fed, TRUE)
  BY <1>4, <1>7 DEF Judged
<1>10. o = fed /\ Round(i).stop
  <2>1. Round(i).after = fed
    BY <1>9 DEF Go
  <2>2. Round(i).stop = TRUE
    BY <1>9 DEF Go
  <2> QED BY <2>1, <2>2
<1>11. Due(o) = Due(i) + 0
  BY <1>1, <1>5, <1>7, <1>10, InflaterFields DEF Due
<1>12. Became(i, o, 0, i.decoder.over)
  BY <1>1, <1>5, <1>7, <1>10, <1>11 DEF Became, Running
<1> QED BY <1>8, <1>10, <1>12

(* What a byte decodes to is a number.                                      *)
LEMMA GrowsBy ==
  \A b \in CompressedByte : b.grows \in Nat /\ b.grows + 0 = b.grows /\ 0 + b.grows = b.grows
<1>1. \A b \in CompressedByte : b.grows \in Nat
  BY InflaterAssumption DEF CompressedByte
<1>2. \A n \in Nat : n + 0 = n /\ 0 + n = n
  OBVIOUS
<1> QED BY <1>1, <1>2

(* What became of an inflater that has not ended is one that can go on.     *)
LEMMA RunsOn ==
  ASSUME NEW i, NEW o, NEW more, NEW over, Became(i, o, more, over), ~o.done
  PROVE  Running(o)
BY DEF Became, Running

(* One becoming after another, the first or the second without a byte.      *)
LEMMA BecameTwice ==
  ASSUME NEW i \in Inflaters, NEW o \in Inflaters, NEW p, NEW m \in Nat, NEW n \in Nat,
         NEW s, Became(i, o, m, s), NEW t, Became(o, p, n, t)
  PROVE  Became(i, p, m + n, t)
<1>1. Due(p) = Due(i) + (m + n)
  <2>1. Due(i) \in Nat
    BY InflaterFields DEF Due
  <2>2. Due(o) = Due(i) + m /\ Due(p) = Due(o) + n
    BY DEF Became
  <2> QED BY <2>1, <2>2
<1> QED BY <1>1 DEF Became

\* What drain makes of an inflater with one byte staged: behind the end of the
\* stream the byte is not touched, before it it is read.
Outcome(i, b, o) ==
  IF i.decoder.over THEN Became(i, o, 0, TRUE) /\ o.done /\ o.staged = <<b>>
  ELSE /\ b.kind = "bad" => o.fault # "none"
       /\ b.kind # "bad" => Became(i, o, b.grows, b.kind = "last") /\ o.staged = <<>>

(* However much is held, what drain makes is such an outcome.               *)
LEMMA OneByteDrained ==
  ASSUME NEW b \in CompressedByte
  PROVE  \A i \in Inflaters : Running(i) /\ i.staged = <<b>> => Outcome(i, b, Looped(i))
<1> DEFINE Fails(i) == Running(i) /\ i.staged = <<b>> /\ ~Outcome(i, b, Looped(i))
           Off == {n \in Nat : \E i \in Inflaters : Fails(i) /\ i.decoder.held = n}
<1>1. SUFFICES ASSUME Off # {} PROVE FALSE
  <2>1. \A i \in Inflaters : i.decoder.held \in Nat
    BY InflaterFields
  <2> QED BY <2>1
<1>2. PICK n \in Off : \A m \in Off : n <= m
  BY <1>1, LeastNat
<1>3. PICK i \in Inflaters : Fails(i) /\ i.decoder.held = n
  BY <1>2
<1>4. Running(i) /\ i.staged = <<b>> /\ ~Outcome(i, b, Looped(i)) /\ i.decoder.held \in Nat
  BY <1>3, InflaterFields
<1>5. PICK o : o = Round(i).after
  OBVIOUS
<1>6. CASE i.decoder.held = 0
  <2>1. /\ Round(i).stop
        /\ b.kind = "bad" => o.fault # "none"
        /\ b.kind # "bad" => Became(i, o, b.grows, b.kind = "last") /\ o.staged = <<>>
    BY <1>4, <1>5, <1>6, ReadingRound
  <2>2. Looped(i) = o
    BY <1>5, <2>1, LoopGoesRound
  <2>3. ~i.decoder.over
    BY <1>4, <1>6 DEF Running
  <2>4. Outcome(i, b, o)
    BY <2>1, <2>3 DEF Outcome
  <2> QED BY <1>4, <2>2, <2>4
<1>7. CASE i.decoder.held > 0
  <2>1. /\ Became(i, o, 0, i.decoder.over) /\ o.decoder.held < i.decoder.held
        /\ o.staged = i.staged
        /\ Round(i).stop <=> o.done \/ i.staged = <<>>
    BY <1>4, <1>5, <1>7, WritingRound
  <2>2. i.staged # <<>>
    BY <1>4
  <2>3. CASE o.done
    <3>1. Looped(i) = o
      BY <1>5, <2>1, <2>3, LoopGoesRound
    <3>2. i.decoder.over
      BY <2>1, <2>3 DEF Became
    <3>3. Became(i, o, 0, TRUE)
      BY <2>1, <3>2 DEF Became
    <3> QED BY <1>4, <2>1, <2>3, <3>1, <3>2, <3>3 DEF Outcome
  <2>4. CASE ~o.done
    <3>1. Looped(i) = Looped(o)
      BY <1>5, <2>1, <2>2, <2>4, LoopGoesRound
    <3>2. o \in Inflaters /\ o.decoder.held \in Nat
      BY <2>1, InflaterFields DEF Became
    <3>3. Running(o) /\ o.staged = <<b>>
      BY <1>4, <2>1, <2>4, RunsOn
    <3>4. o.decoder.held \notin Off
      BY <1>2, <1>3, <2>1, <3>2
    <3>5. Outcome(o, b, Looped(o))
      BY <3>2, <3>3, <3>4
    <3>6. o.decoder.over <=> i.decoder.over
      BY <2>1 DEF Became
    <3>7. b.grows \in Nat /\ 0 + b.grows = b.grows /\ 0 + 0 = 0
      BY GrowsBy
    <3> HIDE DEF Off
    <3>8. CASE i.decoder.over
      <4>1. Became(o, Looped(o), 0, TRUE) /\ Looped(o).done /\ Looped(o).staged = <<b>>
        BY <3>5, <3>6, <3>8 DEF Outcome
      <4>2. Became(i, Looped(o), 0 + 0, TRUE)
        BY <2>1, <3>2, <4>1, BecameTwice
      <4> QED BY <1>4, <3>1, <3>7, <3>8, <4>1, <4>2 DEF Outcome
    <3>9. CASE ~i.decoder.over
      <4>1. /\ b.kind = "bad" => Looped(o).fault # "none"
            /\ b.kind # "bad" => /\ Became(o, Looped(o), b.grows, b.kind = "last")
                                 /\ Looped(o).staged = <<>>
        BY <3>5, <3>6, <3>9 DEF Outcome
      <4>2. b.kind # "bad" => Became(i, Looped(o), 0 + b.grows, b.kind = "last")
        BY <2>1, <3>2, <3>7, <4>1, BecameTwice
      <4> QED BY <1>4, <3>1, <3>7, <3>9, <4>1, <4>2 DEF Outcome
    <3> QED BY <3>8, <3>9
  <2> QED BY <2>3, <2>4
<1> QED BY <1>4, <1>6, <1>7

(* With nothing staged, drain is one turn.                                  *)
LEMMA NothingDrained ==
  ASSUME NEW i \in Inflaters, Running(i), i.staged = <<>>, NEW o, o = Looped(i)
  PROVE  Became(i, o, 0, i.decoder.over) /\ o.staged = <<>>
<1>1. i.decoder.held \in Nat
  BY InflaterFields
<1>2. PICK p : p = Round(i).after
  OBVIOUS
<1>3. CASE i.decoder.held = 0
  <2>1. Round(i).stop /\ Became(i, p, 0, i.decoder.over) /\ p.staged = <<>>
    BY <1>2, <1>3, IdleRound
  <2> QED BY <1>2, <2>1, LoopGoesRound
<1>4. CASE i.decoder.held > 0
  <2>1. /\ Became(i, p, 0, i.decoder.over) /\ p.staged = i.staged
        /\ Round(i).stop <=> p.done \/ i.staged = <<>>
    BY <1>2, <1>4, WritingRound
  <2> QED BY <1>2, <2>1, LoopGoesRound
<1> QED BY <1>1, <1>3, <1>4

(* A byte pushed and drained: behind the end of the stream it is left       *)
(* staged, before it it is read, and what it decodes to is due.             *)
LEMMA PushedAndDrained ==
  ASSUME NEW i \in Inflaters, Running(i), i.staged = <<>>, NEW b \in CompressedByte,
         NEW o, o = DrainNow(PushByte(i, b))
  PROVE  Outcome(i, b, o)
<1>1. PICK fed : fed = [i EXCEPT !.staged = <<b>>]
  OBVIOUS
<1>2. /\ fed \in Inflaters /\ fed.decoder = i.decoder /\ fed.pending = i.pending
      /\ fed.staged = <<b>> /\ fed.done = i.done /\ fed.fault = i.fault
  <2>1. <<b>> \in Seq(CompressedByte)
    OBVIOUS
  <2> QED BY <1>1, <2>1 DEF Inflaters
<1>3. fed = [i EXCEPT !.staged = Append(@, b)]
  <2>1. Append(<<>>, b) = <<b>>
    OBVIOUS
  <2> QED BY <1>1, <2>1
<1>4. Running(fed)
  BY <1>2 DEF Running
<1>5. \A p : Outcome(fed, b, p) => Outcome(i, b, p)
  BY <1>2 DEF Outcome, Became, Due
<1>6. Outcome(fed, b, Looped(fed))
  BY <1>2, <1>4, OneByteDrained
<1>7. Drain(fed, FALSE) = Looped(fed)
  BY <1>4 DEF Running, Drain, Looped
<1>8. PushByte(i, b) = IF Len(fed.staged) >= Stage THEN Looped(fed) ELSE fed
  <2>1. ~i.done
    BY DEF Running
  <2> QED BY <1>3, <1>7, <2>1 DEF PushByte
<1>9. CASE ~(Len(fed.staged) >= Stage)
  BY <1>5, <1>6, <1>7, <1>8, <1>9 DEF DrainNow
<1>10. CASE Len(fed.staged) >= Stage
  <2>1. PICK p : p = Looped(fed)
    OBVIOUS
  <2>2. o = Drain(p, FALSE) /\ Outcome(i, b, p)
    BY <1>5, <1>6, <1>8, <1>10, <2>1 DEF DrainNow
  <2>3. CASE p.done \/ p.fault # "none"
    BY <2>2, <2>3 DEF Drain
  <2>4. CASE ~(p.done \/ p.fault # "none")
    <3>1. o = Looped(p)
      BY <2>2, <2>4 DEF Drain, Looped
    <3>2. ~i.decoder.over /\ b.kind # "bad"
      BY <2>2, <2>4 DEF Outcome
    <3>3. Became(i, p, b.grows, b.kind = "last") /\ p.staged = <<>>
      BY <2>2, <3>2 DEF Outcome
    <3>4. p \in Inflaters /\ Running(p)
      BY <2>4, <3>3, RunsOn DEF Became
    <3>5. Became(p, o, 0, p.decoder.over) /\ o.staged = <<>>
      BY <3>1, <3>3, <3>4, NothingDrained
    <3>6. b.grows \in Nat /\ b.grows + 0 = b.grows
      BY GrowsBy
    <3>7. Became(i, o, b.grows + 0, p.decoder.over)
      BY <3>3, <3>4, <3>5, <3>6, BecameTwice
    <3>8. Became(i, o, b.grows, b.kind = "last")
      BY <3>3, <3>6, <3>7 DEF Became
    <3> QED BY <3>2, <3>5, <3>8 DEF Outcome
  <2> QED BY <2>3, <2>4
<1> QED BY <1>9, <1>10

(***************************************************************************)
(* The members.                                                            *)
(***************************************************************************)
InHeader == {"header", "extraLen", "extra", "name", "comment", "headerCrc"}

\* The inflater of a body that is not over: nothing is staged or pending, so
\* what is not summed and handed on is what the decoder holds.
InBody ==
  /\ beyond = 0 /\ inflater \in Inflaters /\ Running(inflater)
  /\ inflater.staged = <<>> /\ inflater.pending = 0
  /\ decoded = sums.crc + inflater.decoder.held
  /\ total = inner.len + inflater.decoder.held

\* Nothing of this member's body came yet.
Untouched ==
  /\ beyond = 0 /\ inflater = NewInflater
  /\ decoded = 0 /\ sums = NewSums /\ total = inner.len

\* All of it was summed and handed on.
Settled == decoded = sums.crc /\ total = inner.len

MemberInv ==
  /\ sums \in [crc : Nat, isize : Nat] /\ sums.crc = sums.isize
  /\ {inner.len, decoded, total, beyond} \subseteq Nat
  /\ \/ state.kind \in InHeader /\ Untouched
     \/ state = Body /\ InBody
     \/ state = Trailer(beyond) /\ Settled
     \/ state = Between /\ Settled

(* A new inflater has nothing to do.                                        *)
LEMMA NewRuns ==
  /\ NewInflater \in Inflaters /\ Running(NewInflater)
  /\ NewInflater.staged = <<>> /\ NewInflater.pending = 0 /\ NewInflater.decoder.held = 0
<1>1. /\ NewInflater.decoder = NewDecoder /\ NewInflater.staged = <<>>
      /\ NewInflater.pending = 0 /\ NewInflater.done = FALSE /\ NewInflater.fault = "none"
      /\ NewInflater \in Inflaters
  BY DEF NewInflater, NewDecoder, Inflaters
<1>2. NewDecoder.held = 0 /\ NewDecoder.over = FALSE /\ NewDecoder.bad = FALSE
  BY DEF NewDecoder
<1> QED BY <1>1, <1>2 DEF Running

(* The kinds of the states.                                                 *)
LEMMA StateKinds ==
  /\ \A n : Header(n).kind = "header" /\ ExtraLen(n).kind = "extraLen"
  /\ \A n : Extra(n).kind = "extra" /\ HeaderCrc(n).kind = "headerCrc"
  /\ Name.kind = "name" /\ Comment.kind = "comment"
  /\ Body.kind = "body" /\ Between.kind = "between"
  /\ \A n : Trailer(n).kind = "trailer" /\ Trailer(n).len = n
BY DEF Header, ExtraLen, Extra, HeaderCrc, Name, Comment, Body, Between, Trailer

(* The part behind another is one of the header's, or the body.             *)
LEMMA NextPartIs ==
  ASSUME NEW flagged, NEW done \in 0..4
  PROVE  NextPart(flagged, done) = Body \/ NextPart(flagged, done).kind \in InHeader
<1>1. Len(Parts) = 4 /\ Parts = <<"extra", "name", "comment", "crc">>
  BY DEF Parts
<1>2. PICK left : left = {i \in (done + 1)..Len(Parts) : Parts[i] \in flagged}
  OBVIOUS
<1>3. left \subseteq 1..4
  BY <1>1, <1>2
<1>4. CASE left = {}
  BY <1>2, <1>4 DEF NextPart
<1>5. CASE left # {}
  <2>1. \E i \in left : \A j \in left : i <= j
    BY <1>3, <1>5, LeastNat
  <2>2. PICK c : c = CHOOSE i \in left : \A j \in left : i <= j
    OBVIOUS
  <2>3. c \in 1..4
    BY <1>3, <2>1, <2>2
  <2>4. NextPart(flagged, done) = PartState[Parts[c]]
    BY <1>2, <1>5, <2>2 DEF NextPart
  <2>5. c = 1 \/ c = 2 \/ c = 3 \/ c = 4
    BY <2>3
  <2>6. PartState[Parts[c]] \in {ExtraLen(0), Name, Comment, HeaderCrc(0)}
    BY <1>1, <2>5 DEF PartState
  <2> QED BY <2>4, <2>6, StateKinds DEF InHeader
<1> QED BY <1>4, <1>5

(* Whatever the output is taken for, all of it is counted.                  *)
LEMMA RoutedAll ==
  ASSUME inner.len \in Nat, NEW out \in Nat, NEW routing \in Routings(out)
  PROVE  routing.inner.len = inner.len + out
<1>1. \A kind, len, reported : Routing(kind, len, reported).inner.len = len
  BY DEF Routing, Inner
<1>2. inner.len + 0 = inner.len
  OBVIOUS
<1>3. \A len : \A d \in Decisions(len) : d.inner.len = len
  BY <1>1 DEF Decisions, Single
<1> QED BY <1>1, <1>2, <1>3 DEF Routings

(* A byte of the header.                                                    *)
LEMMA HeaderKeeps ==
  ASSUME MemberInv, state.kind \in InHeader, state' = Body \/ state'.kind \in InHeader,
         UNCHANGED <<inflater, inner, sums, ghosts>>
  PROVE  MemberInv'
<1>1. Untouched
  BY StateKinds DEF MemberInv, InHeader
<1>2. /\ inflater' = inflater /\ inner' = inner /\ sums' = sums /\ decoded' = decoded
      /\ total' = total /\ beyond' = beyond
  BY DEF ghosts
<1>3. Untouched'
  BY <1>1, <1>2 DEF Untouched
<1>4. InBody
  <2>1. sums.crc = 0 /\ inner.len \in Nat
    BY <1>1 DEF MemberInv, Untouched, NewSums
  <2>2. decoded = sums.crc + inflater.decoder.held /\ total = inner.len + inflater.decoder.held
    BY <1>1, <2>1, NewRuns DEF Untouched
  <2> QED BY <1>1, <2>2, NewRuns DEF Untouched, InBody
<1>5. InBody'
  BY <1>2, <1>4 DEF InBody
<1>6. /\ sums' \in [crc : Nat, isize : Nat] /\ sums'.crc = sums'.isize
      /\ {inner'.len, decoded', total', beyond'} \subseteq Nat
  BY <1>2 DEF MemberInv
<1> QED BY <1>3, <1>5, <1>6 DEF MemberInv

(* A byte of the body.                                                      *)
LEMMA BodyKeeps == ASSUME MemberInv, BodyByte PROVE MemberInv'
<1>1. /\ InBody /\ {inner.len, decoded, total, beyond} \subseteq Nat
      /\ sums \in [crc : Nat, isize : Nat] /\ sums.crc = sums.isize
  BY StateKinds DEF MemberInv, BodyByte, InHeader
<1>2. PICK b \in CompressedByte :
        LET inflated == DrainNow(PushByte(inflater, b))
            out == inflated.pending
        IN /\ inflated.fault = "none"
           /\ state' = BodyState(inflated)
           /\ inflater' = TakePending(IF inflated.done THEN TakeTrailing(inflated) ELSE inflated)
           /\ sums' = [crc |-> sums.crc + out, isize |-> sums.isize + out]
           /\ \E routing \in Routings(out) :
                inner' = routing.inner /\ events' = routing.events
           /\ decoded' = IF Over THEN decoded ELSE decoded + b.grows
           /\ total' = IF Over THEN total ELSE total + b.grows
           /\ beyond' = IF Over THEN beyond + 1 ELSE 0
  BY DEF BodyByte
<1>3. PICK o : o = DrainNow(PushByte(inflater, b))
  OBVIOUS
<1>4. PICK i \in Inflaters : /\ i = inflater /\ Running(i) /\ i.staged = <<>> /\ i.pending = 0
                             /\ i.decoder.held \in Nat
  BY <1>1, InflaterFields DEF InBody
<1>5. Outcome(i, b, o)
  BY <1>3, <1>4, PushedAndDrained
<1>6. /\ o.fault = "none"
      /\ state' = BodyState(o)
      /\ inflater' = TakePending(IF o.done THEN TakeTrailing(o) ELSE o)
      /\ sums' = [crc |-> sums.crc + o.pending, isize |-> sums.isize + o.pending]
      /\ decoded' = IF i.decoder.over THEN decoded ELSE decoded + b.grows
      /\ total' = IF i.decoder.over THEN total ELSE total + b.grows
      /\ beyond' = IF i.decoder.over THEN beyond + 1 ELSE 0
  BY <1>2, <1>3, <1>4 DEF Over
<1>7. \E routing \in Routings(o.pending) : inner' = routing.inner
  BY <1>2, <1>3
<1>8. PICK m \in Nat : /\ \E s : Became(i, o, m, s)
                       /\ o \in Inflaters
                       /\ m = IF i.decoder.over THEN 0 ELSE b.grows
  <2>1. 0 \in Nat /\ b.grows \in Nat
    BY GrowsBy
  <2> QED BY <1>5, <1>6, <2>1 DEF Outcome, Became
<1>9. o.pending \in Nat /\ o.decoder.held \in Nat
  BY <1>8, InflaterFields
<1>10. o.pending + o.decoder.held = i.decoder.held + m
  <2>1. Due(o) = Due(i) + m
    BY <1>8 DEF Became
  <2> QED BY <1>4, <1>9, <2>1 DEF Due
<1>11. inner'.len = inner.len + o.pending
  BY <1>1, <1>7, <1>9, RoutedAll
<1>12. decoded' = decoded + m /\ total' = total + m
  BY <1>1, <1>6, <1>8
<1>13. PICK x, y \in Nat : x = sums.crc /\ y = inner.len
  BY <1>1
<1>14. decoded = x + i.decoder.held /\ total = y + i.decoder.held
  BY <1>1, <1>4, <1>13 DEF InBody
<1>15. /\ sums' \in [crc : Nat, isize : Nat] /\ sums'.crc = sums'.isize
       /\ sums'.crc = x + o.pending
  <2>1. sums.isize = x /\ x + o.pending \in Nat
    BY <1>1, <1>9, <1>13
  <2> QED BY <1>6, <1>13, <2>1
<1>16. /\ decoded' = sums'.crc + o.decoder.held /\ total' = inner'.len + o.decoder.held
  <2>1. PICK h, p, q \in Nat : h = i.decoder.held /\ p = o.pending /\ q = o.decoder.held
    BY <1>4, <1>9
  <2>2. (x + h) + m = (x + p) + q /\ (y + h) + m = (y + p) + q
    <3>1. p + q = h + m
      BY <1>10, <2>1
    <3> QED BY <3>1
  <2>3. decoded' = (x + h) + m /\ total' = (y + h) + m
    BY <1>12, <1>14, <2>1
  <2>4. sums'.crc = x + p /\ inner'.len = y + p
    BY <1>11, <1>13, <1>15, <2>1
  <2> QED BY <2>1, <2>2, <2>3, <2>4
<1>17. {inner'.len, decoded', total', beyond'} \subseteq Nat
  <2>1. inner'.len \in Nat /\ decoded' \in Nat /\ total' \in Nat
    BY <1>1, <1>8, <1>9, <1>11, <1>12
  <2>2. beyond' \in Nat
    BY <1>1, <1>6
  <2> QED BY <2>1, <2>2
<1>18. CASE o.done
  <2>1. Settled'
    <3>1. o.decoder.held = 0
      BY <1>8, <1>18 DEF Became
    <3>2. decoded' = sums'.crc /\ total' = inner'.len
      BY <1>9, <1>11, <1>13, <1>15, <1>16, <3>1
    <3> QED BY <3>2 DEF Settled
  <2>2. state' = Trailer(beyond')
    <3>1. state' = Trailer(Len(o.staged))
      BY <1>6, <1>18 DEF BodyState
    <3>2. Len(<<b>>) = 1 /\ Len(<<>>) = 0 /\ beyond + 1 = 1
      BY <1>1 DEF InBody
    <3>3. Len(o.staged) = beyond'
      BY <1>5, <1>6, <3>2 DEF Outcome
    <3> QED BY <3>1, <3>3
  <2> QED BY <1>15, <1>17, <2>1, <2>2 DEF MemberInv
<1>19. CASE ~o.done
  <2>1. state' = Body /\ inflater' = TakePending(o)
    BY <1>6, <1>19 DEF BodyState
  <2>2. ~i.decoder.over /\ o.staged = <<>>
    BY <1>5, <1>6, <1>19 DEF Outcome
  <2>3. beyond' = 0
    BY <1>6, <2>2
  <2>4. /\ inflater' \in Inflaters /\ inflater'.decoder = o.decoder
        /\ inflater'.staged = o.staged /\ inflater'.pending = 0
        /\ inflater'.done = o.done /\ inflater'.fault = o.fault
    BY <1>8, <2>1 DEF TakePending, Inflaters
  <2>5. Running(o)
    BY <1>8, <1>19, RunsOn
  <2>6. Running(inflater')
    BY <2>4, <2>5 DEF Running
  <2>7. InBody'
    BY <1>16, <2>2, <2>3, <2>4, <2>6 DEF InBody
  <2> QED BY <1>15, <1>17, <2>1, <2>7 DEF MemberInv
<1> QED BY <1>18, <1>19

(* A byte of the trailer.                                                   *)
LEMMA TrailerKeeps == ASSUME MemberInv, TrailerByte PROVE MemberInv'
<1>1. /\ state = Trailer(beyond) /\ Settled
      /\ sums \in [crc : Nat, isize : Nat] /\ sums.crc = sums.isize
      /\ {inner.len, decoded, total, beyond} \subseteq Nat
  BY StateKinds DEF MemberInv, TrailerByte, InHeader
<1>2. /\ sums' = sums /\ decoded' = decoded /\ total' = total /\ inner' = inner
      /\ beyond' = beyond + 1
  BY DEF TrailerByte, Framed
<1>3. beyond' \in Nat
  BY <1>1, <1>2
<1>4. /\ sums' \in [crc : Nat, isize : Nat] /\ sums'.crc = sums'.isize
      /\ {inner'.len, decoded', total', beyond'} \subseteq Nat
  BY <1>1, <1>2, <1>3
<1>5. Settled'
  BY <1>1, <1>2 DEF Settled
<1>6. state' = Trailer(beyond') \/ state' = Between
  BY <1>1, <1>2, StateKinds DEF TrailerByte, Framed
<1> QED BY <1>4, <1>5, <1>6 DEF MemberInv

(* Another member.                                                          *)
LEMMA NextMemberKeeps == ASSUME MemberInv, NextMember PROVE MemberInv'
<1>1. Settled /\ {inner.len, total} \subseteq Nat
  BY StateKinds DEF MemberInv, NextMember, InHeader
<1>2. /\ state' = Header(1) /\ inflater' = NewInflater /\ sums' = NewSums
      /\ decoded' = 0 /\ beyond' = 0 /\ inner' = inner /\ total' = total
  BY DEF NextMember, Fresh
<1>3. Untouched'
  BY <1>1, <1>2 DEF Untouched, Settled
<1>4. NewSums \in [crc : Nat, isize : Nat] /\ NewSums.crc = NewSums.isize
  BY DEF NewSums
<1>5. {inner'.len, decoded', total', beyond'} \subseteq Nat
  BY <1>1, <1>2
<1>6. state'.kind \in InHeader
  BY <1>2, StateKinds DEF InHeader
<1> QED BY <1>2, <1>3, <1>4, <1>5, <1>6 DEF MemberInv

(* Nothing but what the output is taken for changes.                        *)
LEMMA StaysKept ==
  ASSUME MemberInv, UNCHANGED <<framing, inflater, sums, ghosts>>, inner'.len = inner.len
  PROVE  MemberInv'
<1>1. /\ state' = state /\ inflater' = inflater /\ sums' = sums /\ decoded' = decoded
      /\ total' = total /\ beyond' = beyond
  BY DEF framing, ghosts
<1>2. /\ Untouched => Untouched'
      /\ InBody => InBody'
      /\ Settled => Settled'
  BY <1>1 DEF Untouched, InBody, Settled
<1>3. /\ sums' \in [crc : Nat, isize : Nat] /\ sums'.crc = sums'.isize
      /\ {inner'.len, decoded', total', beyond'} \subseteq Nat
  BY <1>1 DEF MemberInv
<1>4. CASE state.kind \in InHeader /\ Untouched
  BY <1>1, <1>2, <1>3, <1>4 DEF MemberInv
<1>5. CASE state = Body /\ InBody
  BY <1>1, <1>2, <1>3, <1>5 DEF MemberInv
<1>6. CASE state = Trailer(beyond) /\ Settled
  BY <1>1, <1>2, <1>3, <1>6 DEF MemberInv
<1>7. CASE state = Between /\ Settled
  BY <1>1, <1>2, <1>3, <1>7 DEF MemberInv
<1> QED BY <1>4, <1>5, <1>6, <1>7 DEF MemberInv

(* The end of the input.                                                    *)
LEMMA FinishKeeps == ASSUME MemberInv, FinishOk PROVE MemberInv'
<1>1. PICK level \in (IF inner.kind = "detect" THEN Decisions(inner.len)
                      ELSE {Routing(inner.kind, inner.len, <<>>)}) : inner' = level.inner
  BY DEF FinishOk
<1>2. \A kind, len, reported : Routing(kind, len, reported).inner.len = len
  BY DEF Routing, Inner
<1>3. level.inner.len = inner.len
  BY <1>1, <1>2 DEF Decisions, Single
<1>4. UNCHANGED <<framing, inflater, sums, ghosts>>
  BY DEF FinishOk
<1> QED BY <1>1, <1>3, <1>4, StaysKept

LEMMA InitMember == Init => MemberInv
<1> SUFFICES ASSUME Init PROVE MemberInv
  OBVIOUS
<1>1. /\ state = Header(0) /\ inflater = NewInflater /\ sums = NewSums
      /\ decoded = 0 /\ total = 0 /\ beyond = 0 /\ inner.len = 0
  BY DEF Init, Inner
<1>2. NewSums \in [crc : Nat, isize : Nat] /\ NewSums.crc = NewSums.isize
  BY DEF NewSums
<1>3. state.kind \in InHeader /\ Untouched
  BY <1>1, StateKinds DEF InHeader, Untouched
<1> QED BY <1>1, <1>2, <1>3 DEF MemberInv

LEMMA NextMemberInv == MemberInv /\ [Next]_vars => MemberInv'
<1> SUFFICES ASSUME MemberInv, [Next]_vars PROVE MemberInv'
  OBVIOUS
<1>0. 0 \in 0..4 /\ 1 \in 0..4 /\ 2 \in 0..4 /\ 3 \in 0..4
  OBVIOUS
<1>1. CASE HeaderByte
  <2>1. state.kind \in InHeader
    BY <1>1 DEF HeaderByte, InHeader
  <2>2. state' = Body \/ state'.kind \in InHeader
    BY <1>0, <1>1, NextPartIs, StateKinds DEF HeaderByte, Framed, InHeader
  <2>3. UNCHANGED <<inflater, inner, sums, ghosts>>
    BY <1>1 DEF HeaderByte, Framed
  <2> QED BY <2>1, <2>2, <2>3, HeaderKeeps
<1>2. CASE ExtraByte
  <2>1. state.kind \in InHeader
    BY <1>2, StateKinds DEF ExtraByte, InHeader
  <2>2. state' = Body \/ state'.kind \in InHeader
    BY <1>0, <1>2, NextPartIs, StateKinds DEF ExtraByte, Framed, InHeader
  <2>3. UNCHANGED <<inflater, inner, sums, ghosts>>
    BY <1>2 DEF ExtraByte, Framed
  <2> QED BY <2>1, <2>2, <2>3, HeaderKeeps
<1>3. CASE NameByte
  <2>1. state.kind \in InHeader
    BY <1>3, StateKinds DEF NameByte, InHeader
  <2>2. state' = Body \/ state'.kind \in InHeader
    BY <1>0, <1>3, NextPartIs, StateKinds DEF NameByte, Framed, InHeader
  <2>3. UNCHANGED <<inflater, inner, sums, ghosts>>
    BY <1>3 DEF NameByte, Framed
  <2> QED BY <2>1, <2>2, <2>3, HeaderKeeps
<1>4. CASE CommentByte
  <2>1. state.kind \in InHeader
    BY <1>4, StateKinds DEF CommentByte, InHeader
  <2>2. state' = Body \/ state'.kind \in InHeader
    BY <1>0, <1>4, NextPartIs, StateKinds DEF CommentByte, Framed, InHeader
  <2>3. UNCHANGED <<inflater, inner, sums, ghosts>>
    BY <1>4 DEF CommentByte, Framed
  <2> QED BY <2>1, <2>2, <2>3, HeaderKeeps
<1>5. CASE HeaderCrcByte
  <2>1. state.kind \in InHeader
    BY <1>5 DEF HeaderCrcByte, InHeader
  <2>2. state' = Body \/ state'.kind \in InHeader
    BY <1>5, StateKinds DEF HeaderCrcByte, Framed, InHeader
  <2>3. UNCHANGED <<inflater, inner, sums, ghosts>>
    BY <1>5 DEF HeaderCrcByte, Framed
  <2> QED BY <2>1, <2>2, <2>3, HeaderKeeps
<1>6. CASE Refuse \/ UNCHANGED vars
  BY <1>6, StaysKept DEF Refuse, vars
<1> QED BY <1>1, <1>2, <1>3, <1>4, <1>5, <1>6, BodyKeeps, TrailerKeeps, NextMemberKeeps,
           FinishKeeps
        DEF Next, BadHeader, NameTooLong, BadBody, BadTrailer, FinishTruncated

LEMMA MemberInvariant == Spec => []MemberInv
BY InitMember, NextMemberInv, PTL DEF Spec

(* When a trailer is compared, and between members, all that the body       *)
(* decodes to was summed and handed on, for every stage, window and         *)
(* dictionary and whatever a compressed byte grows to.                      *)
THEOREM MembersAreWhole == Spec => []MemberIsWhole
<1>1. MemberInv => MemberIsWhole
  BY StateKinds DEF MemberInv, MemberIsWhole, InHeader, Settled
<1> QED BY <1>1, MemberInvariant, PTL

(* The trailer begins with the byte behind the body's last, wherever the    *)
(* inflater saw the end.                                                    *)
THEOREM TrailersFollowBodies == Spec => []TrailerFollowsBody
<1>1. MemberInv => TrailerFollowsBody
  BY StateKinds DEF MemberInv, TrailerFollowsBody, InHeader, InBody
<1> QED BY <1>1, MemberInvariant, PTL

(***************************************************************************)
(* What the decomposer hears.                                              *)
(***************************************************************************)
\* A function that follows the members around the first `n` events.
Follows(f, n, m, batch) ==
  f = [i \in 0..n |-> IF i = 0 THEN m ELSE After(f[i - 1], batch[i])]

(* There is one for every number of events.                                 *)
LEMMA FollowersExist ==
  ASSUME NEW m, NEW batch
  PROVE  \A n \in Nat : \E f : Follows(f, n, m, batch)
<1> DEFINE T == {n \in Nat : ~\E f : Follows(f, n, m, batch)}
<1>1. SUFFICES ASSUME T # {} PROVE FALSE
  OBVIOUS
<1>2. PICK n \in T : \A k \in T : n <= k
  <2>1. T \in SUBSET Nat
    OBVIOUS
  <2> HIDE DEF T
  <2> QED BY <2>1, <1>1, LeastNat
<1>3. n \in Nat /\ ~\E f : Follows(f, n, m, batch)
  OBVIOUS
<1>4. CASE n = 0
  <2> DEFINE f == [i \in 0..0 |-> m]
  <2>1. f = [i \in 0..0 |-> IF i = 0 THEN m ELSE After(f[i - 1], batch[i])]
    OBVIOUS
  <2>2. Follows(f, n, m, batch)
    BY <2>1, <1>4 DEF Follows
  <2> QED BY <2>2, <1>3
<1>5. CASE n # 0
  <2>1. n - 1 \in Nat /\ ~(n <= n - 1)
    BY <1>3, <1>5
  <2>2. PICK f : Follows(f, n - 1, m, batch)
    BY <2>1, <1>2
  <2> DEFINE g == [i \in 0..n |-> IF i = n THEN After(f[n - 1], batch[n]) ELSE f[i]]
  <2>3. ASSUME NEW i \in 0..n
        PROVE  g[i] = IF i = 0 THEN m ELSE After(g[i - 1], batch[i])
    <3>1. f = [j \in 0..n - 1 |-> IF j = 0 THEN m ELSE After(f[j - 1], batch[j])]
      BY <2>2 DEF Follows
    <3>2. CASE i = n
      <4>1. g[i] = After(f[n - 1], batch[n])
        BY <3>2
      <4>2. n - 1 \in 0..n /\ n - 1 # n
        BY <1>3, <1>5
      <4>3. g[n - 1] = f[n - 1]
        BY <4>2
      <4> QED BY <4>1, <4>3, <3>2, <1>5
    <3>3. CASE i # n
      <4>1. i \in 0..n - 1
        BY <3>3, <1>3
      <4>2. g[i] = f[i]
        BY <3>3
      <4>3. f[i] = IF i = 0 THEN m ELSE After(f[i - 1], batch[i])
        BY <3>1, <4>1
      <4>4. CASE i = 0
        BY <4>2, <4>3, <4>4
      <4>5. CASE i # 0
        <5>1. i - 1 \in 0..n /\ i - 1 # n
          BY <4>1, <4>5, <1>3
        <5>2. g[i - 1] = f[i - 1]
          BY <5>1
        <5> QED BY <4>2, <4>3, <4>5, <5>2
      <4> QED BY <4>4, <4>5
    <3> QED BY <3>2, <3>3
  <2>4. g = [i \in 0..n |-> IF i = 0 THEN m ELSE After(g[i - 1], batch[i])]
    <3>1. \A i \in 0..n :
            g[i] = [j \in 0..n |-> IF j = 0 THEN m ELSE After(g[j - 1], batch[j])][i]
      BY <2>3
    <3>2. g = [i \in 0..n |-> g[i]]
      OBVIOUS
    <3> HIDE DEF g
    <3> QED BY <3>1, <3>2
  <2>5. Follows(g, n, m, batch)
    BY <2>4 DEF Follows
  <2> QED BY <2>5, <1>3
<1> QED BY <1>4, <1>5

(* The members around the events of a batch, one event after the other.     *)
LEMMA AlongSteps ==
  ASSUME NEW m, NEW batch, Len(batch) \in Nat
  PROVE  /\ Along(m, batch)[0] = m
         /\ \A i \in 1..Len(batch) :
              Along(m, batch)[i] = After(Along(m, batch)[i - 1], batch[i])
<1> DEFINE a == Along(m, batch)
<1>1. \E f : f = [i \in 0..Len(batch) |->
                    IF i = 0 THEN m ELSE After(f[i - 1], batch[i])]
  <2>1. \A n \in Nat : \E f : Follows(f, n, m, batch)
    BY FollowersExist
  <2>2. PICK f : Follows(f, Len(batch), m, batch)
    BY <2>1
  <2> QED BY <2>2 DEF Follows
<1>2. a = [i \in 0..Len(batch) |-> IF i = 0 THEN m ELSE After(a[i - 1], batch[i])]
  BY <1>1 DEF Along
<1> HIDE DEF a
<1>3. a[0] = m
  BY <1>2
<1>4. ASSUME NEW i \in 1..Len(batch) PROVE a[i] = After(a[i - 1], batch[i])
  <2>1. i \in 0..Len(batch) /\ i # 0
    OBVIOUS
  <2> QED BY <1>2, <2>1
<1> QED BY <1>3, <1>4 DEF a

(* The contract speaks of the same events.                                  *)
LEMMA ContractEvents ==
  /\ \A m, batch : Contract!Along(m, batch) = Along(m, batch)
  /\ \A m, event : Contract!Admits(m, event) <=> Admits(m, event)
  /\ \A n : Contract!Idle(n) = Idle(n)
BY DEF Contract!Along, Along, Contract!After, After, Contract!Idle, Idle,
       Contract!Admits, Admits, Contract!Undeclared, Undeclared

\* A call that reports nothing,
LEMMA NothingHeard ==
  ASSUME phase = "reading", phase' \in {"reading", "ended"}, events' = <<>>,
         Member' = Member, phase' = "ended" => ~Member'.open
  PROVE  Contract!Next
<1>1. Contract!Along(Member, <<>>)[0] = Member
  BY AlongSteps, ContractEvents
<1> HIDE DEF Member
<1> QED BY <1>1 DEF Contract!Next, Contract!Report

\* one event,
LEMMA OneHeard ==
  ASSUME phase = "reading", phase' \in {"reading", "ended"}, NEW e, events' = <<e>>,
         Admits(Member, e), Member' = After(Member, e), phase' = "ended" => ~Member'.open
  PROVE  Contract!Next
<1>1. /\ Contract!Along(Member, <<e>>)[0] = Member
      /\ Contract!Along(Member, <<e>>)[1] = After(Member, e)
  <2>1. Len(<<e>>) = 1 /\ 1 \in 1..Len(<<e>>) /\ <<e>>[1] = e /\ 1 - 1 = 0
    OBVIOUS
  <2>2. /\ Along(Member, <<e>>)[0] = Member
        /\ Along(Member, <<e>>)[1] = After(Along(Member, <<e>>)[0], e)
    BY <2>1, AlongSteps
  <2> QED BY <2>2, ContractEvents
<1>2. Contract!Admits(Member, e)
  BY ContractEvents
<1>3. DOMAIN <<e>> = {1} /\ Len(<<e>>) = 1 /\ <<e>>[1] = e /\ 1 - 1 = 0
  OBVIOUS
<1> HIDE DEF Member
<1> QED BY <1>1, <1>2, <1>3 DEF Contract!Next, Contract!Report

\* two of them,
LEMMA TwoHeard ==
  ASSUME phase = "reading", phase' \in {"reading", "ended"}, NEW d, NEW e, events' = <<d, e>>,
         Admits(Member, d), Admits(After(Member, d), e),
         Member' = After(After(Member, d), e), phase' = "ended" => ~Member'.open
  PROVE  Contract!Next
<1>1. /\ Contract!Along(Member, <<d, e>>)[0] = Member
      /\ Contract!Along(Member, <<d, e>>)[1] = After(Member, d)
      /\ Contract!Along(Member, <<d, e>>)[2] = After(After(Member, d), e)
  <2>1. /\ Len(<<d, e>>) = 2 /\ 1 \in 1..Len(<<d, e>>) /\ 2 \in 1..Len(<<d, e>>)
        /\ <<d, e>>[1] = d /\ <<d, e>>[2] = e /\ 1 - 1 = 0 /\ 2 - 1 = 1
    OBVIOUS
  <2>2. /\ Along(Member, <<d, e>>)[0] = Member
        /\ Along(Member, <<d, e>>)[1] = After(Along(Member, <<d, e>>)[0], d)
        /\ Along(Member, <<d, e>>)[2] = After(Along(Member, <<d, e>>)[1], e)
    BY <2>1, AlongSteps
  <2> QED BY <2>2, ContractEvents
<1>2. Contract!Admits(Member, d) /\ Contract!Admits(After(Member, d), e)
  BY ContractEvents
<1>3. /\ DOMAIN <<d, e>> = {1, 2} /\ Len(<<d, e>>) = 2
      /\ <<d, e>>[1] = d /\ <<d, e>>[2] = e /\ 1 - 1 = 0 /\ 2 - 1 = 1
  OBVIOUS
<1> HIDE DEF Member
<1> QED BY <1>1, <1>2, <1>3 DEF Contract!Next, Contract!Report

\* or three.
LEMMA ThreeHeard ==
  ASSUME phase = "reading", phase' \in {"reading", "ended"}, NEW c, NEW d, NEW e,
         events' = <<c, d, e>>, NEW m, m = After(Member, c), NEW n, n = After(m, d),
         Admits(Member, c), Admits(m, d), Admits(n, e),
         Member' = After(n, e), phase' = "ended" => ~Member'.open
  PROVE  Contract!Next
<1>1. /\ Contract!Along(Member, <<c, d, e>>)[0] = Member
      /\ Contract!Along(Member, <<c, d, e>>)[1] = m
      /\ Contract!Along(Member, <<c, d, e>>)[2] = n
      /\ Contract!Along(Member, <<c, d, e>>)[3] = After(n, e)
  <2>1. /\ Len(<<c, d, e>>) = 3 /\ 1 \in 1..3 /\ 2 \in 1..3 /\ 3 \in 1..3
        /\ <<c, d, e>>[1] = c /\ <<c, d, e>>[2] = d /\ <<c, d, e>>[3] = e
        /\ 1 - 1 = 0 /\ 2 - 1 = 1 /\ 3 - 1 = 2
    OBVIOUS
  <2>2. /\ Along(Member, <<c, d, e>>)[0] = Member
        /\ Along(Member, <<c, d, e>>)[1] = After(Along(Member, <<c, d, e>>)[0], c)
        /\ Along(Member, <<c, d, e>>)[2] = After(Along(Member, <<c, d, e>>)[1], d)
        /\ Along(Member, <<c, d, e>>)[3] = After(Along(Member, <<c, d, e>>)[2], e)
    BY <2>1, AlongSteps
  <2> QED BY <2>2, ContractEvents
<1>2. Contract!Admits(Member, c) /\ Contract!Admits(m, d) /\ Contract!Admits(n, e)
  BY ContractEvents
<1>3. /\ DOMAIN <<c, d, e>> = {1, 2, 3} /\ Len(<<c, d, e>>) = 3
      /\ <<c, d, e>>[1] = c /\ <<c, d, e>>[2] = d /\ <<c, d, e>>[3] = e
      /\ 1 - 1 = 0 /\ 2 - 1 = 1 /\ 3 - 1 = 2
  OBVIOUS
<1> HIDE DEF Member
<1> QED BY <1>1, <1>2, <1>3 DEF Contract!Next, Contract!Report

(* Two sequences of one.                                                    *)
LEMMA TwoInARow ==
  ASSUME NEW d, NEW e
  PROVE  <<d>> \o <<e>> = <<d, e>>
<1> DEFINE S == {d, e}
           p == <<d>> \o <<e>>
           q == <<d, e>>
<1>1. <<d>> \in Seq(S) /\ <<e>> \in Seq(S) /\ Len(<<d>>) = 1 /\ Len(<<e>>) = 1
  OBVIOUS
<1>2. q \in Seq(S) /\ Len(q) = 2 /\ q[1] = d /\ q[2] = e
  OBVIOUS
<1>3. p \in Seq(S) /\ Len(p) = 2 /\ p[1] = d /\ p[2] = e
  BY <1>1, ConcatProperties
<1> HIDE DEF p, q, S
<1>4. \A i \in 1..Len(p) : p[i] = q[i]
  BY <1>2, <1>3
<1> QED BY <1>2, <1>3, <1>4, SeqEqual DEF p, q

(* One more behind two.                                                     *)
LEMMA OneMore ==
  ASSUME NEW c, NEW d, NEW e
  PROVE  <<c, d>> \o <<e>> = <<c, d, e>>
<1> DEFINE S == {c, d, e}
           p == <<c, d>> \o <<e>>
           q == <<c, d, e>>
<1>1. <<c, d>> \in Seq(S) /\ <<e>> \in Seq(S) /\ Len(<<c, d>>) = 2 /\ Len(<<e>>) = 1
  OBVIOUS
<1>2. q \in Seq(S) /\ Len(q) = 3 /\ q[1] = c /\ q[2] = d /\ q[3] = e
  OBVIOUS
<1>3. p \in Seq(S) /\ Len(p) = 3 /\ p[1] = c /\ p[2] = d /\ p[3] = e
  BY <1>1, ConcatProperties
<1> HIDE DEF p, q, S
<1>4. \A i \in 1..Len(p) : p[i] = q[i]
  BY <1>2, <1>3
<1> QED BY <1>2, <1>3, <1>4, SeqEqual DEF p, q

(* The member with `got` bytes of it reported.                              *)
Under(got) == [open |-> TRUE, size |-> Undeclared, got |-> got, ordinal |-> 1]

(* How each event moves it.                                                 *)
LEMMA MemberMoves ==
  ASSUME NEW got \in Nat, NEW n \in Nat
  PROVE  /\ Admits(Under(got), Data(n)) /\ After(Under(got), Data(n)) = Under(got + n)
         /\ Admits(Under(got), End(got)) /\ After(Under(got), End(got)) = Idle(1)
         /\ Admits(Idle(0), Start(0, Undeclared))
         /\ After(Idle(0), Start(0, Undeclared)) = Under(0)
<1>1. Admits(Under(got), Data(n))
  BY DEF Under, Admits, Data, Undeclared
<1>2. After(Under(got), Data(n)) = Under(got + n)
  BY DEF Under, After, Data
<1>3. Admits(Under(got), End(got))
  BY DEF Under, Admits, End, Undeclared
<1>4. After(Under(got), End(got)) = Idle(1)
  BY DEF Under, After, End
<1>5. Admits(Idle(0), Start(0, Undeclared))
  BY DEF Idle, Admits, Start
<1>6. After(Idle(0), Start(0, Undeclared)) = Under(0)
  BY DEF Idle, After, Start, Under
<1> QED BY <1>1, <1>2, <1>3, <1>4, <1>5, <1>6

(* The member, by what the output is taken for.                             *)
LEMMA MemberSeen ==
  /\ inner.kind # "single" => Member = Idle(0)
  /\ inner.kind = "single" /\ phase = "ended" => Member = Idle(1)
  /\ inner.kind = "single" /\ phase # "ended" => Member = Under(inner.len)
BY DEF Member, Under

LEMMA MemberSeenNext ==
  /\ inner'.kind # "single" => Member' = Idle(0)
  /\ inner'.kind = "single" /\ phase' = "ended" => Member' = Idle(1)
  /\ inner'.kind = "single" /\ phase' # "ended" => Member' = Under(inner'.len)
BY DEF Member, Under

LEMMA IdleIsClosed == ~Idle(0).open /\ ~Idle(1).open
BY DEF Idle

(* What a routing says.                                                     *)
LEMMA RoutingSays ==
  ASSUME NEW kind, NEW len, NEW reported
  PROVE  /\ Routing(kind, len, reported).inner.kind = kind
         /\ Routing(kind, len, reported).inner.len = len
         /\ Routing(kind, len, reported).events = reported
BY DEF Routing, Inner

(* What a decision about `len` held-back bytes reports.                     *)
LEMMA DecisionSays ==
  ASSUME NEW len \in Nat, NEW d \in Decisions(len)
  PROVE  /\ d.inner.len = len
         /\ \/ d.inner.kind = "tar" /\ d.events = <<>>
            \/ /\ d.inner.kind = "single"
               /\ d.events = IF len = 0 THEN <<Start(0, Undeclared)>>
                             ELSE <<Start(0, Undeclared), Data(len)>>
<1>1. \A e : <<e>> \o <<>> = <<e>>
  OBVIOUS
<1> DEFINE reported == <<Start(0, Undeclared)>> \o Bytes(len)
<1>2. reported
        = IF len = 0 THEN <<Start(0, Undeclared)>> ELSE <<Start(0, Undeclared), Data(len)>>
  BY <1>1, TwoInARow DEF Bytes
<1>3. d = Routing("tar", len, <<>>) \/ d = Routing("single", len, reported)
  BY DEF Decisions, Single
<1> HIDE DEF reported
<1>4. CASE d = Routing("tar", len, <<>>)
  BY <1>4, RoutingSays
<1>5. CASE d = Routing("single", len, reported)
  <2>1. d.inner.kind = "single" /\ d.inner.len = len /\ d.events = reported
    BY <1>5, RoutingSays
  <2> QED BY <1>2, <2>1
<1> QED BY <1>3, <1>4, <1>5

(* A step that leaves the member alone and reports nothing.                 *)
LEMMA QuietStep ==
  ASSUME Reading, events' = <<>>, UNCHANGED inner
  PROVE  Contract!Next
<1>1. phase = "reading" /\ phase' = "reading"
  BY DEF Reading
<1>2. Member' = Member
  BY <1>1 DEF Member
<1> HIDE DEF Member
<1> QED BY <1>1, <1>2, NothingHeard

(* A refusal.                                                               *)
LEMMA RefusalHeard ==
  ASSUME Refuse
  PROVE  Contract!Next
<1>1. Member' = Member
  BY DEF Refuse, Member
<1> HIDE DEF Member
<1> QED BY <1>1 DEF Refuse, Contract!Next, Contract!Fault

(* A byte of the body routes all that came out.                             *)
LEMMA BodyRoutes ==
  ASSUME MemberInv, BodyByte
  PROVE  \E out \in Nat : \E routing \in Routings(out) :
           inner' = routing.inner /\ events' = routing.events
<1>1. InBody
  BY StateKinds DEF MemberInv, BodyByte, InHeader
<1>2. PICK b \in CompressedByte :
        LET inflated == DrainNow(PushByte(inflater, b))
            out == inflated.pending
        IN /\ inflated.fault = "none"
           /\ \E routing \in Routings(out) :
                inner' = routing.inner /\ events' = routing.events
  BY DEF BodyByte
<1>3. PICK o : o = DrainNow(PushByte(inflater, b))
  OBVIOUS
<1>4. PICK i \in Inflaters : i = inflater /\ Running(i) /\ i.staged = <<>> /\ i.pending = 0
  BY <1>1, InflaterFields DEF InBody
<1>5. Outcome(i, b, o)
  BY <1>3, <1>4, PushedAndDrained
<1>6. o.fault = "none"
  BY <1>2, <1>3
<1>7. o.pending \in Nat
  <2>1. 0 \in Nat /\ b.grows \in Nat
    BY GrowsBy
  <2>2. o \in Inflaters
    BY <1>5, <1>6, <2>1 DEF Outcome, Became
  <2> QED BY <2>2, InflaterFields
<1> QED BY <1>2, <1>3, <1>7

(* It reports the bytes of the member, or announces it.                     *)
LEMMA BodyHeard ==
  ASSUME MemberInv, BodyByte
  PROVE  Contract!Next
<1>1. phase = "reading" /\ phase' = "reading" /\ phase' # "ended" /\ phase # "ended"
  BY DEF BodyByte, Reading
<1>2. PICK out \in Nat : \E routing \in Routings(out) :
        inner' = routing.inner /\ events' = routing.events
  BY BodyRoutes
<1>3. PICK routing \in Routings(out) : inner' = routing.inner /\ events' = routing.events
  BY <1>2
<1>4. PICK got \in Nat : got = inner.len
  BY DEF MemberInv
<1>5. PICK len \in Nat : len = got + out
  BY <1>2, <1>4
<1> HIDE DEF Member
<1>6. CASE \/ routing = Routing(inner.kind, inner.len, <<>>)
           \/ inner.kind # "single" /\ routing = Routing(inner.kind, len, <<>>)
  <2>1. events' = <<>> /\ inner'.kind = inner.kind
    BY <1>3, <1>6, RoutingSays
  <2>2. inner.kind = "single" => inner'.len = inner.len
    BY <1>3, <1>6, RoutingSays
  <2>3. Member' = Member
    BY <1>1, <2>1, <2>2, MemberSeen, MemberSeenNext
  <2> QED BY <1>1, <2>1, <2>3, NothingHeard
<1>7. CASE inner.kind = "single" /\ out # 0 /\ routing = Routing("single", len, Bytes(out))
  <2>1. events' = <<Data(out)>> /\ inner'.kind = "single" /\ inner'.len = len
    BY <1>3, <1>7, RoutingSays DEF Bytes
  <2>2. Member = Under(got) /\ Member' = Under(len)
    BY <1>1, <1>4, <1>7, <2>1, MemberSeen, MemberSeenNext
  <2>3. Admits(Under(got), Data(out)) /\ After(Under(got), Data(out)) = Under(len)
    BY <1>5, MemberMoves
  <2> QED BY <1>1, <2>1, <2>2, <2>3, OneHeard
<1>8. CASE inner.kind = "detect" /\ out # 0 /\ routing \in Decisions(len)
  <2>1. len # 0
    BY <1>5, <1>8
  <2>2. Member = Idle(0)
    BY <1>8, MemberSeen
  <2>3. CASE routing.inner.kind = "tar" /\ routing.events = <<>>
    <3>1. Member' = Idle(0)
      BY <1>3, <2>3, MemberSeenNext
    <3> QED BY <1>1, <1>3, <2>2, <2>3, <3>1, NothingHeard
  <2>4. CASE /\ routing.inner.kind = "single" /\ routing.inner.len = len
             /\ routing.events = <<Start(0, Undeclared), Data(len)>>
    <3>1. Member' = Under(len)
      BY <1>1, <1>3, <2>4, MemberSeenNext
    <3>2. 0 \in Nat /\ 0 + len = len
      OBVIOUS
    <3>3. /\ Admits(Idle(0), Start(0, Undeclared))
          /\ After(Idle(0), Start(0, Undeclared)) = Under(0)
          /\ Admits(Under(0), Data(len)) /\ After(Under(0), Data(len)) = Under(len)
      BY <3>2, MemberMoves
    <3> QED BY <1>1, <1>3, <2>2, <2>4, <3>1, <3>3, TwoHeard
  <2> QED BY <1>8, <2>1, <2>3, <2>4, DecisionSays
<1> QED BY <1>3, <1>4, <1>5, <1>6, <1>7, <1>8 DEF Routings

(* The end of the input ends the member with the count of all that was      *)
(* handed on.                                                               *)
LEMMA FinishHeard ==
  ASSUME MemberInv, FinishOk
  PROVE  Contract!Next
<1>1. phase = "reading" /\ phase' = "ended" /\ phase # "ended"
  BY DEF FinishOk
<1>2. PICK level \in (IF inner.kind = "detect" THEN Decisions(inner.len)
                      ELSE {Routing(inner.kind, inner.len, <<>>)}) :
        /\ inner' = level.inner
        /\ events' = level.events
                     \o (IF level.inner.kind = "single" THEN <<End(level.inner.len)>> ELSE <<>>)
  BY DEF FinishOk
<1>3. PICK len \in Nat : len = inner.len
  BY DEF MemberInv
<1>4. ~Idle(0).open /\ ~Idle(1).open
  BY IdleIsClosed
<1>5. \A e : <<>> \o <<e>> = <<e>> /\ <<>> \o <<>> = <<>>
  OBVIOUS
<1>6. /\ Admits(Under(len), End(len)) /\ After(Under(len), End(len)) = Idle(1)
      /\ Admits(Idle(0), Start(0, Undeclared))
      /\ After(Idle(0), Start(0, Undeclared)) = Under(0)
      /\ Admits(Under(0), Data(len)) /\ After(Under(0), Data(len)) = Under(len)
  <2>1. 0 \in Nat /\ 0 + len = len
    OBVIOUS
  <2> QED BY <2>1, MemberMoves
<1> HIDE DEF Member
<1>7. CASE level.inner.kind # "single" /\ level.events = <<>> /\ inner.kind # "single"
  <2>1. events' = <<>>
    BY <1>2, <1>5, <1>7
  <2>2. Member = Idle(0) /\ Member' = Idle(0)
    BY <1>2, <1>7, MemberSeen, MemberSeenNext
  <2> QED BY <1>1, <1>4, <2>1, <2>2, NothingHeard
<1>8. CASE inner.kind = "single" /\ level = Routing("single", len, <<>>)
  <2>1. level.inner.kind = "single" /\ level.inner.len = len /\ level.events = <<>>
    BY <1>8, RoutingSays
  <2>2. events' = <<End(len)>>
    BY <1>2, <1>5, <2>1
  <2>3. Member = Under(len) /\ Member' = Idle(1)
    BY <1>1, <1>2, <1>3, <1>8, <2>1, MemberSeen, MemberSeenNext
  <2> QED BY <1>1, <1>4, <1>6, <2>2, <2>3, OneHeard
<1>9. CASE /\ inner.kind # "single" /\ level.inner.kind = "single" /\ level.inner.len = len
           /\ len = 0 /\ level.events = <<Start(0, Undeclared)>>
  <2>1. events' = <<Start(0, Undeclared), End(len)>>
    BY <1>2, <1>9, TwoInARow
  <2>2. Member = Idle(0) /\ Member' = Idle(1)
    BY <1>1, <1>2, <1>9, MemberSeen, MemberSeenNext
  <2>3. Under(0) = Under(len)
    BY <1>9
  <2> QED BY <1>1, <1>4, <1>6, <2>1, <2>2, <2>3, TwoHeard
<1>10. CASE /\ inner.kind # "single" /\ level.inner.kind = "single" /\ level.inner.len = len
            /\ level.events = <<Start(0, Undeclared), Data(len)>>
  <2>1. events' = <<Start(0, Undeclared), Data(len), End(len)>>
    BY <1>2, <1>10, OneMore
  <2>2. Member = Idle(0) /\ Member' = Idle(1)
    BY <1>1, <1>2, <1>10, MemberSeen, MemberSeenNext
  <2> QED BY <1>1, <1>4, <1>6, <2>1, <2>2, ThreeHeard
<1>11. CASE inner.kind = "detect"
  <2>1. level \in Decisions(len)
    BY <1>2, <1>3, <1>11
  <2> QED BY <1>7, <1>9, <1>10, <1>11, <2>1, DecisionSays
<1>12. CASE inner.kind # "detect"
  <2>1. level = Routing(inner.kind, len, <<>>)
    BY <1>2, <1>3, <1>12
  <2>2. level.inner.kind = inner.kind /\ level.events = <<>>
    BY <2>1, RoutingSays
  <2> QED BY <1>7, <1>8, <2>1, <2>2
<1> QED BY <1>11, <1>12

(* Every step is one the contract provides for.                             *)
LEMMA StepsHeard ==
  MemberInv /\ [Next]_vars => [Contract!Next]_<<events, Member, phase>>
<1> SUFFICES ASSUME MemberInv, [Next]_vars
             PROVE  Contract!Next \/ UNCHANGED <<events, Member, phase>>
  OBVIOUS
<1>1. CASE \/ HeaderByte \/ ExtraByte \/ NameByte \/ CommentByte \/ HeaderCrcByte
           \/ TrailerByte \/ NextMember
  BY <1>1, QuietStep
     DEF HeaderByte, ExtraByte, NameByte, CommentByte, HeaderCrcByte, TrailerByte, NextMember,
         Framed
<1>2. CASE Refuse
  BY <1>2, RefusalHeard
<1>3. CASE UNCHANGED vars
  BY <1>3 DEF vars, Member
<1> QED BY <1>1, <1>2, <1>3, BodyHeard, FinishHeard
        DEF Next, BadHeader, NameTooLong, BadBody, BadTrailer, FinishTruncated

(* The reader keeps the contract of its events: the member is announced     *)
(* before its first byte however late it is known for one, and ends with    *)
(* the count of all that was handed on.                                     *)
THEOREM GzipKeepsTheContract == Spec => KeepsContract
<1>1. Init => Contract!Init
  <2> SUFFICES ASSUME Init PROVE Contract!Init
    OBVIOUS
  <2>1. inner.kind = "detect" /\ events = <<>> /\ phase = "reading"
    BY DEF Init, Inner
  <2>2. Member = Idle(0)
    BY <2>1, MemberSeen
  <2> HIDE DEF Member
  <2> QED BY <2>1, <2>2, ContractEvents DEF Contract!Init
<1> QED BY <1>1, StepsHeard, MemberInvariant, PTL DEF Spec, KeepsContract, Contract!Spec

(***************************************************************************)
(* The canonicalizer: sums of lengths.                                     *)
(***************************************************************************)
\* f sums the lengths of the first pieces.
SumsTo(f, n, pieces) ==
  f = [k \in 0..n |-> IF k = 0 THEN 0 ELSE f[k - 1] + pieces[k].length]

(* There is one for every number of pieces.                                 *)
LEMMA SumsExist ==
  ASSUME NEW pieces PROVE \A n \in Nat : \E f : SumsTo(f, n, pieces)
<1> DEFINE Lacking == {n \in Nat : ~\E f : SumsTo(f, n, pieces)}
<1>1. SUFFICES ASSUME Lacking # {} PROVE FALSE
  OBVIOUS
<1>2. PICK n \in Lacking : \A k \in Lacking : n <= k
  BY <1>1, LeastNat
<1>3. n \in Nat /\ ~\E f : SumsTo(f, n, pieces)
  BY <1>2
<1>4. n # 0
  <2>1. ASSUME n = 0 PROVE \E f : SumsTo(f, n, pieces)
    <3>1. PICK f : f = [k \in 0..n |-> 0]
      OBVIOUS
    <3>2. f = [k \in 0..n |-> IF k = 0 THEN 0 ELSE f[k - 1] + pieces[k].length]
      BY <2>1, <3>1
    <3> QED BY <3>2 DEF SumsTo
  <2> QED BY <1>3, <2>1
<1>5. n - 1 \in Nat /\ n - 1 \notin Lacking
  BY <1>2, <1>3, <1>4
<1>6. PICK f : SumsTo(f, n - 1, pieces)
  BY <1>5
<1>7. \A k \in 0..(n - 1) : f[k] = IF k = 0 THEN 0 ELSE f[k - 1] + pieces[k].length
  BY <1>6 DEF SumsTo
<1>8. PICK g : g = [k \in 0..n |-> IF k = n THEN f[n - 1] + pieces[n].length ELSE f[k]]
  OBVIOUS
<1>9. \A k \in 0..n : g[k] = IF k = 0 THEN 0 ELSE g[k - 1] + pieces[k].length
  <2> HIDE DEF Lacking
  <2> SUFFICES ASSUME NEW k \in 0..n
               PROVE  g[k] = IF k = 0 THEN 0 ELSE g[k - 1] + pieces[k].length
    OBVIOUS
  <2>1. k # 0 => k - 1 \in 0..n /\ k - 1 # n /\ g[k - 1] = f[k - 1]
    BY <1>3, <1>8
  <2>2. CASE k = n
    BY <1>3, <1>4, <1>8, <2>1, <2>2
  <2>3. CASE k # n
    <3>1. k \in 0..(n - 1) /\ g[k] = f[k]
      BY <1>3, <1>8, <2>3
    <3> QED BY <1>7, <2>1, <3>1
  <2> QED BY <2>2, <2>3
<1>10. SumsTo(g, n, pieces)
  <2>1. g = [k \in 0..n |-> g[k]]
    BY <1>8
  <2> QED BY <1>9, <2>1 DEF SumsTo
<1> QED BY <1>3, <1>10

(* Lengths is the last of the sums.                                         *)
LEMMA LengthsIs ==
  ASSUME NEW pieces, Len(pieces) \in Nat
  PROVE  \E f : SumsTo(f, Len(pieces), pieces) /\ Lengths(pieces) = f[Len(pieces)]
<1> DEFINE sum[n \in 0..Len(pieces)] ==
             IF n = 0 THEN 0 ELSE sum[n - 1] + pieces[n].length
<1>1. \E f : SumsTo(f, Len(pieces), pieces)
  BY SumsExist
<1>2. \E f : f = [n \in 0..Len(pieces) |->
                    IF n = 0 THEN 0 ELSE f[n - 1] + pieces[n].length]
  BY <1>1 DEF SumsTo
<1>3. sum = [n \in 0..Len(pieces) |->
               IF n = 0 THEN 0 ELSE sum[n - 1] + pieces[n].length]
  BY <1>2
<1>4. Lengths(pieces) = sum[Len(pieces)]
  BY DEF Lengths
<1> HIDE DEF sum
<1> QED BY <1>3, <1>4 DEF SumsTo

\* The first n pieces are as long as those of q.
AsLong(p, q, n) == \A j \in 1..n : p[j].length = q[j].length

(* The sums of the first pieces are told by those pieces.                   *)
LEMMA SumsAgree ==
  ASSUME NEW p, NEW q, NEW k \in Nat, NEW n \in Nat, k <= n,
         AsLong(p, q, k),
         NEW f, SumsTo(f, k, p), NEW g, SumsTo(g, n, q)
  PROVE  f[k] = g[k]
<1>1. /\ \A j \in 0..k : f[j] = IF j = 0 THEN 0 ELSE f[j - 1] + p[j].length
      /\ \A j \in 0..n : g[j] = IF j = 0 THEN 0 ELSE g[j - 1] + q[j].length
  BY DEF SumsTo
<1> DEFINE Off == {j \in Nat : j <= k /\ f[j] # g[j]}
<1>2. SUFFICES ASSUME Off # {} PROVE FALSE
  OBVIOUS
<1>3. PICK j \in Off : \A i \in Off : j <= i
  BY <1>2, LeastNat
<1>4. j \in Nat /\ j <= k /\ f[j] # g[j] /\ j \in 0..k /\ j \in 0..n
  BY <1>3
<1>5. j # 0
  BY <1>1, <1>4
<1>6. j - 1 \in Nat /\ j - 1 <= k /\ ~(j <= j - 1) /\ j \in 1..k
  BY <1>4, <1>5
<1>7. f[j - 1] = g[j - 1]
  BY <1>3, <1>6
<1>8. f[j] = f[j - 1] + p[j].length /\ g[j] = g[j - 1] + q[j].length
  BY <1>1, <1>4, <1>5
<1>9. p[j].length = q[j].length
  BY <1>6 DEF AsLong
<1> QED BY <1>4, <1>6, <1>7, <1>8, <1>9

(* Sums are numbers.                                                        *)
LEMMA SumsTyped ==
  ASSUME NEW p, NEW n \in Nat, \A j \in 1..n : p[j].length \in Nat,
         NEW f, SumsTo(f, n, p), NEW k \in 0..n
  PROVE  f[k] \in Nat
<1>1. \A j \in 0..n : f[j] = IF j = 0 THEN 0 ELSE f[j - 1] + p[j].length
  BY DEF SumsTo
<1> DEFINE Off == {j \in Nat : j <= n /\ f[j] \notin Nat}
<1>2. SUFFICES ASSUME Off # {} PROVE FALSE
  OBVIOUS
<1>3. PICK j \in Off : \A i \in Off : j <= i
  BY <1>2, LeastNat
<1>4. j \in Nat /\ j <= n /\ f[j] \notin Nat /\ j \in 0..n
  BY <1>3
<1>5. j # 0
  BY <1>1, <1>4
<1>6. j - 1 \in Nat /\ j - 1 <= n /\ ~(j <= j - 1) /\ j \in 1..n
  BY <1>4, <1>5
<1>7. f[j - 1] \in Nat
  BY <1>3, <1>6
<1>8. f[j] = f[j - 1] + p[j].length
  BY <1>1, <1>4, <1>5
<1> QED BY <1>4, <1>6, <1>7, <1>8

\* A sequence of pieces that have lengths.
IsStream(s) == \E S : s \in Seq(S) /\ \A p \in S : p.length \in Nat

(* One more piece.                                                          *)
LEMMA Appended ==
  ASSUME NEW s, IsStream(s), NEW p, p.length \in Nat
  PROVE  /\ IsStream(Append(s, p)) /\ Len(s) \in Nat /\ DOMAIN s = 1..Len(s)
         /\ Len(Append(s, p)) = Len(s) + 1
         /\ DOMAIN Append(s, p) = 1..(Len(s) + 1)
         /\ \A i \in DOMAIN s : Append(s, p)[i] = s[i]
         /\ Append(s, p)[Len(s) + 1] = p
<1>1. PICK S : s \in Seq(S) /\ \A q \in S : q.length \in Nat
  BY DEF IsStream
<1>2. PICK R : R = S \cup {p}
  OBVIOUS
<1>3. s \in Seq(R) /\ p \in R /\ \A q \in R : q.length \in Nat
  BY <1>1, <1>2
<1>4. PICK n \in Nat : n = Len(s) /\ DOMAIN s = 1..n
  BY <1>3, LenProperties
<1>5. /\ Append(s, p) \in Seq(R) /\ Len(Append(s, p)) = n + 1
      /\ \A i \in 1..n : Append(s, p)[i] = s[i]
      /\ Append(s, p)[n + 1] = p
  BY <1>3, <1>4, AppendProperties
<1>6. DOMAIN Append(s, p) = 1..(n + 1)
  BY <1>5, LenProperties
<1>7. IsStream(Append(s, p))
  BY <1>3, <1>5 DEF IsStream
<1> QED BY <1>4, <1>5, <1>6, <1>7

(* Their lengths.                                                           *)
LEMMA LengthsOf ==
  ASSUME NEW s, IsStream(s)
  PROVE  /\ Lengths(s) \in Nat /\ Len(s) \in Nat /\ DOMAIN s = 1..Len(s)
         /\ \A i \in DOMAIN s : s[i].length \in Nat
         /\ \A p : p.length \in Nat => Lengths(Append(s, p)) = Lengths(s) + p.length
<1>1. PICK S : s \in Seq(S) /\ \A q \in S : q.length \in Nat
  BY DEF IsStream
<1>2. PICK n \in Nat : n = Len(s) /\ DOMAIN s = 1..n
  BY <1>1, LenProperties
<1>3. \A i \in 1..n : s[i].length \in Nat
  BY <1>1, <1>2, ElementOfSeq
<1>4. PICK f : SumsTo(f, n, s) /\ Lengths(s) = f[n]
  BY <1>2, LengthsIs
<1>5. Lengths(s) \in Nat
  <2>1. n \in 0..n /\ SumsTo(f, n, s)
    BY <1>4
  <2>2. f[n] \in Nat
    BY ONLY <1>3, <2>1, SumsTyped
  <2> QED BY <1>4, <2>2
<1>6. ASSUME NEW p, p.length \in Nat PROVE Lengths(Append(s, p)) = Lengths(s) + p.length
  <2>1. PICK t : t = Append(s, p)
    OBVIOUS
  <2>2. /\ Len(t) = n + 1 /\ \A i \in 1..n : t[i] = s[i]
        /\ t[n + 1] = p
    BY <1>2, <1>6, <2>1, Appended
  <2>3. PICK g : SumsTo(g, n + 1, t) /\ Lengths(t) = g[n + 1]
    BY <2>2, LengthsIs
  <2>4. f[n] = g[n]
    <3>1. PICK m \in Nat : m = n + 1 /\ n <= m
      BY <1>2
    <3>2. AsLong(s, t, n)
      BY <2>2 DEF AsLong
    <3>3. SumsTo(g, m, t)
      BY <2>3, <3>1
    <3>4. SumsTo(f, n, s)
      BY <1>4
    <3> QED BY ONLY <3>1, <3>2, <3>3, <3>4, SumsAgree
  <2>5. g[n + 1] = g[n] + t[n + 1].length
    <3>1. n + 1 \in 0..(n + 1) /\ n + 1 # 0 /\ (n + 1) - 1 = n
      BY <1>2
    <3> QED BY <2>3, <3>1 DEF SumsTo
  <2> QED BY <1>4, <2>1, <2>2, <2>3, <2>4, <2>5
<1> QED BY <1>2, <1>3, <1>5, <1>6

(* Nothing has no length.                                                   *)
LEMMA NoLength == IsStream(<<>>) /\ Lengths(<<>>) = 0
<1>1. <<>> \in Seq({}) /\ Len(<<>>) = 0
  OBVIOUS
<1>2. PICK f : SumsTo(f, 0, <<>>) /\ Lengths(<<>>) = f[0]
  BY <1>1, LengthsIs
<1>3. 0 \in 0..0
  OBVIOUS
<1> QED BY <1>1, <1>2, <1>3 DEF SumsTo, IsStream

(***************************************************************************)
(* Where the records are.                                                  *)
(***************************************************************************)
\* The kinds of the pieces that end content.
Closers == {"local", "descriptor", "tail", "boundary"}

\* The pieces that end what begins behind i.
Enders(s, i) == {j \in DOMAIN s : j > i /\ s[j].kind \in Closers}

StartIn(s, i) == Lengths(SubSeq(s, 1, i - 1))

ContentIn(s, i) ==
  LET upto == IF Enders(s, i) = {} THEN Len(s) ELSE Min(Enders(s, i)) - 1
  IN Lengths(SubSeq(s, i + 1, upto))

(* A part of a longer stream.                                               *)
LEMMA PartKept ==
  ASSUME NEW s, IsStream(s), NEW p, p.length \in Nat,
         NEW a \in 1..(Len(s) + 1), NEW b \in 0..Len(s)
  PROVE  /\ SubSeq(Append(s, p), a, b) = SubSeq(s, a, b)
         /\ IsStream(SubSeq(s, a, b))
<1>1. PICK S : s \in Seq(S) /\ \A q \in S : q.length \in Nat
  BY DEF IsStream
<1>2. PICK t : t = Append(s, p)
  OBVIOUS
<1>3. PICK n \in Nat : n = Len(s) /\ \A i \in 1..n : s[i] \in S
  BY <1>1, LenProperties, ElementOfSeq
<1>4. \A i \in 1..n : t[i] = s[i]
  BY <1>2, <1>3, Appended
<1>5. a \in Int /\ b \in Int /\ \A i \in a..b : i \in 1..n
  BY <1>3
<1>6. /\ SubSeq(s, a, b) \in Seq(S) /\ Len(SubSeq(s, a, b)) = IF a <= b THEN b - a + 1 ELSE 0
      /\ \A i \in 1..(b - a + 1) : SubSeq(s, a, b)[i] = s[a + i - 1]
  BY <1>3, <1>5, SubSeqProperties
<1>7. /\ SubSeq(t, a, b) \in Seq(S) /\ Len(SubSeq(t, a, b)) = IF a <= b THEN b - a + 1 ELSE 0
      /\ \A i \in 1..(b - a + 1) : SubSeq(t, a, b)[i] = t[a + i - 1]
  <2>1. \A i \in a..b : t[i] \in S
    BY <1>3, <1>4, <1>5
  <2> QED BY <1>5, <2>1, SubSeqProperties
<1>8. \A i \in 1..Len(SubSeq(s, a, b)) : SubSeq(s, a, b)[i] = SubSeq(t, a, b)[i]
  <2> SUFFICES ASSUME NEW i \in 1..Len(SubSeq(s, a, b))
               PROVE  SubSeq(s, a, b)[i] = SubSeq(t, a, b)[i]
    OBVIOUS
  <2>1. i \in 1..(b - a + 1) /\ a + i - 1 \in 1..n
    BY <1>3, <1>5, <1>6
  <2> QED BY <1>4, <1>6, <1>7, <2>1
<1>9. SubSeq(t, a, b) = SubSeq(s, a, b)
  BY <1>6, <1>7, <1>8, SeqEqual
<1>10. IsStream(SubSeq(s, a, b))
  BY <1>1, <1>6 DEF IsStream
<1> QED BY <1>2, <1>9, <1>10

(* A part that ends with the new piece.                                     *)
LEMMA PartGrows ==
  ASSUME NEW s, IsStream(s), NEW p, p.length \in Nat, NEW a \in 1..(Len(s) + 1)
  PROVE  SubSeq(Append(s, p), a, Len(s) + 1) = Append(SubSeq(s, a, Len(s)), p)
<1>1. PICK S : s \in Seq(S)
  BY DEF IsStream
<1>2. PICK R : R = S \cup {p}
  OBVIOUS
<1>3. s \in Seq(R) /\ p \in R
  BY <1>1, <1>2
<1>4. PICK t : t = Append(s, p)
  OBVIOUS
<1>5. PICK n \in Nat : n = Len(s) /\ \A i \in 1..n : s[i] \in R
  BY <1>3, LenProperties, ElementOfSeq
<1>6. (\A i \in 1..n : t[i] = s[i]) /\ t[n + 1] = p
  BY <1>3, <1>4, <1>5, AppendProperties
<1>7. /\ a \in Int /\ n \in Int /\ n + 1 \in Int
      /\ \A i \in a..n : i \in 1..n
      /\ \A i \in a..(n + 1) : i \in 1..n \/ i = n + 1
  BY <1>5
<1>8. PICK u : u = SubSeq(s, a, n)
  OBVIOUS
<1>9. PICK m \in Nat : m = n - a + 1
  BY <1>5
<1>10. u \in Seq(R) /\ Len(u) = m /\ \A i \in 1..m : u[i] = s[a + i - 1]
  <2>1. /\ u \in Seq(R) /\ Len(u) = IF a <= n THEN n - a + 1 ELSE 0
        /\ \A i \in 1..(n - a + 1) : u[i] = s[a + i - 1]
    BY <1>5, <1>7, <1>8, SubSeqProperties
  <2> QED BY <1>5, <1>9, <2>1
<1>11. PICK v : v = SubSeq(t, a, n + 1)
  OBVIOUS
<1>12. v \in Seq(R) /\ Len(v) = m + 1 /\ \A i \in 1..(m + 1) : v[i] = t[a + i - 1]
  <2>1. \A i \in a..(n + 1) : t[i] \in R
    BY <1>3, <1>5, <1>6, <1>7
  <2>2. /\ v \in Seq(R) /\ Len(v) = IF a <= n + 1 THEN (n + 1) - a + 1 ELSE 0
        /\ \A i \in 1..((n + 1) - a + 1) : v[i] = t[a + i - 1]
    BY <1>7, <1>11, <2>1, SubSeqProperties
  <2>3. a <= n + 1 /\ (n + 1) - a + 1 = m + 1
    BY <1>5, <1>9
  <2> QED BY <2>2, <2>3
<1>13. PICK w : w = Append(u, p)
  OBVIOUS
<1>14. /\ w \in Seq(R) /\ Len(w) = m + 1 /\ w[m + 1] = p
       /\ \A i \in 1..m : w[i] = u[i]
  BY <1>3, <1>10, <1>13, AppendProperties
<1>15. \A i \in 1..Len(v) : v[i] = w[i]
  <2> SUFFICES ASSUME NEW i \in 1..(m + 1) PROVE v[i] = w[i]
    BY <1>12
  <2>1. CASE i = m + 1
    <3>1. a + i - 1 = n + 1
      BY <1>5, <1>9, <2>1
    <3> QED BY <1>6, <1>12, <1>14, <2>1, <3>1
  <2>2. CASE i # m + 1
    <3>1. i \in 1..m /\ a + i - 1 \in 1..n
      BY <1>5, <1>9, <2>2
    <3> QED BY <1>6, <1>10, <1>12, <1>14, <3>1
  <2> QED BY <2>1, <2>2
<1>16. v = w
  BY <1>12, <1>14, <1>15, SeqEqual
<1> QED BY <1>4, <1>5, <1>8, <1>11, <1>13, <1>16

(* A record begins where what is before it ends.                            *)
LEMMA StartKept ==
  ASSUME NEW s, IsStream(s), NEW p, p.length \in Nat
  PROVE  /\ \A i \in 1..(Len(s) + 1) : StartIn(Append(s, p), i) = StartIn(s, i)
         /\ StartIn(s, Len(s) + 1) = Lengths(s)
<1>1. PICK n \in Nat : n = Len(s)
  BY LengthsOf
<1>2. ASSUME NEW i \in 1..(n + 1) PROVE StartIn(Append(s, p), i) = StartIn(s, i)
  <2>1. i - 1 \in 0..n /\ 1 \in 1..(n + 1)
    BY <1>1
  <2>2. SubSeq(Append(s, p), 1, i - 1) = SubSeq(s, 1, i - 1)
    BY <1>1, <2>1, PartKept
  <2> QED BY <2>2 DEF StartIn
<1>3. StartIn(s, n + 1) = Lengths(s)
  <2>1. PICK S : s \in Seq(S)
    BY DEF IsStream
  <2>2. SubSeq(s, 1, n) = s
    BY <1>1, <2>1, SubSeqFull
  <2>3. (n + 1) - 1 = n
    OBVIOUS
  <2> QED BY <2>2, <2>3 DEF StartIn
<1> QED BY <1>1, <1>2, <1>3

(* What ends the content of a record stays.                                 *)
LEMMA EndersKept ==
  ASSUME NEW s, IsStream(s), NEW p, p.length \in Nat, NEW i \in 1..Len(s)
  PROVE  Enders(Append(s, p), i)
           = Enders(s, i) \cup (IF p.kind \in Closers THEN {Len(s) + 1} ELSE {})
<1>1. PICK n \in Nat : n = Len(s)
  BY LengthsOf
<1>2. PICK t : t = Append(s, p)
  OBVIOUS
<1>3. /\ DOMAIN s = 1..n /\ DOMAIN t = 1..(n + 1) /\ \A j \in 1..n : t[j] = s[j]
      /\ t[n + 1] = p
  BY <1>1, <1>2, Appended
<1>4. \A j \in 1..(n + 1) : j \in 1..n \/ j = n + 1
  OBVIOUS
<1>5. n + 1 > i /\ n + 1 \in 1..(n + 1) /\ \A j \in 1..n : j \in 1..(n + 1) /\ j # n + 1
  BY <1>1
<1>6. ASSUME NEW j PROVE j \in Enders(t, i) <=>
                           j \in Enders(s, i) \/ (j = n + 1 /\ p.kind \in Closers)
  BY <1>3, <1>4, <1>5 DEF Enders
<1> QED BY <1>1, <1>2, <1>6

(* The content of a record grows by a piece of content while nothing ended  *)
(* it, and by nothing else.                                                 *)
LEMMA ContentKept ==
  ASSUME NEW s, IsStream(s), NEW p, p.length \in Nat, NEW i \in 1..Len(s)
  PROVE  ContentIn(Append(s, p), i) =
           ContentIn(s, i) + (IF Enders(s, i) = {} /\ p.kind \notin Closers
                              THEN p.length ELSE 0)
<1>1. PICK n \in Nat : n = Len(s) /\ i \in 1..n /\ DOMAIN s = 1..n
  BY LengthsOf
<1>2. PICK t : t = Append(s, p)
  OBVIOUS
<1>3. Len(t) = n + 1
  BY <1>1, <1>2, Appended
<1>4. PICK E : E = Enders(s, i)
  OBVIOUS
<1>5. E \in SUBSET (1..n) /\ \A j \in E : j > i
  BY <1>1, <1>4 DEF Enders
<1>6. Enders(t, i) = E \cup (IF p.kind \in Closers THEN {n + 1} ELSE {})
  BY <1>1, <1>2, <1>4, EndersKept
<1>7. i + 1 \in 1..(n + 1) /\ n \in 0..n
  BY <1>1
<1>8. \A b \in 0..n : /\ SubSeq(t, i + 1, b) = SubSeq(s, i + 1, b)
                      /\ IsStream(SubSeq(s, i + 1, b))
                      /\ Lengths(SubSeq(s, i + 1, b)) + 0 = Lengths(SubSeq(s, i + 1, b))
  <2> SUFFICES ASSUME NEW b \in 0..n
               PROVE  /\ SubSeq(t, i + 1, b) = SubSeq(s, i + 1, b)
                      /\ IsStream(SubSeq(s, i + 1, b))
                      /\ Lengths(SubSeq(s, i + 1, b)) + 0 = Lengths(SubSeq(s, i + 1, b))
    OBVIOUS
  <2>1. SubSeq(t, i + 1, b) = SubSeq(s, i + 1, b) /\ IsStream(SubSeq(s, i + 1, b))
    BY <1>1, <1>2, <1>7, PartKept
  <2>2. Lengths(SubSeq(s, i + 1, b)) \in Nat
    BY <2>1, LengthsOf
  <2> QED BY <2>1, <2>2
<1>9. CASE E # {}
  <2>1. PICK x \in E : \A y \in E : x <= y
    <3>1. E \in SUBSET Nat
      BY <1>5
    <3> QED BY <1>9, <3>1, LeastNat
  <2>2. Min(E) = x
    <3>1. \A y \in E : y \in Nat
      BY <1>5
    <3> QED BY <2>1, <3>1 DEF Min
  <2>3. Min(Enders(t, i)) = x /\ Enders(t, i) # {}
    <3>1. PICK F : F = Enders(t, i)
      OBVIOUS
    <3>2. \A y \in F : y \in E \/ y = n + 1
      BY <1>6, <3>1
    <3>3. x \in F
      BY <1>6, <2>1, <3>1
    <3>4. x \in Nat /\ x <= n /\ \A y \in E : y \in Nat
      BY <1>5, <2>1
    <3>5. ASSUME NEW y \in F PROVE x <= y /\ y \in Nat
      <4>1. CASE y \in E
        BY <2>1, <3>4, <4>1
      <4>2. CASE y = n + 1
        BY <3>4, <4>2
      <4> QED BY <3>2, <4>1, <4>2
    <3>6. ASSUME NEW z \in F, \A y \in F : z <= y PROVE z = x
      <4>1. z <= x /\ x <= z /\ z \in Nat
        BY <3>3, <3>5, <3>6
      <4> QED BY <3>4, <4>1
    <3>7. Min(F) = x
      BY <3>3, <3>5, <3>6 DEF Min
    <3> QED BY <3>1, <3>3, <3>7
  <2>4. x - 1 \in 0..n
    BY <1>5, <2>1
  <2>5. ContentIn(s, i) = Lengths(SubSeq(s, i + 1, x - 1))
    BY <1>4, <1>9, <2>2 DEF ContentIn
  <2>6. ContentIn(t, i) = Lengths(SubSeq(t, i + 1, x - 1))
    BY <2>3 DEF ContentIn
  <2> QED BY <1>2, <1>4, <1>8, <1>9, <2>4, <2>5, <2>6
<1>10. CASE E = {} /\ p.kind \in Closers
  <2>1. Enders(t, i) = {n + 1}
    BY <1>6, <1>10
  <2>2. Min(Enders(t, i)) - 1 = n
    <3>1. Min({n + 1}) = n + 1
      BY DEF Min
    <3>2. (n + 1) - 1 = n
      OBVIOUS
    <3> QED BY <2>1, <3>1, <3>2
  <2>3. ContentIn(t, i) = Lengths(SubSeq(t, i + 1, n))
    BY <2>1, <2>2 DEF ContentIn
  <2>4. ContentIn(s, i) = Lengths(SubSeq(s, i + 1, n))
    BY <1>1, <1>4, <1>10 DEF ContentIn
  <2> QED BY <1>2, <1>4, <1>7, <1>8, <1>10, <2>3, <2>4
<1>11. CASE E = {} /\ p.kind \notin Closers
  <2>1. Enders(t, i) = {}
    BY <1>6, <1>11
  <2>2. ContentIn(t, i) = Lengths(SubSeq(t, i + 1, n + 1))
    BY <1>3, <2>1 DEF ContentIn
  <2>3. ContentIn(s, i) = Lengths(SubSeq(s, i + 1, n))
    BY <1>1, <1>4, <1>11 DEF ContentIn
  <2>4. SubSeq(t, i + 1, n + 1) = Append(SubSeq(s, i + 1, n), p)
    BY <1>1, <1>2, <1>7, PartGrows
  <2>5. Lengths(Append(SubSeq(s, i + 1, n), p)) = Lengths(SubSeq(s, i + 1, n)) + p.length
    BY <1>7, <1>8, LengthsOf
  <2> QED BY <1>2, <1>4, <1>11, <2>2, <2>3, <2>4, <2>5
<1> QED BY <1>9, <1>10, <1>11

(* Content has a length.                                                    *)
LEMMA ContentTyped ==
  ASSUME NEW s, IsStream(s), NEW i \in 1..Len(s)
  PROVE  ContentIn(s, i) \in Nat /\ StartIn(s, i) \in Nat
<1>1. PICK n \in Nat : n = Len(s) /\ i \in 1..n /\ DOMAIN s = 1..n
  BY LengthsOf
<1>2. ASSUME NEW a \in 1..(n + 1), NEW b \in 0..n PROVE Lengths(SubSeq(s, a, b)) \in Nat
  <2>1. PICK p : p = [length |-> 0]
    OBVIOUS
  <2>2. p.length \in Nat
    BY <2>1
  <2>3. IsStream(SubSeq(s, a, b))
    BY <1>1, <2>2, PartKept
  <2> QED BY <2>3, LengthsOf
<1>3. StartIn(s, i) \in Nat
  <2>1. 1 \in 1..(n + 1) /\ i - 1 \in 0..n
    BY <1>1
  <2> QED BY <1>2, <2>1 DEF StartIn
<1>4. i + 1 \in 1..(n + 1) /\ n \in 0..n
  BY <1>1
<1>5. CASE Enders(s, i) = {}
  <2>1. ContentIn(s, i) = Lengths(SubSeq(s, i + 1, n))
    BY <1>1, <1>5 DEF ContentIn
  <2> QED BY <1>2, <1>3, <1>4, <2>1
<1>6. CASE Enders(s, i) # {}
  <2>1. PICK E : E = Enders(s, i)
    OBVIOUS
  <2>2. E \in SUBSET (1..n) /\ E \in SUBSET Nat /\ E # {}
    BY <1>1, <1>6, <2>1 DEF Enders
  <2>3. PICK x \in E : \A y \in E : x <= y
    BY <2>2, LeastNat
  <2>4. Min(E) = x
    <3>1. ASSUME NEW z \in E, \A y \in E : z <= y PROVE z = x
      <4>1. z <= x /\ x <= z /\ z \in Nat /\ x \in Nat
        BY <2>2, <2>3, <3>1
      <4> QED BY <4>1
    <3> QED BY <2>3, <3>1 DEF Min
  <2>5. x - 1 \in 0..n
    BY <2>2, <2>3
  <2>6. ContentIn(s, i) = Lengths(SubSeq(s, i + 1, x - 1))
    BY <1>6, <2>1, <2>4 DEF ContentIn
  <2> QED BY <1>2, <1>3, <1>4, <2>5, <2>6
<1> QED BY <1>5, <1>6

(* A record that was just written has no content, and nothing ended it.     *)
LEMMA NewRecord ==
  ASSUME NEW s, IsStream(s), NEW p, p.length \in Nat
  PROVE  /\ Enders(Append(s, p), Len(s) + 1) = {}
         /\ ContentIn(Append(s, p), Len(s) + 1) = 0
<1>1. PICK n \in Nat : n = Len(s)
  BY LengthsOf
<1>2. PICK t : t = Append(s, p)
  OBVIOUS
<1>3. DOMAIN t = 1..(n + 1) /\ Len(t) = n + 1
  BY <1>1, <1>2, Appended
<1>4. Enders(t, n + 1) = {}
  BY <1>3 DEF Enders
<1>5. SubSeq(t, (n + 1) + 1, n + 1) = <<>>
  BY SubSeqEmpty
<1>6. ContentIn(t, n + 1) = 0
  BY <1>3, <1>4, <1>5, NoLength DEF ContentIn
<1> QED BY <1>1, <1>2, <1>4, <1>6

(***************************************************************************)
(* What the core notes of the stream it writes.                            *)
(***************************************************************************)
\* What a longer stream t leaves as it was of the record at i.
Same(s, t, i) ==
  /\ i \in 1..Len(s) /\ i \in 1..Len(t) /\ t[i] = s[i]
  /\ StartIn(t, i) = StartIn(s, i) /\ ContentIn(t, i) = ContentIn(s, i)
  /\ Enders(s, i) # {} => Enders(t, i) # {}

\* The local headers of s are at at[1], ..., at[k].
Marked(s, k, at) ==
  /\ at \in [1..k -> 1..Len(s)]
  /\ \A n \in 1..k : s[at[n]].kind = "local"
  /\ \A i \in 1..Len(s) : s[i].kind = "local" => \E n \in 1..k : at[n] = i
  /\ \A m, n \in 1..k : m < n => at[m] < at[n]

\* All of their contents but the last have ended.
AllEnded(s, k, at) == \A n \in 1..k : n < k => Enders(s, at[n]) # {}

\* What the core notes of a member is true of its header at i.
EntryTrue(e, s, i) ==
  /\ e.name = s[i].name /\ e.at = StartIn(s, i)
  /\ e.len = ContentIn(s, i) /\ e.crc = ContentIn(s, i)
  /\ e.descriptor = ~s[i].known
  /\ s[i].known => s[i].size = Field(ContentIn(s, i), NeedsZip64(ContentIn(s, i)))

EntryRecords ==
  [name : DOMAIN NameLen, crc : Nat, len : Nat, at : Nat, descriptor : BOOLEAN]

EntriesTrue(entries, s, at) ==
  /\ entries \in Seq(EntryRecords)
  /\ \A n \in 1..Len(entries) : EntryTrue(entries[n], s, at[n])

\* So is what the observer was told, of closed members alone their length.
Hearings == [at : Nat, bytes : Nat, len : Nat \cup {None}]

HeardTrue(members, s, k, at, closed) ==
  /\ members \in Seq(Hearings) /\ Len(members) = k
  /\ \A n \in 1..k :
       /\ members[n].at = StartIn(s, at[n]) /\ members[n].bytes = ContentIn(s, at[n])
       /\ n <= closed => members[n].len = ContentIn(s, at[n])
       /\ ~(n <= closed) => members[n].len = None

\* And what the check saw.
CheckTrue(check, s, k, at) ==
  /\ check.seen = k /\ ~check.signed
  /\ check.mains = Mains \cap {s[at[n]].name : n \in 1..k}
  /\ \A n \in 1..k : s[at[n]].name \in DOMAIN NameLen \ Signatures
  /\ k > 0 => s[at[1]].name = ContentTypes

MemberDecoders == [method : {Stored, Deflate}, inflater : Inflaters, crc : Nat, pending : Nat]

\* All that came out of the inflater is summed.
Summing(d) ==
  /\ d \in MemberDecoders /\ d.inflater.pending = 0
  /\ d.method = Deflate => d.crc = d.inflater.produced

\* The member under way, whose header is at i.
OpenTrue(member, decoder, s, i) ==
  /\ member = [name |-> s[i].name, at |-> StartIn(s, i), known |-> s[i].known,
               crc |-> member.crc]
  /\ Enders(s, i) = {}
  /\ Summing(decoder)
  /\ decoder.crc = ContentIn(s, i) + decoder.pending

Sources ==
  [method : {Stored, Deflate, "other", "none"}, known : BOOLEAN, claim : Nat, crc : Nat \cup {None},
   bytes : Nat, len : Nat, over : BOOLEAN, sound : BOOLEAN]

\* What the source said of it, and what it holds so far if that is sound.
Linked(member, decoder, s, i, src) ==
  /\ src.method = decoder.method /\ src.known = member.known /\ src.crc = member.crc
  /\ src.known => s[i].size = Field(src.claim, NeedsZip64(src.claim))
  /\ src.sound => IF decoder.method = Stored THEN decoder.crc = src.len
                  ELSE Sane(decoder.inflater, src.len, src.over)

\* The directory, once it is written.
TailTrue(c, s, k) ==
  /\ Len(s) > 0 /\ s[Len(s)] = TailRecords(c.entries, StartIn(s, Len(s)))
  /\ Len(c.entries) = k
  /\ c.observed => c.heard.end = k

(* A piece that ends content, one that has no length, and any piece behind  *)
(* the end of the content change nothing of a record.                       *)
LEMMA SameKept ==
  ASSUME NEW s, IsStream(s), NEW p, p.length \in Nat, NEW i \in 1..Len(s),
         Enders(s, i) # {} \/ p.kind \in Closers \/ p.length = 0
  PROVE  Same(s, Append(s, p), i)
<1>1. PICK n \in Nat : n = Len(s) /\ i \in 1..n /\ i \in 1..(n + 1)
  BY LengthsOf
<1>2. PICK t : t = Append(s, p)
  OBVIOUS
<1>3. Len(t) = n + 1 /\ t[i] = s[i]
  BY <1>1, <1>2, Appended
<1>4. StartIn(t, i) = StartIn(s, i)
  BY <1>1, <1>2, StartKept
<1>5. ContentIn(t, i) = ContentIn(s, i)
  <2>1. ContentIn(t, i) = ContentIn(s, i) + (IF Enders(s, i) = {} /\ p.kind \notin Closers
                                             THEN p.length ELSE 0)
    BY <1>2, ContentKept
  <2>2. ContentIn(t, i) = ContentIn(s, i) + 0
    BY <2>1
  <2>3. ContentIn(s, i) \in Nat
    BY ContentTyped
  <2> QED BY <2>2, <2>3
<1>6. Enders(s, i) # {} => Enders(t, i) # {}
  BY <1>2, EndersKept
<1> QED BY <1>1, <1>2, <1>3, <1>4, <1>5, <1>6 DEF Same

(* A piece that ends content ends that of every record before it.           *)
LEMMA ClosersEnd ==
  ASSUME NEW s, IsStream(s), NEW p, p.length \in Nat, NEW i \in 1..Len(s), p.kind \in Closers
  PROVE  Enders(Append(s, p), i) # {}
<1>1. Enders(Append(s, p), i) = Enders(s, i) \cup {Len(s) + 1}
  BY EndersKept
<1> QED BY <1>1

(* Content goes to the record whose content has not ended.                  *)
LEMMA ContentGrows ==
  ASSUME NEW s, IsStream(s), NEW p, p.length \in Nat, NEW i \in 1..Len(s),
         Enders(s, i) = {}, p.kind \notin Closers, NEW t, t = Append(s, p)
  PROVE  /\ t[i] = s[i] /\ StartIn(t, i) = StartIn(s, i)
         /\ ContentIn(t, i) = ContentIn(s, i) + p.length /\ Enders(t, i) = {}
<1>1. PICK n \in Nat : n = Len(s) /\ i \in 1..n /\ i \in 1..(n + 1)
  BY LengthsOf
<1>2. t[i] = s[i]
  BY <1>1, Appended
<1>3. StartIn(t, i) = StartIn(s, i)
  BY <1>1, StartKept
<1>4. ContentIn(t, i) = ContentIn(s, i) + p.length
  <2>1. ContentIn(t, i) = ContentIn(s, i) + (IF Enders(s, i) = {} /\ p.kind \notin Closers
                                             THEN p.length ELSE 0)
    BY ContentKept
  <2> QED BY <2>1
<1>5. Enders(t, i) = {}
  BY EndersKept
<1> QED BY <1>2, <1>3, <1>4, <1>5

(* The records stay where they are when a piece of another kind follows.    *)
LEMMA MarkedKept ==
  ASSUME NEW s, IsStream(s), NEW p, p.length \in Nat, p.kind # "local", NEW k \in Nat, NEW at,
         Marked(s, k, at)
  PROVE  Marked(Append(s, p), k, at)
<1>1. PICK n \in Nat : n = Len(s)
  BY LengthsOf
<1>2. PICK t : t = Append(s, p)
  OBVIOUS
<1>3. Len(t) = n + 1 /\ (\A i \in 1..n : t[i] = s[i]) /\ t[n + 1] = p
  BY <1>1, <1>2, Appended
<1>4. /\ at \in [1..k -> 1..n]
      /\ \A m \in 1..k : s[at[m]].kind = "local"
      /\ \A i \in 1..n : s[i].kind = "local" => \E m \in 1..k : at[m] = i
      /\ \A l, m \in 1..k : l < m => at[l] < at[m]
  BY <1>1 DEF Marked
<1>5. at \in [1..k -> 1..(n + 1)]
  <2>1. \A i \in 1..n : i \in 1..(n + 1)
    OBVIOUS
  <2> QED BY <1>4, <2>1
<1>6. \A m \in 1..k : t[at[m]].kind = "local"
  BY <1>3, <1>4
<1>7. \A i \in 1..(n + 1) : t[i].kind = "local" => \E m \in 1..k : at[m] = i
  <2>1. \A i \in 1..(n + 1) : i \in 1..n \/ i = n + 1
    OBVIOUS
  <2> QED BY <1>3, <1>4, <2>1
<1> QED BY <1>2, <1>3, <1>4, <1>5, <1>6, <1>7 DEF Marked

\* at, and where the next record is.
MarkedNext(k, at, i) == [n \in 1..(k + 1) |-> IF n = k + 1 THEN i ELSE at[n]]

(* A new record is the last.                                                *)
LEMMA MarkedGrows ==
  ASSUME NEW s, IsStream(s), NEW p, p.length \in Nat, p.kind = "local", NEW k \in Nat, NEW at,
         Marked(s, k, at), NEW to, to = MarkedNext(k, at, Len(s) + 1)
  PROVE  /\ Marked(Append(s, p), k + 1, to)
         /\ to[k + 1] = Len(s) + 1
         /\ \A n \in 1..k : to[n] = at[n]
<1>1. PICK n \in Nat : n = Len(s)
  BY LengthsOf
<1>2. PICK t : t = Append(s, p)
  OBVIOUS
<1>3. Len(t) = n + 1 /\ (\A i \in 1..n : t[i] = s[i]) /\ t[n + 1] = p
  BY <1>1, <1>2, Appended
<1>4. /\ at \in [1..k -> 1..n]
      /\ \A m \in 1..k : s[at[m]].kind = "local"
      /\ \A i \in 1..n : s[i].kind = "local" => \E m \in 1..k : at[m] = i
      /\ \A l, m \in 1..k : l < m => at[l] < at[m]
  BY <1>1 DEF Marked
<1>5. \A m \in 1..(k + 1) : m \in 1..k \/ m = k + 1
  OBVIOUS
<1>6. k + 1 \in 1..(k + 1) /\ \A m \in 1..k : m \in 1..(k + 1) /\ m # k + 1
  OBVIOUS
<1>7. to = [m \in 1..(k + 1) |-> IF m = k + 1 THEN n + 1 ELSE at[m]]
  BY <1>1 DEF MarkedNext
<1>8. to[k + 1] = n + 1 /\ \A m \in 1..k : to[m] = at[m]
  BY <1>6, <1>7
<1>9. \A m \in 1..(k + 1) : to[m] \in 1..(n + 1)
  <2>1. n + 1 \in 1..(n + 1) /\ \A i \in 1..n : i \in 1..(n + 1)
    OBVIOUS
  <2> QED BY <1>4, <1>5, <1>8, <2>1
<1>10. to \in [1..(k + 1) -> 1..(n + 1)]
  BY <1>7, <1>9
<1>11. \A m \in 1..(k + 1) : t[to[m]].kind = "local"
  <2>1. ASSUME NEW m \in 1..k PROVE t[to[m]].kind = "local"
    <3>1. to[m] = at[m] /\ at[m] \in 1..n /\ s[at[m]].kind = "local"
      BY <1>4, <1>8
    <3>2. t[at[m]] = s[at[m]]
      BY <1>3, <3>1
    <3> QED BY <3>1, <3>2
  <2> QED BY <1>3, <1>5, <1>8, <2>1
<1>12. \A i \in 1..(n + 1) : t[i].kind = "local" => \E m \in 1..(k + 1) : to[m] = i
  <2>1. \A i \in 1..(n + 1) : i \in 1..n \/ i = n + 1
    OBVIOUS
  <2> QED BY <1>3, <1>4, <1>6, <1>8, <2>1
<1>13. ASSUME NEW l \in 1..(k + 1), NEW m \in 1..(k + 1), l < m PROVE to[l] < to[m]
  <2>1. l \in 1..k
    BY <1>13
  <2>2. CASE m = k + 1
    <3>1. at[l] \in 1..n /\ to[l] = at[l] /\ to[m] = n + 1
      BY <1>4, <1>8, <2>1, <2>2
    <3> QED BY <3>1
  <2>3. CASE m # k + 1
    BY <1>4, <1>5, <1>8, <1>13, <2>1, <2>3
  <2> QED BY <2>2, <2>3
<1> QED BY <1>1, <1>2, <1>3, <1>8, <1>10, <1>11, <1>12, <1>13 DEF Marked

(* What the core notes stays true of a longer stream.                       *)
LEMMA EntriesKept ==
  ASSUME NEW e, NEW s, NEW at, EntriesTrue(e, s, at), NEW t, NEW to,
         \A n \in 1..Len(e) : to[n] = at[n] /\ Same(s, t, at[n])
  PROVE  EntriesTrue(e, t, to)
<1>1. ASSUME NEW n \in 1..Len(e) PROVE EntryTrue(e[n], t, to[n])
  <2>1. EntryTrue(e[n], s, at[n]) /\ Same(s, t, at[n]) /\ to[n] = at[n]
    BY DEF EntriesTrue
  <2> QED BY <2>1 DEF EntryTrue, Same
<1> QED BY <1>1 DEF EntriesTrue

LEMMA HeardKept ==
  ASSUME NEW members, NEW s, NEW k \in Nat, NEW at, NEW closed,
         HeardTrue(members, s, k, at, closed),
         NEW t, \A n \in 1..k : Same(s, t, at[n])
  PROVE  HeardTrue(members, t, k, at, closed)
<1>1. ASSUME NEW n \in 1..k
      PROVE  /\ members[n].at = StartIn(t, at[n]) /\ members[n].bytes = ContentIn(t, at[n])
             /\ n <= closed => members[n].len = ContentIn(t, at[n])
             /\ ~(n <= closed) => members[n].len = None
  BY DEF HeardTrue, Same
<1> QED BY <1>1 DEF HeardTrue

LEMMA CheckKept ==
  ASSUME NEW check, NEW s, NEW k \in Nat, NEW at, CheckTrue(check, s, k, at),
         NEW t, \A n \in 1..k : t[at[n]] = s[at[n]]
  PROVE  CheckTrue(check, t, k, at)
<1>1. {t[at[n]].name : n \in 1..k} = {s[at[n]].name : n \in 1..k}
  OBVIOUS
<1>2. k > 0 => 1 \in 1..k
  OBVIOUS
<1>3. \A n \in 1..k : t[at[n]].name = s[at[n]].name
  OBVIOUS
<1> QED BY <1>1, <1>2, <1>3 DEF CheckTrue

LEMMA AllEndedKept ==
  ASSUME NEW s, NEW k \in Nat, NEW at, AllEnded(s, k, at),
         NEW t, \A n \in 1..k : Enders(s, at[n]) # {} => Enders(t, at[n]) # {}
  PROVE  AllEnded(t, k, at)
BY DEF AllEnded

(* A new entry.                                                             *)
LEMMA EntriesGrow ==
  ASSUME NEW e, NEW s, NEW at, EntriesTrue(e, s, at), NEW x \in EntryRecords,
         EntryTrue(x, s, at[Len(e) + 1])
  PROVE  EntriesTrue(Append(e, x), s, at) /\ Len(Append(e, x)) = Len(e) + 1
<1>1. e \in Seq(EntryRecords)
  BY DEF EntriesTrue
<1>2. PICK m \in Nat : m = Len(e)
  BY <1>1, LenProperties
<1>3. PICK f \in Seq(EntryRecords) : /\ f = Append(e, x) /\ Len(f) = m + 1
                                     /\ \A n \in 1..m : f[n] = e[n]
                                     /\ f[m + 1] = x
  BY <1>1, <1>2, AppendProperties
<1>4. ASSUME NEW n \in 1..(m + 1) PROVE EntryTrue(f[n], s, at[n])
  <2>1. CASE n = m + 1
    BY <1>2, <1>3, <2>1
  <2>2. CASE n # m + 1
    <3>1. n \in 1..m
      BY <2>2
    <3> QED BY <1>2, <1>3, <3>1 DEF EntriesTrue
  <2> QED BY <2>1, <2>2
<1> QED BY <1>2, <1>3, <1>4 DEF EntriesTrue

(* What the observer is told of the content of the last member.             *)
LEMMA HeardMore ==
  ASSUME NEW members, NEW s, NEW k \in Nat, k > 0, NEW at, HeardTrue(members, s, k, at, k - 1),
         NEW t, \A n \in 1..k : n < k => Same(s, t, at[n]),
         StartIn(t, at[k]) = StartIn(s, at[k]),
         NEW x \in Nat, ContentIn(t, at[k]) = ContentIn(s, at[k]) + x,
         NEW new, new = [members EXCEPT ![k].bytes = @ + x]
  PROVE  HeardTrue(new, t, k, at, k - 1)
<1>1. members \in Seq(Hearings) /\ Len(members) = k
  BY DEF HeardTrue
<1>2. members \in [1..k -> Hearings]
  BY <1>1, LenProperties
<1>3. k \in 1..k
  OBVIOUS
<1>4. PICK m \in Hearings : m = members[k]
  BY <1>2, <1>3
<1>5. PICK r : r = [m EXCEPT !.bytes = @ + x]
  OBVIOUS
<1>6. r.bytes = m.bytes + x /\ r.at = m.at /\ r \in Hearings
  BY <1>5 DEF Hearings
<1>7. new = [members EXCEPT ![k] = r]
  BY <1>2, <1>3, <1>4, <1>5
<1>8. new[k] = r /\ (\A n \in 1..k : n # k => new[n] = members[n]) /\ new \in [1..k -> Hearings]
  BY <1>2, <1>3, <1>6, <1>7
<1>9. new \in Seq(Hearings) /\ Len(new) = k
  BY <1>1, <1>3, <1>6, <1>7, ExceptSeq
<1>10. ASSUME NEW n \in 1..k
       PROVE  /\ new[n].at = StartIn(t, at[n]) /\ new[n].bytes = ContentIn(t, at[n])
              /\ n <= k - 1 => new[n].len = ContentIn(t, at[n])
              /\ ~(n <= k - 1) => new[n].len = None
  <2>1. members[n].at = StartIn(s, at[n]) /\ members[n].bytes = ContentIn(s, at[n])
    BY DEF HeardTrue
  <2>2. CASE n = k
    <3>1. ~(n <= k - 1)
      BY <2>2
    <3>2. members[n].len = None /\ r.len = m.len
      BY <1>5, <3>1 DEF HeardTrue, Hearings
    <3> QED BY <1>4, <1>6, <1>8, <2>1, <2>2, <3>1, <3>2
  <2>3. CASE n # k
    <3>1. n < k /\ n <= k - 1
      BY <2>3
    <3>2. Same(s, t, at[n]) /\ new[n] = members[n]
      BY <1>8, <2>3, <3>1
    <3>3. members[n].len = ContentIn(s, at[n])
      BY <3>1 DEF HeardTrue
    <3> QED BY <2>1, <3>1, <3>2, <3>3 DEF Same
  <2> QED BY <2>2, <2>3
<1> QED BY <1>9, <1>10 DEF HeardTrue

(* The length of the last member, which is what it was told of its content. *)
LEMMA HeardLen ==
  ASSUME NEW members, NEW s, NEW k \in Nat, k > 0, NEW at, HeardTrue(members, s, k, at, k - 1),
         NEW x \in Nat, x = ContentIn(s, at[k]),
         NEW new, new = [members EXCEPT ![k].len = x]
  PROVE  HeardTrue(new, s, k, at, k)
<1>1. members \in Seq(Hearings) /\ Len(members) = k
  BY DEF HeardTrue
<1>2. members \in [1..k -> Hearings]
  BY <1>1, LenProperties
<1>3. k \in 1..k
  OBVIOUS
<1>4. PICK m \in Hearings : m = members[k]
  BY <1>2, <1>3
<1>5. PICK r : r = [m EXCEPT !.len = x]
  OBVIOUS
<1>6. r.bytes = m.bytes /\ r.at = m.at /\ r.len = x /\ r \in Hearings
  BY <1>5 DEF Hearings
<1>7. new = [members EXCEPT ![k] = r]
  BY <1>2, <1>3, <1>4, <1>5
<1>8. new[k] = r /\ (\A n \in 1..k : n # k => new[n] = members[n]) /\ new \in [1..k -> Hearings]
  BY <1>2, <1>3, <1>6, <1>7
<1>9. new \in Seq(Hearings) /\ Len(new) = k
  BY <1>1, <1>3, <1>6, <1>7, ExceptSeq
<1>10. ASSUME NEW n \in 1..k
       PROVE  /\ new[n].at = StartIn(s, at[n]) /\ new[n].bytes = ContentIn(s, at[n])
              /\ n <= k => new[n].len = ContentIn(s, at[n])
              /\ ~(n <= k) => new[n].len = None
  <2>1. members[n].at = StartIn(s, at[n]) /\ members[n].bytes = ContentIn(s, at[n])
    BY DEF HeardTrue
  <2>2. CASE n = k
    BY <1>4, <1>6, <1>8, <2>1, <2>2
  <2>3. CASE n # k
    <3>1. n <= k - 1
      BY <2>3
    <3>2. members[n].len = ContentIn(s, at[n])
      BY <3>1 DEF HeardTrue
    <3> QED BY <1>8, <2>1, <2>3, <3>2
  <2> QED BY <2>2, <2>3
<1> QED BY <1>9, <1>10 DEF HeardTrue

(* A new member.                                                            *)
LEMMA HeardNew ==
  ASSUME NEW members, NEW s, NEW k \in Nat, NEW at, HeardTrue(members, s, k, at, k),
         NEW t, NEW to, \A n \in 1..k : to[n] = at[n] /\ Same(s, t, at[n]),
         NEW m, m = [at |-> StartIn(t, to[k + 1]), bytes |-> 0, len |-> None],
         StartIn(t, to[k + 1]) \in Nat, ContentIn(t, to[k + 1]) = 0
  PROVE  HeardTrue(Append(members, m), t, k + 1, to, k)
<1>1. members \in Seq(Hearings) /\ Len(members) = k
  BY DEF HeardTrue
<1>2. m \in Hearings
  BY DEF Hearings
<1>3. PICK new \in Seq(Hearings) : /\ new = Append(members, m) /\ Len(new) = k + 1
                                   /\ \A n \in 1..k : new[n] = members[n]
                                   /\ new[k + 1] = m
  <2>1. /\ Append(members, m) \in Seq(Hearings)
        /\ Len(Append(members, m)) = Len(members) + 1
        /\ \A n \in 1..Len(members) : Append(members, m)[n] = members[n]
        /\ Append(members, m)[Len(members) + 1] = m
    BY ONLY <1>1, <1>2, AppendProperties
  <2> QED BY ONLY <1>1, <2>1
<1>4. ASSUME NEW n \in 1..(k + 1)
      PROVE  /\ new[n].at = StartIn(t, to[n]) /\ new[n].bytes = ContentIn(t, to[n])
             /\ n <= k => new[n].len = ContentIn(t, to[n])
             /\ ~(n <= k) => new[n].len = None
  <2>1. CASE n = k + 1
    <3>1. ~(n <= k)
      BY <2>1
    <3> QED BY <1>3, <2>1, <3>1
  <2>2. CASE n # k + 1
    <3>1. n \in 1..k /\ n <= k
      BY <2>2
    <3>2. new[n] = members[n] /\ to[n] = at[n] /\ Same(s, t, at[n])
      BY <1>3, <3>1
    <3>3. /\ members[n].at = StartIn(s, at[n]) /\ members[n].bytes = ContentIn(s, at[n])
          /\ members[n].len = ContentIn(s, at[n])
      BY <3>1 DEF HeardTrue
    <3> QED BY <3>1, <3>2, <3>3 DEF Same
  <2> QED BY <2>1, <2>2
<1> QED BY <1>3, <1>4 DEF HeardTrue

IsCheck(check) ==
  check = [expected |-> check.expected, seen |-> check.seen,
           mains |-> check.mains, signed |-> check.signed]

\* The records of s are records of t.
Retains(s, t, k, at, to) == \A n \in 1..k : to[n] = at[n] /\ t[at[n]] = s[at[n]]

(* Its name goes into the check.                                            *)
LEMMA CheckGrows ==
  ASSUME NEW check, IsCheck(check),
         NEW s, NEW k \in Nat, NEW at, CheckTrue(check, s, k, at),
         NEW t, NEW to, Retains(s, t, k, at, to),
         NEW name \in DOMAIN NameLen, ~Misplaced(check, name), ~Checked(check, name).signed,
         t[to[k + 1]].name = name, NEW new, new = Checked(check, name)
  PROVE  /\ CheckTrue(new, t, k + 1, to) /\ new.expected = check.expected /\ IsCheck(new)
<1>1. /\ check.seen = k /\ ~check.signed
      /\ check.mains = Mains \cap {s[at[n]].name : n \in 1..k}
      /\ \A n \in 1..k : s[at[n]].name \in DOMAIN NameLen \ Signatures
      /\ k > 0 => s[at[1]].name = ContentTypes
  BY DEF CheckTrue
<1>2. /\ new.expected = check.expected /\ new.seen = k + 1
      /\ new.mains = check.mains \cup ({name} \cap Mains)
      /\ new.signed = (check.signed \/ name \in Signatures)
      /\ IsCheck(new)
  BY <1>1 DEF Checked, IsCheck
<1>3. ~new.signed /\ name \notin Signatures
  BY <1>1, <1>2
<1>4. \A n \in 1..(k + 1) : n \in 1..k \/ n = k + 1
  OBVIOUS
<1>5. k + 1 \in 1..(k + 1) /\ \A n \in 1..k : n \in 1..(k + 1)
  OBVIOUS
<1>6. \A n \in 1..k : t[to[n]].name = s[at[n]].name
  BY DEF Retains
<1>7. {t[to[n]].name : n \in 1..(k + 1)} = {s[at[n]].name : n \in 1..k} \cup {name}
  BY <1>4, <1>5, <1>6
<1>8. new.mains = Mains \cap {t[to[n]].name : n \in 1..(k + 1)}
  BY <1>1, <1>2, <1>7
<1>9. \A n \in 1..(k + 1) : t[to[n]].name \in DOMAIN NameLen \ Signatures
  BY <1>1, <1>3, <1>4, <1>6
<1>10. t[to[1]].name = ContentTypes
  <2>1. CASE k = 0
    <3>1. name = ContentTypes
      BY <1>1, <2>1 DEF Misplaced
    <3> QED BY <2>1, <3>1
  <2>2. CASE k # 0
    <3>1. k > 0 /\ 1 \in 1..k
      BY <2>2
    <3> QED BY <1>1, <1>6, <3>1
  <2> QED BY <2>1, <2>2
<1>11. CheckTrue(new, t, k + 1, to)
  BY <1>2, <1>3, <1>8, <1>9, <1>10 DEF CheckTrue
<1> QED BY <1>2, <1>11

(***************************************************************************)
(* The notes, and a piece of the stream more.                              *)
(***************************************************************************)
\* The fields of the core.
IsCore(c) ==
  /\ c = [check |-> c.check, decoder |-> c.decoder, member |-> c.member, entries |-> c.entries,
          names |-> c.names, offset |-> c.offset, tail |-> c.tail, fault |-> c.fault,
          steps |-> c.steps, observed |-> c.observed, heard |-> c.heard]
  /\ IsCheck(c.check)
  /\ c.heard = [members |-> c.heard.members, end |-> c.heard.end]
  /\ c.tail \in BOOLEAN /\ c.observed \in BOOLEAN

\* The stream s is what was drained and what is about to be.
Out(base, c, s) ==
  \E S : /\ base \in Seq(S) /\ c.steps \in Seq(S) /\ s = base \o c.steps
         /\ \A q \in S : q.length \in Nat

\* The core's notes are true of the stream.
Booked(base, c, s, k, at) ==
  /\ IsCore(c) /\ Out(base, c, s) /\ c.offset = Lengths(s)
  /\ Marked(s, k, at) /\ AllEnded(s, k, at) /\ EntriesTrue(c.entries, s, at)
  /\ c.observed => HeardTrue(c.heard.members, s, k, at, Len(c.entries))
  /\ CheckTrue(c.check, s, k, at)
  /\ Len(c.entries) <= k

\* d has c's notes.
SameNotes(c, d) ==
  /\ d.entries = c.entries /\ d.check = c.check /\ d.observed = c.observed
  /\ d.heard.members = c.heard.members

(* One more piece is about to be drained.                                   *)
LEMMA OutGrows ==
  ASSUME NEW base, NEW c, NEW s, Out(base, c, s), NEW p, p.length \in Nat,
         NEW d, d.steps = Append(c.steps, p)
  PROVE  Out(base, d, Append(s, p)) /\ IsStream(s)
<1>1. PICK S : /\ base \in Seq(S) /\ c.steps \in Seq(S) /\ s = base \o c.steps
               /\ \A q \in S : q.length \in Nat
  BY DEF Out
<1>2. PICK R : R = S \cup {p}
  OBVIOUS
<1>3. PICK x \in Seq(R) : x = c.steps
  BY <1>1, <1>2
<1>4. base \in Seq(R) /\ p \in R /\ \A q \in R : q.length \in Nat
  BY <1>1, <1>2
<1>5. PICK m \in Nat : m = Len(base)
  BY <1>4, LenProperties
<1>6. PICK n \in Nat : n = Len(x)
  BY LenProperties
<1>7. PICK y \in Seq(R) : /\ y = Append(x, p) /\ Len(y) = n + 1
                          /\ \A i \in 1..n : y[i] = x[i]
                          /\ y[n + 1] = p
  BY <1>4, <1>6, AppendProperties
<1>8. PICK u \in Seq(R) : /\ u = base \o x /\ Len(u) = m + n
                          /\ \A i \in 1..(m + n) : u[i] = IF i <= m THEN base[i] ELSE x[i - m]
  <2>1. /\ base \o x \in Seq(R) /\ Len(base \o x) = Len(base) + Len(x)
        /\ \A i \in 1..(Len(base) + Len(x)) :
             (base \o x)[i] = IF i <= Len(base) THEN base[i] ELSE x[i - Len(base)]
    BY ONLY <1>4, x \in Seq(R), ConcatProperties
  <2> QED BY ONLY <1>5, <1>6, <2>1
<1>9. PICK v \in Seq(R) : /\ v = base \o y /\ Len(v) = m + (n + 1)
                          /\ \A i \in 1..(m + (n + 1)) : v[i] = IF i <= m THEN base[i] ELSE y[i - m]
  <2>1. /\ base \o y \in Seq(R) /\ Len(base \o y) = Len(base) + Len(y)
        /\ \A i \in 1..(Len(base) + Len(y)) :
             (base \o y)[i] = IF i <= Len(base) THEN base[i] ELSE y[i - Len(base)]
    BY ONLY <1>4, y \in Seq(R), ConcatProperties
  <2> QED BY ONLY <1>5, <1>7, <2>1
<1>10. PICK w \in Seq(R) : /\ w = Append(u, p) /\ Len(w) = (m + n) + 1
                           /\ \A i \in 1..(m + n) : w[i] = u[i]
                           /\ w[(m + n) + 1] = p
  <2>1. /\ Append(u, p) \in Seq(R) /\ Len(Append(u, p)) = Len(u) + 1
        /\ \A i \in 1..Len(u) : Append(u, p)[i] = u[i]
        /\ Append(u, p)[Len(u) + 1] = p
    BY ONLY <1>4, u \in Seq(R), AppendProperties
  <2> QED BY ONLY <1>8, <2>1
<1>11. \A i \in 1..Len(v) : v[i] = w[i]
  <2> SUFFICES ASSUME NEW i \in 1..(m + (n + 1)) PROVE v[i] = w[i]
    BY <1>9
  <2>1. CASE i = (m + n) + 1
    <3>1. ~(i <= m) /\ i - m = n + 1
      BY <2>1
    <3> QED BY <1>7, <1>9, <1>10, <2>1, <3>1
  <2>2. CASE i # (m + n) + 1
    <3>1. i \in 1..(m + n)
      BY <2>2
    <3>2. w[i] = u[i] /\ u[i] = IF i <= m THEN base[i] ELSE x[i - m]
      BY <1>8, <1>10, <3>1
    <3>3. CASE i <= m
      BY <1>9, <3>2, <3>3
    <3>4. CASE ~(i <= m)
      <4>1. i - m \in 1..n
        BY <3>1, <3>4
      <4>2. v[i] = y[i - m] /\ y[i - m] = x[i - m]
        BY <1>7, <1>9, <3>4, <4>1
      <4> QED BY <3>2, <3>4, <4>2
    <3> QED BY <3>3, <3>4
  <2> QED BY <2>1, <2>2
<1>12. v = w
  <2>1. Len(v) = Len(w)
    BY <1>9, <1>10
  <2> QED BY <1>11, <2>1, SeqEqual
<1>13. d.steps \in Seq(R) /\ Append(s, p) = base \o d.steps
  BY <1>1, <1>3, <1>7, <1>8, <1>9, <1>10, <1>12
<1>14. Out(base, d, Append(s, p))
  BY <1>4, <1>13 DEF Out
<1>15. IsStream(s)
  BY <1>1, <1>3, <1>4, <1>8 DEF IsStream
<1> QED BY <1>14, <1>15

(* A stream.                                                                *)
LEMMA OutIsStream ==
  ASSUME NEW base, NEW c, NEW s, Out(base, c, s) PROVE IsStream(s)
<1>1. PICK p : p = [length |-> 0]
  OBVIOUS
<1>2. PICK d : d = [steps |-> Append(c.steps, p)]
  OBVIOUS
<1>3. p.length \in Nat /\ d.steps = Append(c.steps, p)
  BY <1>1, <1>2
<1> QED BY <1>3, OutGrows

\* d differs from c in what is no note of the stream.
Alike(c, d) ==
  IsCore(d) /\ SameNotes(c, d) /\ d.steps = c.steps /\ d.offset = c.offset

LEMMA BookedAlike ==
  ASSUME NEW base, NEW c, NEW s, NEW k \in Nat, NEW at, Booked(base, c, s, k, at),
         NEW d, Alike(c, d)
  PROVE  Booked(base, d, s, k, at)
<1>1. IsCore(d) /\ SameNotes(c, d) /\ d.steps = c.steps /\ d.offset = c.offset
  BY DEF Alike
<1>2. Out(base, d, s)
  BY <1>1 DEF Booked, Out
<1>3. /\ d.entries = c.entries /\ d.check = c.check /\ d.observed = c.observed
      /\ d.heard.members = c.heard.members
  BY <1>1 DEF SameNotes
<1> QED BY <1>1, <1>2, <1>3 DEF Booked

\* They are true of some stream, whose last member may not have ended.
Noted(base, c) ==
  \E s : \E k \in Nat : \E at : Booked(base, c, s, k, at) /\ k <= Len(c.entries) + 1

\* So they are at a fault, which comes before any directory.
Refused(base, c) == Noted(base, c) /\ ~c.tail

LEMMA RefusedAlike ==
  ASSUME NEW base, NEW c, NEW s, NEW k \in Nat, NEW at, Booked(base, c, s, k, at),
         k <= Len(c.entries) + 1, ~c.tail, NEW d, Alike(c, d), d.tail = c.tail
  PROVE  Refused(base, d)
<1>1. Booked(base, d, s, k, at)
  BY BookedAlike
<1>2. d.entries = c.entries
  BY DEF Alike, SameNotes
<1> QED BY <1>1, <1>2 DEF Refused, Noted

LEMMA FailRefuses ==
  ASSUME NEW base, NEW c, NEW s, NEW k \in Nat, NEW at, Booked(base, c, s, k, at),
         k <= Len(c.entries) + 1, ~c.tail, NEW fault, NEW d, d = Fail(c, fault)
  PROVE  Refused(base, d)
<1>1. PICK f : d = [c EXCEPT !.fault = f]
  BY DEF Fail
<1>2. IsCore(c)
  BY DEF Booked
<1>3. Alike(c, d) /\ d.tail = c.tail
  BY <1>1, <1>2 DEF IsCore, Alike, SameNotes
<1> QED BY <1>3, RefusedAlike

(* The fault is taken.                                                      *)
LEMMA RefusedTaken ==
  ASSUME NEW base, NEW c, Refused(base, c), NEW d, d = [c EXCEPT !.fault = "none"]
  PROVE  Refused(base, d)
<1>1. PICK s : \E k \in Nat : \E at : Booked(base, c, s, k, at) /\ k <= Len(c.entries) + 1
  BY DEF Refused, Noted
<1>2. PICK k \in Nat : \E at : Booked(base, c, s, k, at) /\ k <= Len(c.entries) + 1
  BY <1>1
<1>3. PICK at : Booked(base, c, s, k, at) /\ k <= Len(c.entries) + 1
  BY <1>2
<1>4. IsCore(c) /\ ~c.tail
  BY <1>3 DEF Booked, Refused
<1>5. Alike(c, d) /\ d.tail = c.tail
  BY <1>4 DEF IsCore, Alike, SameNotes
<1> QED BY <1>3, <1>4, <1>5, RefusedAlike

(* A piece that is no record is written.                                    *)
LEMMA BookedKept ==
  ASSUME NEW base, NEW c, NEW s, NEW k \in Nat, NEW at, Booked(base, c, s, k, at),
         NEW p, p.length \in Nat, p.kind # "local",
         \A n \in 1..k : Enders(s, at[n]) # {} \/ p.kind \in Closers \/ p.length = 0,
         NEW d, IsCore(d), SameNotes(c, d), d.steps = Append(c.steps, p),
         d.offset = c.offset + p.length, NEW t, t = Append(s, p)
  PROVE  /\ Booked(base, d, t, k, at)
         /\ \A n \in 1..k : Same(s, t, at[n])
         /\ p.kind \in Closers => \A n \in 1..k : Enders(t, at[n]) # {}
<1>1. Out(base, c, s) /\ IsStream(s)
  BY OutIsStream DEF Booked
<1>2. Out(base, d, t)
  BY <1>1, OutGrows
<1>3. d.offset = Lengths(t)
  <2>1. c.offset = Lengths(s)
    BY DEF Booked
  <2>2. Lengths(t) = Lengths(s) + p.length
    BY <1>1, LengthsOf
  <2> QED BY <2>1, <2>2
<1>4. Marked(s, k, at) /\ at \in [1..k -> 1..Len(s)]
  BY DEF Booked, Marked
<1>5. Marked(t, k, at)
  BY <1>1, <1>4, MarkedKept
<1>6. \A n \in 1..k : Same(s, t, at[n])
  <2> SUFFICES ASSUME NEW n \in 1..k PROVE Same(s, t, at[n])
    OBVIOUS
  <2>1. PICK i \in 1..Len(s) : i = at[n]
    BY <1>4
  <2>2. Enders(s, i) # {} \/ p.kind \in Closers \/ p.length = 0
    BY <2>1
  <2>3. Same(s, t, i)
    BY <1>1, <2>2, SameKept
  <2> QED BY <2>1, <2>3
<1>7. p.kind \in Closers => \A n \in 1..k : Enders(t, at[n]) # {}
  <2> SUFFICES ASSUME p.kind \in Closers, NEW n \in 1..k PROVE Enders(t, at[n]) # {}
    OBVIOUS
  <2>1. PICK i \in 1..Len(s) : i = at[n]
    BY <1>4
  <2> QED BY <1>1, <2>1, ClosersEnd
<1>8. AllEnded(t, k, at)
  <2>1. AllEnded(s, k, at)
    BY DEF Booked
  <2> QED BY <1>6, <2>1, AllEndedKept DEF Same
<1>9. EntriesTrue(d.entries, t, at)
  <2>1. EntriesTrue(c.entries, s, at) /\ Len(c.entries) \in Nat
    BY LenProperties DEF Booked, EntriesTrue
  <2>2. Len(c.entries) <= k
    BY DEF Booked
  <2>3. \A n \in 1..Len(c.entries) : at[n] = at[n] /\ Same(s, t, at[n])
    <3>1. \A n \in 1..Len(c.entries) : n \in 1..k
      BY <2>1, <2>2
    <3> QED BY <1>6, <3>1
  <2> QED BY <2>1, <2>3, EntriesKept DEF SameNotes
<1>10. d.observed => HeardTrue(d.heard.members, t, k, at, Len(d.entries))
  <2>1. SUFFICES ASSUME d.observed PROVE HeardTrue(d.heard.members, t, k, at, Len(d.entries))
    OBVIOUS
  <2>2. HeardTrue(c.heard.members, s, k, at, Len(c.entries))
    BY <2>1 DEF Booked, SameNotes
  <2>3. HeardTrue(c.heard.members, t, k, at, Len(c.entries))
    BY <1>6, <2>2, HeardKept
  <2> QED BY <2>3 DEF SameNotes
<1>11. CheckTrue(d.check, t, k, at)
  <2>1. CheckTrue(c.check, s, k, at)
    BY DEF Booked
  <2>2. \A n \in 1..k : t[at[n]] = s[at[n]]
    BY <1>6 DEF Same
  <2>3. CheckTrue(c.check, t, k, at)
    BY <2>1, <2>2, CheckKept
  <2> QED BY <2>3 DEF SameNotes
<1>12. Booked(base, d, t, k, at)
  <2>1. Len(d.entries) <= k
    BY DEF Booked, SameNotes
  <2> QED BY <1>2, <1>3, <1>5, <1>8, <1>9, <1>10, <1>11, <2>1 DEF Booked
<1> QED BY <1>6, <1>7, <1>12

EndedAll(s, k, at) == \A n \in 1..k : Enders(s, at[n]) # {}

\* d's observer was told of a member that begins where c is.
ToldOfNext(c, d) ==
  d.observed => d.heard.members =
    Append(c.heard.members, [at |-> c.offset, bytes |-> 0, len |-> None])

\* The record p of a name that the check takes.
Named(c, p, name) ==
  /\ name \in DOMAIN NameLen /\ p.length \in Nat /\ p.kind = "local" /\ p.name = name
  /\ ~Misplaced(c.check, name) /\ ~Checked(c.check, name).signed

\* d has what is noted of a member when it begins.
Begins(c, d, p, name) ==
  /\ IsCore(d) /\ d.entries = c.entries /\ d.check = Checked(c.check, name)
  /\ d.observed = c.observed /\ ToldOfNext(c, d)
  /\ d.steps = Append(c.steps, p) /\ d.offset = c.offset + p.length

\* The next record is at i.
Succeeds(s, k, at, to, i) == to = MarkedNext(k, at, Len(s) + 1) /\ i = to[k + 1]

NextAt(base, c, d, t, k, to, p, i) ==
  /\ Booked(base, d, t, k + 1, to)
  /\ i \in 1..Len(t) /\ t[i] = p /\ StartIn(t, i) = c.offset
  /\ ContentIn(t, i) = 0 /\ Enders(t, i) = {}

(* The next record is written, with all that is noted of its member.        *)
LEMMA BookedNext ==
  ASSUME NEW base, NEW c, NEW s, NEW k \in Nat, NEW at, Booked(base, c, s, k, at),
         EndedAll(s, k, at), k = Len(c.entries),
         NEW p, NEW name, Named(c, p, name), NEW d, Begins(c, d, p, name),
         NEW t, t = Append(s, p), NEW to, NEW i, Succeeds(s, k, at, to, i)
  PROVE  NextAt(base, c, d, t, k, to, p, i)
<1>0. /\ name \in DOMAIN NameLen /\ p.length \in Nat /\ p.kind = "local" /\ p.name = name
      /\ ~Misplaced(c.check, name) /\ ~Checked(c.check, name).signed
      /\ IsCore(d) /\ d.entries = c.entries /\ d.check = Checked(c.check, name)
      /\ d.observed = c.observed /\ ToldOfNext(c, d)
      /\ d.steps = Append(c.steps, p) /\ d.offset = c.offset + p.length
  BY DEF Named, Begins
<1>a. to = MarkedNext(k, at, Len(s) + 1) /\ i = to[k + 1]
  BY DEF Succeeds
<1>1. Out(base, c, s) /\ IsStream(s)
  BY OutIsStream DEF Booked
<1>2. Out(base, d, t)
  BY <1>0, <1>a, <1>1, OutGrows
<1>3. PICK z \in Nat : z = Len(s) /\ Len(t) = z + 1 /\ t[z + 1] = p
  BY <1>0, <1>a, <1>1, Appended
<1>4. d.offset = Lengths(t) /\ c.offset = Lengths(s) /\ c.offset \in Nat
  <2>1. c.offset = Lengths(s)
    BY DEF Booked
  <2>2. Lengths(t) = Lengths(s) + p.length /\ Lengths(s) \in Nat
    BY <1>0, <1>a, <1>1, LengthsOf
  <2> QED BY <1>0, <1>a, <2>1, <2>2
<1>5. Marked(s, k, at) /\ at \in [1..k -> 1..Len(s)]
  BY DEF Booked, Marked
<1>6. /\ Marked(t, k + 1, to) /\ to[k + 1] = Len(s) + 1
      /\ \A n \in 1..k : to[n] = at[n]
  BY <1>0, <1>a, <1>1, <1>5, MarkedGrows
<1>7. i = z + 1 /\ i \in 1..Len(t) /\ t[i] = p
  <2>1. i = z + 1
    BY <1>0, <1>a, <1>3, <1>6
  <2> QED BY <1>0, <1>a, <1>3, <2>1
<1>8. StartIn(t, i) = c.offset
  <2>1. StartIn(t, Len(s) + 1) = StartIn(s, Len(s) + 1)
    <3>1. Len(s) + 1 \in 1..(Len(s) + 1)
      BY <1>0, <1>a, <1>3
    <3> QED BY <1>0, <1>a, <1>1, <3>1, StartKept
  <2>2. StartIn(s, Len(s) + 1) = Lengths(s)
    BY <1>0, <1>a, <1>1, StartKept
  <2> QED BY <1>0, <1>a, <1>3, <1>4, <1>7, <2>1, <2>2
<1>9. ContentIn(t, i) = 0 /\ Enders(t, i) = {}
  <2>1. ContentIn(t, Len(s) + 1) = 0 /\ Enders(t, Len(s) + 1) = {}
    BY <1>0, <1>a, <1>1, NewRecord
  <2> QED BY <1>0, <1>a, <1>3, <1>7, <2>1
<1>10. \A n \in 1..k : Same(s, t, at[n])
  <2> SUFFICES ASSUME NEW n \in 1..k PROVE Same(s, t, at[n])
    OBVIOUS
  <2>1. PICK j \in 1..Len(s) : j = at[n]
    BY <1>0, <1>a, <1>5
  <2>2. Enders(s, j) # {}
    BY <1>0, <1>a, <2>1 DEF EndedAll
  <2> QED BY <1>0, <1>a, <1>1, <2>1, <2>2, SameKept
<1>11. AllEnded(t, k + 1, to)
  <2> SUFFICES ASSUME NEW n \in 1..(k + 1), n < k + 1 PROVE Enders(t, to[n]) # {}
    BY DEF AllEnded
  <2>1. n \in 1..k
    OBVIOUS
  <2> QED BY <1>0, <1>a, <1>6, <1>10, <2>1 DEF Same, EndedAll
<1>12. EntriesTrue(d.entries, t, to)
  <2>1. EntriesTrue(c.entries, s, at)
    BY DEF Booked
  <2>2. \A n \in 1..Len(c.entries) : to[n] = at[n] /\ Same(s, t, at[n])
    BY <1>0, <1>a, <1>6, <1>10
  <2> QED BY <1>0, <1>a, <2>1, <2>2, EntriesKept
<1>13. d.observed => HeardTrue(d.heard.members, t, k + 1, to, Len(d.entries))
  <2>1. SUFFICES ASSUME d.observed PROVE HeardTrue(d.heard.members, t, k + 1, to, Len(d.entries))
    OBVIOUS
  <2>2. HeardTrue(c.heard.members, s, k, at, k)
    BY <1>0, <1>a, <2>1 DEF Booked
  <2>3. PICK m : m = [at |-> StartIn(t, to[k + 1]), bytes |-> 0, len |-> None]
    OBVIOUS
  <2>4. StartIn(t, to[k + 1]) \in Nat /\ ContentIn(t, to[k + 1]) = 0
    BY <1>0, <1>a, <1>4, <1>8, <1>9
  <2>5. \A n \in 1..k : to[n] = at[n] /\ Same(s, t, at[n])
    BY <1>0, <1>a, <1>6, <1>10
  <2>6. HeardTrue(Append(c.heard.members, m), t, k + 1, to, k)
    BY <1>0, <1>a, <2>2, <2>3, <2>4, <2>5, HeardNew
  <2>7. d.heard.members = Append(c.heard.members, m)
    BY <1>0, <1>a, <1>8, <2>1, <2>3 DEF ToldOfNext
  <2> QED BY <1>0, <1>a, <2>6, <2>7
<1>14. CheckTrue(d.check, t, k + 1, to)
  <2>1. PICK check : check = c.check
    OBVIOUS
  <2>2. IsCheck(check)
    BY <2>1 DEF Booked, IsCore
  <2>3. CheckTrue(check, s, k, at)
    BY <1>0, <1>a, <2>1 DEF Booked
  <2>4. Retains(s, t, k, at, to)
    BY <1>0, <1>a, <1>6, <1>10 DEF Same, Retains
  <2>5. ~Misplaced(check, name) /\ ~Checked(check, name).signed /\ t[to[k + 1]].name = name
    BY <1>0, <1>a, <1>7, <2>1
  <2>6. PICK new : new = Checked(check, name)
    OBVIOUS
  <2>7. CheckTrue(new, t, k + 1, to)
    BY ONLY <2>2, <2>3, <2>4, <2>5, <2>6, k \in Nat, <1>0, <1>a, CheckGrows
  <2> QED BY <1>0, <1>a, <2>1, <2>6, <2>7
<1>15. Len(d.entries) <= k + 1
  BY <1>0, <1>a
<1>16. Booked(base, d, t, k + 1, to)
  BY <1>0, <1>a, <1>2, <1>4, <1>6, <1>11, <1>12, <1>13, <1>14, <1>15 DEF Booked
<1> QED BY <1>7, <1>8, <1>9, <1>16 DEF NextAt

\* One more piece is about to be drained, and that is all.
Queues(c, d, p) ==
  /\ IsCore(d) /\ SameNotes(c, d) /\ d.steps = Append(c.steps, p)
  /\ d.decoder = c.decoder /\ d.member = c.member /\ d.tail = c.tail
  /\ d.fault = c.fault /\ d.heard = c.heard /\ d.names = c.names

(* A step, and a piece of the package.                                      *)
LEMMA StepQueues ==
  ASSUME NEW c, IsCore(c), NEW p, NEW d, d = Step(c, p)
  PROVE  Queues(c, d, p) /\ d.offset = c.offset
BY DEF Step, IsCore, SameNotes, Queues

LEMMA EnqueueQueues ==
  ASSUME NEW c, IsCore(c), NEW p, NEW d, d = Enqueue(c, p)
  PROVE  Queues(c, d, p) /\ d.offset = c.offset + p.length
BY DEF Enqueue, IsCore, SameNotes, Queues

\* Where the core stands between two events: between two members, within one,
\* or behind the directory.
AtRest(base, c, s, k, at) ==
  /\ Booked(base, c, s, k, at) /\ k = Len(c.entries) /\ c.fault = "none"
  /\ c.decoder = NoDecoder /\ ~c.tail

Within(base, c, s, k, at) ==
  /\ Booked(base, c, s, k, at) /\ k = Len(c.entries) + 1 /\ c.fault = "none"
  /\ c.decoder # NoDecoder /\ ~c.tail
  /\ OpenTrue(c.member, c.decoder, s, at[k]) /\ c.decoder.pending = 0

WithDirectory(base, c, s, k, at) ==
  /\ Booked(base, c, s, k, at) /\ k = Len(c.entries) /\ c.fault = "none"
  /\ c.decoder = NoDecoder /\ c.tail /\ TailTrue(c, s, k)

(***************************************************************************)
(* A member begins.                                                        *)
(***************************************************************************)
\* A header, by what the walker may say in it.
IsHeader(h) ==
  /\ h.name \in DOMAIN NameLen /\ h.method \in {Stored, Deflate, "other"}
  /\ h.encrypted \in BOOLEAN /\ h.known \in BOOLEAN /\ h.len \in Nat /\ h.crc \in Nat \cup {None}

\* Why a package is refused, or none.
Faults ==
  DecodeFaults \cup {"UnsupportedMethod", "NotOoxmlPackage", "SignedPackage", "MetadataOverBound",
                    "UnknownSizeMemberTooLarge", "none"}

(* The faults of a header are not about content, and without one its name   *)
(* is allowed and its method known.                                         *)
LEMMA HeaderFaults ==
  ASSUME NEW c, NEW h, IsHeader(h), NEW fault, fault = HeaderFault(c, h)
  PROVE  /\ fault \notin DecodeFaults /\ fault \in Faults
         /\ fault = "none" => /\ ~Misplaced(c.check, h.name) /\ ~Checked(c.check, h.name).signed
                              /\ h.method \in {Stored, Deflate}
<1>1. PICK misplaced : misplaced <=> Misplaced(c.check, h.name)
  OBVIOUS
<1>2. h.encrypted \in BOOLEAN
  BY DEF IsHeader
<1>3. CASE h.encrypted
  <2>1. fault = "UnsupportedMethod"
    BY <1>3 DEF HeaderFault
  <2> QED BY <2>1 DEF DecodeFaults, Faults
<1>4. CASE ~h.encrypted /\ Misplaced(c.check, h.name)
  <2>1. fault = "NotOoxmlPackage"
    BY <1>4 DEF HeaderFault
  <2> QED BY <2>1 DEF DecodeFaults, Faults
<1>5. CASE ~h.encrypted /\ ~Misplaced(c.check, h.name)
  <2>1. fault = IF Checked(c.check, h.name).signed THEN "SignedPackage"
                ELSE IF \/ Len(c.entries) >= MaxMembers
                        \/ c.names + NameLen[h.name] > MaxNameBytes THEN "MetadataOverBound"
                ELSE IF h.method \notin {Stored, Deflate} THEN "UnsupportedMethod" ELSE "none"
    BY <1>5 DEF HeaderFault
  <2>2. fault \in {"SignedPackage", "MetadataOverBound", "UnsupportedMethod", "none"}
    BY <2>1
  <2>3. fault = "none" => ~Checked(c.check, h.name).signed /\ h.method \in {Stored, Deflate}
    BY <2>1
  <2> QED BY <1>5, <2>2, <2>3 DEF DecodeFaults, Faults
<1> QED BY <1>2, <1>3, <1>4, <1>5

(* Records have lengths.                                                    *)
LEMMA RecordLengths ==
  ASSUME NEW name \in DOMAIN NameLen, NEW crc, NEW n
  PROVE  /\ LocalKnown(name, crc, n).length \in Nat /\ LocalUnknown(name).length \in Nat
         /\ DescriptorRecord(crc, n).length \in Nat
<1>1. NameLen[name] \in Nat /\ LocalLen \in Nat
  BY CanonicalAssumption
<1>2. Zip64Len(IF NeedsZip64(n) THEN 2 ELSE 0) \in Nat
  BY DEF Zip64Len
<1>3. LocalKnown(name, crc, n).length =
        LocalLen + NameLen[name] + Zip64Len(IF NeedsZip64(n) THEN 2 ELSE 0)
  BY DEF LocalKnown
<1>4. LocalUnknown(name).length = LocalLen + NameLen[name]
  BY DEF LocalUnknown
<1>5. DescriptorRecord(crc, n).length = 1
  BY DEF DescriptorRecord
<1> QED BY <1>1, <1>2, <1>3, <1>4, <1>5

(* A new member decoder.                                                    *)
LEMMA NewDecoderSums ==
  ASSUME NEW method \in {Stored, Deflate}, NEW d, d = NewMemberDecoder(method),
         NEW over \in BOOLEAN, ~over
  PROVE  /\ Summing(d) /\ d # NoDecoder /\ d.crc = 0 /\ d.pending = 0 /\ d.method = method
         /\ d.inflater = NewInflater /\ d.inflater.fault = "none" /\ Sane(d.inflater, 0, over)
<1>1. NewInflater \in Inflaters /\ Sane(NewInflater, 0, over)
  BY SaneNew
<1>2. NewInflater.pending = 0 /\ NewInflater.produced = 0 /\ NewInflater.fault = "none"
  BY DEF NewInflater
<1>3. d = [method |-> method, inflater |-> NewInflater, crc |-> 0, pending |-> 0]
  BY DEF NewMemberDecoder
<1>4. d.method = method /\ d.inflater = NewInflater /\ d.crc = 0 /\ d.pending = 0
  BY <1>3
<1>5. d \in MemberDecoders
  BY <1>1, <1>3 DEF MemberDecoders
<1>6. d # NoDecoder
  BY <1>4 DEF NoDecoder, Stored, Deflate
<1> QED BY <1>1, <1>2, <1>4, <1>5, <1>6 DEF Summing

\* What the header's record must be.
RecordOf(h) == IF h.known THEN LocalKnown(h.name, h.crc, h.len) ELSE LocalUnknown(h.name)

(* The record of a header.                                                  *)
LEMMA RecordIs ==
  ASSUME NEW h, IsHeader(h), NEW p, p = RecordOf(h)
  PROVE  /\ p.kind = "local" /\ p.name = h.name /\ p.known = h.known /\ p.length \in Nat
         /\ h.known => p.size = Field(h.len, NeedsZip64(h.len))
<1>1. p.length \in Nat
  BY RecordLengths DEF RecordOf, IsHeader
<1>2. CASE h.known
  <2>1. p = LocalKnown(h.name, h.crc, h.len) /\ h.known = TRUE
    BY <1>2 DEF RecordOf, IsHeader
  <2>2. p.kind = "local" /\ p.name = h.name /\ p.size = Field(h.len, NeedsZip64(h.len))
    BY <2>1 DEF LocalKnown
  <2>3. p.known = TRUE
    <3>1. \A name, crc, n : LocalKnown(name, crc, n).known = TRUE
      BY DEF LocalKnown
    <3> QED BY <2>1, <3>1
  <2> QED BY <1>1, <2>1, <2>2, <2>3
<1>3. CASE ~h.known
  <2>1. p = LocalUnknown(h.name) /\ h.known = FALSE
    BY <1>3 DEF RecordOf, IsHeader
  <2>2. p.kind = "local" /\ p.name = h.name
    BY <2>1 DEF LocalUnknown
  <2>3. p.known = FALSE
    <3>1. \A name : LocalUnknown(name).known = FALSE
      BY DEF LocalUnknown
    <3> QED BY <2>1, <3>1
  <2> QED BY <1>1, <1>3, <2>1, <2>2, <2>3
<1> QED BY <1>2, <1>3

\* The core once a header has begun a member.
Begun(c, h) ==
  [c EXCEPT
     !.check = Checked(@, h.name), !.names = @ + NameLen[h.name],
     !.decoder = NewMemberDecoder(h.method),
     !.member = [name |-> h.name, at |-> c.offset, known |-> h.known, crc |-> h.crc],
     !.heard.members = IF c.observed
                       THEN Append(@, [at |-> c.offset, bytes |-> 0, len |-> None]) ELSE @]

WrittenHeader(c, h) == Enqueue(Step(Begun(c, h), Boundary), RecordOf(h))

LEMMA BegunIs ==
  ASSUME NEW c, IsCore(c), NEW h, NEW d, d = Begun(c, h)
  PROVE  /\ IsCore(d) /\ d.check = Checked(c.check, h.name)
         /\ d.decoder = NewMemberDecoder(h.method)
         /\ d.member = [name |-> h.name, at |-> c.offset, known |-> h.known, crc |-> h.crc]
         /\ d.observed => d.heard.members =
              Append(c.heard.members, [at |-> c.offset, bytes |-> 0, len |-> None])
         /\ d.entries = c.entries /\ d.offset = c.offset /\ d.tail = c.tail /\ d.fault = c.fault
         /\ d.steps = c.steps /\ d.observed = c.observed
<1>1. PICK members : members = IF c.observed
                               THEN Append(c.heard.members, [at |-> c.offset, bytes |-> 0, len |-> None])
                               ELSE c.heard.members
  OBVIOUS
<1>2. PICK heard : heard = [members |-> members, end |-> c.heard.end]
  OBVIOUS
<1>3. PICK check : check = Checked(c.check, h.name)
  OBVIOUS
<1>4. IsCheck(check)
  BY <1>3 DEF IsCore, IsCheck, Checked
<1>5. c.heard = [members |-> c.heard.members, end |-> c.heard.end]
  BY DEF IsCore
<1>6. [c.heard EXCEPT !.members = members] = heard
  BY <1>2, <1>5
<1>7. d = [c EXCEPT !.check = check, !.names = @ + NameLen[h.name],
                    !.decoder = NewMemberDecoder(h.method),
                    !.member = [name |-> h.name, at |-> c.offset, known |-> h.known,
                                crc |-> h.crc],
                    !.heard.members = members]
  BY <1>1, <1>3 DEF Begun, IsCore
<1>8. d = [c EXCEPT !.check = check, !.names = @ + NameLen[h.name],
                    !.decoder = NewMemberDecoder(h.method),
                    !.member = [name |-> h.name, at |-> c.offset, known |-> h.known,
                                crc |-> h.crc],
                    !.heard = heard]
  BY <1>6, <1>7 DEF IsCore
<1>9. /\ d.check = check /\ d.decoder = NewMemberDecoder(h.method)
      /\ d.member = [name |-> h.name, at |-> c.offset, known |-> h.known, crc |-> h.crc]
      /\ d.heard = heard
      /\ d.entries = c.entries /\ d.offset = c.offset /\ d.tail = c.tail /\ d.fault = c.fault
      /\ d.steps = c.steps /\ d.observed = c.observed
  BY <1>8 DEF IsCore
<1>10. IsCore(d)
  <2>1. d = [check |-> d.check, decoder |-> d.decoder, member |-> d.member, entries |-> d.entries,
             names |-> d.names, offset |-> d.offset, tail |-> d.tail, fault |-> d.fault,
             steps |-> d.steps, observed |-> d.observed, heard |-> d.heard]
    BY <1>8 DEF IsCore
  <2>2. d.heard = [members |-> d.heard.members, end |-> d.heard.end]
    BY <1>2, <1>9
  <2>3. d.tail \in BOOLEAN /\ d.observed \in BOOLEAN
    BY <1>9 DEF IsCore
  <2> QED BY <1>4, <1>9, <2>1, <2>2, <2>3 DEF IsCore
<1>11. d.observed => d.heard.members =
              Append(c.heard.members, [at |-> c.offset, bytes |-> 0, len |-> None])
  BY <1>1, <1>2, <1>9
<1> QED BY <1>3, <1>9, <1>10, <1>11

\* Within a member, with what the source said of it.
InMember(base, c, src) ==
  \E s : \E k \in Nat : \E at :
    /\ Within(base, c, s, k, at) /\ Linked(c.member, c.decoder, s, at[k], src)
    /\ c.decoder.inflater.fault = "none"

\* The same, said of the record at i.
OpenAt(base, c, s, k, at, i, src) ==
  /\ Booked(base, c, s, k, at) /\ k = Len(c.entries) + 1 /\ i = at[k]
  /\ c.fault = "none" /\ c.decoder # NoDecoder /\ ~c.tail
  /\ OpenTrue(c.member, c.decoder, s, i) /\ c.decoder.pending = 0
  /\ Linked(c.member, c.decoder, s, i, src)
  /\ c.decoder.inflater.fault = "none"

(* What a piece without a length leaves as it was.                          *)
LEMMA OpenKept ==
  ASSUME NEW base, NEW c, NEW s, NEW k \in Nat, NEW at, NEW i, NEW src,
         OpenAt(base, c, s, k, at, i, src),
         NEW p, p.length = 0, p.kind # "local", p.kind \notin Closers,
         NEW d, d = Step(c, p), NEW t, t = Append(s, p)
  PROVE  OpenAt(base, d, t, k, at, i, src)
<1>1. Booked(base, c, s, k, at) /\ IsCore(c) /\ p.length \in Nat
  BY DEF OpenAt, Booked
<1>2. /\ IsCore(d) /\ SameNotes(c, d) /\ d.steps = Append(c.steps, p) /\ d.offset = c.offset
      /\ d.decoder = c.decoder /\ d.member = c.member /\ d.tail = c.tail /\ d.fault = c.fault
  BY <1>1, StepQueues DEF Queues
<1>3. d.offset = c.offset + p.length
  <2>1. Out(base, c, s) /\ c.offset = Lengths(s)
    BY <1>1 DEF Booked
  <2>2. c.offset \in Nat
    BY <2>1, OutIsStream, LengthsOf
  <2> QED BY <1>2, <2>2
<1>4. /\ Booked(base, d, t, k, at)
      /\ \A n \in 1..k : Same(s, t, at[n])
  BY <1>1, <1>2, <1>3, BookedKept
<1>5. i \in 1..Len(s) /\ i = at[k] /\ k \in 1..k
  <2>1. Len(c.entries) \in Nat /\ k = Len(c.entries) + 1
    <3>1. c.entries \in Seq(EntryRecords)
      BY <1>1 DEF Booked, EntriesTrue
    <3> QED BY <3>1, LenProperties DEF OpenAt
  <2>2. k \in 1..k
    BY <2>1
  <2>3. at \in [1..k -> 1..Len(s)]
    BY <1>1 DEF Booked, Marked
  <2> QED BY <2>2, <2>3 DEF OpenAt
<1>6. Enders(t, i) = {}
  <2>1. Enders(s, i) = {} /\ IsStream(s)
    BY <1>1, OutIsStream DEF OpenAt, OpenTrue, Booked
  <2> QED BY <1>1, <1>5, <2>1, ContentGrows
<1>7. Same(s, t, i)
  BY <1>4, <1>5
<1>8. OpenTrue(d.member, d.decoder, t, i)
  BY <1>2, <1>6, <1>7 DEF OpenAt, OpenTrue, Same
<1>9. Linked(d.member, d.decoder, t, i, src)
  BY <1>2, <1>7 DEF OpenAt, Linked, Same
<1>10. k = Len(d.entries) + 1
  BY <1>2 DEF OpenAt, SameNotes
<1> QED BY <1>2, <1>4, <1>5, <1>8, <1>9, <1>10 DEF OpenAt

LEMMA OpenIsWithin ==
  ASSUME NEW base, NEW c, NEW s, NEW k \in Nat, NEW at, NEW i, NEW src,
         OpenAt(base, c, s, k, at, i, src)
  PROVE  InMember(base, c, src)
<1>1. /\ Within(base, c, s, k, at) /\ Linked(c.member, c.decoder, s, at[k], src)
      /\ c.decoder.inflater.fault = "none"
  BY DEF OpenAt, Within
<1> QED BY <1>1 DEF InMember

(* What the ghost holds of a member that has just begun.                    *)
LEMMA HeldHeader ==
  ASSUME NEW h, IsHeader(h), NEW src, NEW new, new = Held(src, Event("header", h))
  PROVE  /\ new.method = h.method /\ new.known = h.known /\ new.claim = h.len /\ new.crc = h.crc
         /\ new.len = 0 /\ ~new.over /\ new \in Sources
<1>1. PICK e : e = Event("header", h)
  OBVIOUS
<1>2. e.kind = "header" /\ e.of = h
  BY <1>1 DEF Event
<1>3. PICK no \in BOOLEAN : no = FALSE
  OBVIOUS
<1>4. PICK yes \in BOOLEAN : yes = TRUE
  OBVIOUS
<1>5. new = [method |-> h.method, known |-> h.known, claim |-> h.len, crc |-> h.crc,
             bytes |-> 0, len |-> 0, over |-> no, sound |-> yes]
  BY <1>1, <1>2, <1>3, <1>4 DEF Held
<1>6. /\ new.method = h.method /\ new.known = h.known /\ new.claim = h.len /\ new.crc = h.crc
      /\ new.len = 0 /\ new.over = no
  BY <1>5
<1>7. new \in Sources
  BY <1>5 DEF IsHeader, Sources
<1> QED BY <1>3, <1>6, <1>7

(* A header between two members.                                            *)
LEMMA HeaderTold ==
  ASSUME NEW base, NEW c, NEW s, NEW k \in Nat, NEW at, AtRest(base, c, s, k, at),
         NEW h, IsHeader(h), NEW d, d = OnHeader(c, h),
         NEW src, NEW new, new = Held(src, Event("header", h))
  PROVE  /\ d.fault \notin DecodeFaults /\ d.fault \in Faults
         /\ d.fault # "none" => Refused(base, d)
         /\ d.fault = "none" => /\ InMember(base, d, new)
                                /\ d.check.expected = c.check.expected
                                /\ d.observed = c.observed
<1>1. PICK fault : fault = HeaderFault(c, h)
  OBVIOUS
<1>2. Booked(base, c, s, k, at) /\ k = Len(c.entries) /\ c.fault = "none" /\ ~c.tail /\ IsCore(c)
  BY DEF AtRest, Booked
<1>3. CASE fault # "none"
  <2>1. d = Fail(c, fault)
    BY <1>1, <1>3 DEF OnHeader
  <2>2. d.fault = fault
    BY <1>2, <2>1 DEF Fail, IsCore
  <2>3. Refused(base, d)
    <3>1. k <= Len(c.entries) + 1
      BY <1>2
    <3> QED BY <1>2, <2>1, <3>1, FailRefuses
  <2> QED BY <1>1, <1>3, <2>2, <2>3, HeaderFaults
<1>4. CASE fault = "none"
  <2>1. ~Misplaced(c.check, h.name) /\ ~Checked(c.check, h.name).signed /\ h.method \in {Stored, Deflate}
    BY <1>1, <1>4, HeaderFaults
  <2>2. PICK c1 : c1 = Step(c, Boundary)
    OBVIOUS
  <2>3. PICK s1 : s1 = Append(s, Boundary)
    OBVIOUS
  <2>4. Boundary.length = 0 /\ Boundary.kind = "boundary" /\ Boundary.kind \in Closers
    BY DEF Boundary, Closers
  <2>5. /\ IsCore(c1) /\ SameNotes(c, c1) /\ c1.steps = Append(c.steps, Boundary)
        /\ c1.offset = c.offset
    BY <1>2, <2>2, StepQueues DEF Queues, SameNotes
  <2>6. c.offset \in Nat /\ c.offset + 0 = c.offset
    <3>1. Out(base, c, s) /\ c.offset = Lengths(s)
      BY <1>2 DEF Booked
    <3>2. c.offset \in Nat
      BY <3>1, OutIsStream, LengthsOf
    <3> QED BY <3>2
  <2>7. Booked(base, c1, s1, k, at) /\ \A n \in 1..k : Enders(s1, at[n]) # {}
    <3>1. PICK p : p = Boundary
      OBVIOUS
    <3>2. p.length \in Nat /\ p.kind # "local" /\ p.kind \in Closers /\ c1.offset = c.offset + p.length
      BY <2>4, <2>5, <2>6, <3>1
    <3>3. c1.steps = Append(c.steps, p) /\ s1 = Append(s, p)
      BY <2>3, <2>5, <3>1
    <3> QED BY <1>2, <2>5, <3>2, <3>3, BookedKept
  <2>8. PICK b : b = Begun(c, h)
    OBVIOUS
  <2>9. /\ IsCore(b) /\ b.check = Checked(c.check, h.name)
        /\ b.decoder = NewMemberDecoder(h.method)
        /\ b.member = [name |-> h.name, at |-> c.offset, known |-> h.known, crc |-> h.crc]
        /\ b.observed => b.heard.members =
              Append(c.heard.members, [at |-> c.offset, bytes |-> 0, len |-> None])
        /\ b.entries = c.entries /\ b.offset = c.offset /\ b.tail = c.tail /\ b.fault = c.fault
        /\ b.steps = c.steps /\ b.observed = c.observed
    BY <1>2, <2>8, BegunIs
  <2>10. PICK b1 : b1 = Step(b, Boundary)
    OBVIOUS
  <2>11. /\ IsCore(b1) /\ SameNotes(b, b1) /\ b1.steps = Append(b.steps, Boundary)
         /\ b1.offset = b.offset /\ b1.decoder = b.decoder /\ b1.member = b.member
         /\ b1.tail = b.tail /\ b1.fault = b.fault
    BY <2>9, <2>10, StepQueues DEF Queues
  <2>12. PICK p : p = RecordOf(h)
    OBVIOUS
  <2>13. /\ p.kind = "local" /\ p.name = h.name /\ p.known = h.known /\ p.length \in Nat
         /\ h.known => p.size = Field(h.len, NeedsZip64(h.len))
    BY <2>12, RecordIs
  <2>14. PICK d0 : d0 = Enqueue(b1, p)
    OBVIOUS
  <2>15. /\ IsCore(d0) /\ SameNotes(b1, d0) /\ d0.steps = Append(b1.steps, p)
         /\ d0.offset = b1.offset + p.length /\ d0.decoder = b1.decoder /\ d0.member = b1.member
         /\ d0.tail = b1.tail /\ d0.fault = b1.fault
    <3>1. Queues(b1, d0, p) /\ d0.offset = b1.offset + p.length
      BY ONLY <2>11, <2>14, EnqueueQueues
    <3> QED BY ONLY <3>1 DEF Queues
  <2>16. PICK t0 : t0 = Append(s1, p)
    OBVIOUS
  <2>17. PICK to : to = MarkedNext(k, at, Len(s1) + 1)
    OBVIOUS
  <2>18. PICK i : i = to[k + 1]
    OBVIOUS
  <2>19. /\ Booked(base, d0, t0, k + 1, to)
         /\ i \in 1..Len(t0) /\ t0[i] = p /\ StartIn(t0, i) = c1.offset
         /\ ContentIn(t0, i) = 0 /\ Enders(t0, i) = {}
    <3>1. PICK name \in DOMAIN NameLen : name = h.name
      BY DEF IsHeader
    <3>2. k = Len(c1.entries) /\ ~Misplaced(c1.check, name) /\ ~Checked(c1.check, name).signed
      BY <1>2, <2>1, <2>5, <3>1 DEF SameNotes
    <3>3. /\ d0.entries = c1.entries /\ d0.check = Checked(c1.check, name)
          /\ d0.observed = c1.observed
          /\ d0.steps = Append(c1.steps, p) /\ d0.offset = c1.offset + p.length
      BY <2>5, <2>9, <2>11, <2>15, <3>1 DEF SameNotes
    <3>4. ToldOfNext(c1, d0)
      BY <2>5, <2>9, <2>11, <2>15 DEF SameNotes, ToldOfNext
    <3>5. Named(c1, p, name)
      BY <2>13, <3>1, <3>2 DEF Named
    <3>6. Begins(c1, d0, p, name)
      BY <2>15, <3>3, <3>4 DEF Begins
    <3>7. EndedAll(s1, k, at)
      BY <2>7 DEF EndedAll
    <3>8. Succeeds(s1, k, at, to, i)
      BY <2>17, <2>18 DEF Succeeds
    <3>9. Booked(base, c1, s1, k, at) /\ k = Len(c1.entries) /\ k \in Nat
      BY <2>7, <3>2
    <3>10. NextAt(base, c1, d0, t0, k, to, p, i)
      BY <2>16, <3>5, <3>6, <3>7, <3>8, <3>9, BookedNext
    <3> QED BY <3>10 DEF NextAt
  <2>20. OpenAt(base, d0, t0, k + 1, to, i, new)
    <3>1. k + 1 = Len(d0.entries) + 1
      BY <1>2, <2>9, <2>11, <2>15 DEF SameNotes
    <3>2. d0.fault = "none" /\ ~d0.tail
      BY <1>2, <2>9, <2>11, <2>15
    <3>3. d0.decoder = NewMemberDecoder(h.method)
      BY <2>9, <2>11, <2>15
    <3>4. d0.member = [name |-> h.name, at |-> c.offset, known |-> h.known, crc |-> h.crc]
      BY <2>9, <2>11, <2>15
    <3>5. PICK over \in BOOLEAN : over = new.over /\ ~over
      BY HeldHeader DEF Sources
    <3>6. /\ Summing(d0.decoder) /\ d0.decoder # NoDecoder /\ d0.decoder.crc = 0
          /\ d0.decoder.pending = 0 /\ d0.decoder.method = h.method
          /\ d0.decoder.inflater.fault = "none" /\ Sane(d0.decoder.inflater, 0, over)
      BY <2>1, <3>3, <3>5, NewDecoderSums
    <3>7. /\ d0.member.name = h.name /\ d0.member.at = c.offset /\ d0.member.known = h.known
          /\ d0.member.crc = h.crc
          /\ d0.member = [name |-> h.name, at |-> c.offset, known |-> h.known,
                          crc |-> d0.member.crc]
      BY <3>4
    <3>8. OpenTrue(d0.member, d0.decoder, t0, i)
      <4>1. d0.member = [name |-> t0[i].name, at |-> StartIn(t0, i), known |-> t0[i].known,
                         crc |-> d0.member.crc]
        BY <2>5, <2>13, <2>19, <3>7
      <4>2. d0.decoder.crc = ContentIn(t0, i) + d0.decoder.pending
        BY <2>19, <3>6
      <4> QED BY <2>19, <3>6, <4>1, <4>2 DEF OpenTrue
    <3>9. Linked(d0.member, d0.decoder, t0, i, new)
      <4>1. /\ new.method = h.method /\ new.known = h.known /\ new.claim = h.len /\ new.crc = h.crc
            /\ new.len = 0 /\ new.over = over
        BY <3>5, HeldHeader
      <4>2. new.known => t0[i].size = Field(new.claim, NeedsZip64(new.claim))
        BY <2>13, <2>19, <4>1
      <4>3. IF d0.decoder.method = Stored THEN d0.decoder.crc = new.len
            ELSE Sane(d0.decoder.inflater, new.len, new.over)
        BY <3>6, <4>1
      <4> QED BY <3>6, <3>7, <4>1, <4>2, <4>3 DEF Linked
    <3> QED BY <2>18, <2>19, <3>1, <3>2, <3>6, <3>8, <3>9 DEF OpenAt
  <2>21. d \in {d0, Step(d0, LargeUnit(p.length))}
    BY <1>1, <1>4, <2>8, <2>10, <2>12, <2>14 DEF OnHeader, Begun, RecordOf
  <2>22. k + 1 \in Nat
    OBVIOUS
  <2>23. d0.check.expected = c.check.expected /\ d0.observed = c.observed
    <3>1. d0.check = Checked(c.check, h.name) /\ d0.observed = c.observed
      BY <2>9, <2>11, <2>15 DEF SameNotes
    <3>2. Checked(c.check, h.name).expected = c.check.expected
      BY <1>2 DEF Checked, IsCore, IsCheck
    <3> QED BY <3>1, <3>2
  <2>24. CASE d = d0
    <3>1. InMember(base, d, new)
      BY <2>20, <2>22, <2>24, OpenIsWithin
    <3>2. d.fault = "none"
      BY <2>20, <2>24 DEF OpenAt
    <3> QED BY <2>23, <2>24, <3>1, <3>2 DEF DecodeFaults, Faults
  <2>25. CASE d = Step(d0, LargeUnit(p.length))
    <3>1. PICK u : u = LargeUnit(p.length)
      OBVIOUS
    <3>2. u.length = 0 /\ u.kind = "large" /\ u.kind \notin Closers /\ u.kind # "local"
      BY <3>1 DEF LargeUnit, Closers
    <3>3. PICK t : t = Append(t0, u)
      OBVIOUS
    <3>4. OpenAt(base, d, t, k + 1, to, i, new)
      BY <2>20, <2>22, <2>25, <3>1, <3>2, <3>3, OpenKept
    <3>5. InMember(base, d, new)
      BY <2>22, <3>4, OpenIsWithin
    <3>6. d.fault = "none"
      BY <3>4 DEF OpenAt
    <3>7. SameNotes(d0, d)
      BY <2>15, <2>25, StepQueues DEF Queues
    <3> QED BY <2>23, <3>5, <3>6, <3>7 DEF DecodeFaults, Faults, SameNotes
  <2> QED BY <2>21, <2>24, <2>25
<1> QED BY <1>3, <1>4

(***************************************************************************)
(* Its content comes out of the decoder.                                   *)
(***************************************************************************)
\* What the decoder made of what the source holds so far, if that is sound.
Serves(d, src) ==
  src.sound => IF d.method = Stored THEN d.crc = src.len ELSE Sane(d.inflater, src.len, src.over)

\* It summed x more, and left them to drain.
Summed(d, e, x) ==
  e.method = d.method /\ e.crc = d.crc + x /\ e.pending = d.pending + x

(* What is pending can be taken.                                            *)
LEMMA SaneTaken ==
  ASSUME NEW i, NEW n, NEW over \in BOOLEAN, Sane(i, n, over), NEW o, o = TakePending(i)
  PROVE  Sane(o, n, over)
<1>1. i \in Inflaters
  BY DEF Sane
<1>2. /\ o \in Inflaters /\ o.decoder = i.decoder /\ o.staged = i.staged /\ o.produced = i.produced
      /\ o.done = i.done /\ o.fault = i.fault
  BY <1>1 DEF TakePending, Inflaters
<1> QED BY <1>2 DEF Sane

(* All that comes out of the inflater is summed.                            *)
LEMMA AbsorbedSums ==
  ASSUME NEW c, Summing(c), c.method = Deflate, NEW i, Handed(c.inflater, i),
         NEW d, d = Absorbed(c, i)
  PROVE  /\ Summing(d) /\ d.inflater = TakePending(i) /\ d.inflater.fault = i.fault
         /\ \E x \in Nat : Summed(c, d, x)
<1>1. PICK was \in Inflaters : was = c.inflater /\ was.pending = 0
  BY DEF Summing, MemberDecoders
<1>2. /\ c = [method |-> c.method, inflater |-> c.inflater, crc |-> c.crc, pending |-> c.pending]
      /\ c.crc \in Nat /\ c.pending \in Nat /\ c.crc = was.produced /\ c.method \in {Stored, Deflate}
  BY <1>1 DEF Summing, MemberDecoders
<1>3. i \in Inflaters /\ i.produced + was.pending = was.produced + i.pending
  BY <1>1 DEF Handed
<1>4. PICK x \in Nat : x = i.pending
  BY <1>3 DEF Inflaters
<1>5. PICK o \in Inflaters : /\ o = TakePending(i) /\ o.pending = 0 /\ o.produced = i.produced
                             /\ o.fault = i.fault
  <2>1. PICK o : o = TakePending(i)
    OBVIOUS
  <2>2. o \in Inflaters /\ o.pending = 0 /\ o.produced = i.produced /\ o.fault = i.fault
    BY <1>3, <2>1 DEF TakePending, Inflaters
  <2> QED BY <2>1, <2>2
<1>6. d = [method |-> c.method, inflater |-> o, crc |-> c.crc + x, pending |-> c.pending + x]
  BY <1>2, <1>4, <1>5 DEF Absorbed
<1>7. d.method = c.method /\ d.inflater = o /\ d.crc = c.crc + x /\ d.pending = c.pending + x
  BY <1>6
<1>8. c.crc + x \in Nat /\ c.pending + x \in Nat
  BY <1>2
<1>9. d \in MemberDecoders
  BY <1>2, <1>6, <1>8 DEF MemberDecoders
<1>10. c.crc + x = o.produced
  <2>1. PICK a \in Nat : a = was.produced
    BY <1>1 DEF Inflaters
  <2>2. PICK e \in Nat : e = i.produced
    BY <1>3 DEF Inflaters
  <2>3. e + 0 = a + x
    BY <1>1, <1>3, <1>4, <2>1, <2>2
  <2> QED BY <1>2, <1>5, <2>1, <2>2, <2>3
<1>11. Summing(d)
  BY <1>5, <1>7, <1>9, <1>10 DEF Summing
<1> QED BY <1>5, <1>7, <1>11 DEF Summed

(* A byte of the source goes into the decoder.                              *)
LEMMA SourcePushed ==
  ASSUME NEW c, Summing(c), NEW b \in SourceBytes(c.method), NEW d, d = PushSource(c, b)
  PROVE  Summing(d) /\ \E x \in Nat : Summed(c, d, x)
<1>1. /\ c = [method |-> c.method, inflater |-> c.inflater, crc |-> c.crc, pending |-> c.pending]
      /\ c.crc \in Nat /\ c.pending \in Nat /\ c.method \in {Stored, Deflate}
      /\ c.inflater \in Inflaters /\ c.inflater.pending = 0
  BY DEF Summing, MemberDecoders
<1>2. CASE c.method = Stored
  <2>1. d = [method |-> c.method, inflater |-> c.inflater, crc |-> c.crc + 1,
             pending |-> c.pending + 1]
    BY <1>1, <1>2 DEF PushSource
  <2>2. /\ d.method = c.method /\ d.crc = c.crc + 1 /\ d.pending = c.pending + 1
        /\ d.inflater = c.inflater
    BY <2>1
  <2>3. d \in MemberDecoders
    BY <1>1, <2>1 DEF MemberDecoders
  <2>4. d.method # Deflate
    BY <1>2, <2>2 DEF Stored, Deflate
  <2> QED BY <1>1, <2>2, <2>3, <2>4 DEF Summing, Summed
<1>3. CASE c.method # Stored
  <2>1. c.method = Deflate /\ b \in CompressedByte
    BY <1>1, <1>3 DEF SourceBytes
  <2>2. PICK i : i = PushByte(c.inflater, b)
    OBVIOUS
  <2>3. Handed(c.inflater, i)
    BY <1>1, <2>1, <2>2, PushHands
  <2>4. d = Absorbed(c, i)
    BY <1>3, <2>2 DEF PushSource
  <2> QED BY <2>1, <2>3, <2>4, AbsorbedSums
<1> QED BY <1>2, <1>3

(* What the ghost holds of one more byte.                                   *)
LEMMA HeldData ==
  ASSUME NEW src \in Sources, NEW b, b.grows \in Nat, NEW new, new = Held(src, Event("data", b))
  PROVE  /\ new.method = src.method /\ new.known = src.known /\ new.claim = src.claim
         /\ new.crc = src.crc /\ new.len = src.len + b.grows /\ new \in Sources
         /\ new.over <=> b.kind = "last"
         /\ new.sound => src.sound /\ ~src.over /\ b.kind # "bad"
<1>1. PICK e : e = Event("data", b)
  OBVIOUS
<1>2. e.kind = "data" /\ e.of = b
  BY <1>1 DEF Event
<1>3. PICK over \in BOOLEAN : over = (b.kind = "last")
  OBVIOUS
<1>4. PICK sound \in BOOLEAN : sound = (src.sound /\ ~src.over /\ b.kind # "bad")
  BY DEF Sources
<1>5. new = [src EXCEPT !.bytes = @ + 1, !.len = @ + b.grows, !.over = over, !.sound = sound]
  BY <1>1, <1>2, <1>3, <1>4 DEF Held
<1>6. new = [method |-> src.method, known |-> src.known, claim |-> src.claim, crc |-> src.crc,
             bytes |-> src.bytes + 1, len |-> src.len + b.grows, over |-> over, sound |-> sound]
  BY <1>5 DEF Sources
<1>7. new \in Sources
  <2>1. src.bytes + 1 \in Nat /\ src.len + b.grows \in Nat
    BY DEF Sources
  <2> QED BY <1>6, <2>1 DEF Sources
<1>8. /\ new.method = src.method /\ new.known = src.known /\ new.claim = src.claim
      /\ new.crc = src.crc /\ new.len = src.len + b.grows /\ new.over = over /\ new.sound = sound
  BY <1>6
<1>9. new.over <=> b.kind = "last"
  BY <1>3, <1>8
<1>10. new.sound => src.sound /\ ~src.over /\ b.kind # "bad"
  BY <1>4, <1>8
<1> QED BY <1>7, <1>8, <1>9, <1>10

(* If the source is sound up to it, the decoder keeps up.                   *)
LEMMA SourceServes ==
  ASSUME NEW c, Summing(c), c.inflater.fault = "none", NEW src \in Sources, Serves(c, src),
         NEW b \in SourceBytes(c.method), NEW d, d = PushSource(c, b),
         NEW new, new = Held(src, Event("data", b))
  PROVE  /\ Serves(d, new) /\ new \in Sources
         /\ new.sound => d.inflater.fault = "none"
<1>1. b.grows \in Nat /\ (c.method = Stored => b.grows = 1)
  <2>1. CASE c.method = Stored
    BY <2>1 DEF SourceBytes
  <2>2. CASE c.method # Stored
    <3>1. b \in CompressedByte
      BY <2>2 DEF SourceBytes
    <3> QED BY <2>2, <3>1, InflaterAssumption DEF CompressedByte
  <2> QED BY <2>1, <2>2
<1>2. /\ new.len = src.len + b.grows /\ new \in Sources
      /\ new.over <=> b.kind = "last"
      /\ new.sound => src.sound /\ ~src.over /\ b.kind # "bad"
  BY <1>1, HeldData
<1>3. /\ c = [method |-> c.method, inflater |-> c.inflater, crc |-> c.crc, pending |-> c.pending]
      /\ c.method \in {Stored, Deflate}
  BY DEF Summing, MemberDecoders
<1>4. SUFFICES ASSUME new.sound
               PROVE  /\ IF d.method = Stored THEN d.crc = new.len
                         ELSE Sane(d.inflater, new.len, new.over)
                      /\ d.inflater.fault = "none"
  BY <1>2 DEF Serves
<1>5. src.sound /\ ~src.over /\ b.kind # "bad"
  BY <1>2, <1>4
<1>6. CASE c.method = Stored
  <2>1. d.method = c.method /\ d.crc = c.crc + 1 /\ d.inflater = c.inflater
    BY <1>3, <1>6 DEF PushSource
  <2>2. c.crc = src.len
    BY <1>5, <1>6 DEF Serves
  <2> QED BY <1>1, <1>2, <1>6, <2>1, <2>2
<1>7. CASE c.method # Stored
  <2>1. b \in CompressedByte
    BY <1>7 DEF SourceBytes
  <2>2. PICK was \in BOOLEAN : was = src.over /\ ~was
    BY <1>5 DEF Sources
  <2>3. PICK over \in BOOLEAN : over = new.over /\ (over <=> b.kind = "last")
    BY <1>2 DEF Sources
  <2>4. PICK n \in Nat : n = src.len
    BY DEF Sources
  <2>5. Sane(c.inflater, n, was)
    BY <1>5, <1>7, <2>2, <2>4 DEF Serves
  <2>6. PICK i : i = PushByte(c.inflater, b)
    OBVIOUS
  <2>7. Sane(i, n + b.grows, over)
    BY <1>5, <2>1, <2>2, <2>3, <2>5, <2>6, SanePushed
  <2>8. PICK o : o = TakePending(i)
    OBVIOUS
  <2>9. Sane(o, n + b.grows, over)
    BY <2>7, <2>8, SaneTaken
  <2>10. d = Absorbed(c, i)
    BY <1>7, <2>6 DEF PushSource
  <2>11. d.inflater = o /\ d.method = c.method
    BY <1>3, <2>8, <2>10 DEF Absorbed
  <2>12. o.fault = "none"
    BY <2>9 DEF Sane
  <2> QED BY <1>2, <1>7, <2>3, <2>4, <2>9, <2>11, <2>12
<1> QED BY <1>6, <1>7

\* d differs from c in nothing but the decoder.
Redecoded(c, d, decoder) ==
  /\ IsCore(d) /\ SameNotes(c, d) /\ d.steps = c.steps /\ d.offset = c.offset
  /\ d.decoder = decoder /\ d.member = c.member /\ d.tail = c.tail /\ d.fault = c.fault
  /\ d.heard = c.heard /\ d.names = c.names

LEMMA DecoderSet ==
  ASSUME NEW c, IsCore(c), NEW decoder, NEW d, d = [c EXCEPT !.decoder = decoder]
  PROVE  Redecoded(c, d, decoder)
BY DEF IsCore, SameNotes, Redecoded

(* The notes stay true of the stream.                                       *)
LEMMA BookedSame ==
  ASSUME NEW base, NEW c, NEW s, NEW k \in Nat, NEW at, Booked(base, c, s, k, at),
         NEW decoder, NEW d, Redecoded(c, d, decoder)
  PROVE  Booked(base, d, s, k, at)
<1>1. IsCore(d) /\ SameNotes(c, d) /\ d.steps = c.steps /\ d.offset = c.offset
  BY DEF Redecoded
<1>2. Out(base, d, s)
  BY <1>1 DEF Booked, Out
<1>3. /\ d.entries = c.entries /\ d.check = c.check /\ d.observed = c.observed
      /\ d.heard.members = c.heard.members
  BY <1>1 DEF SameNotes
<1> QED BY <1>1, <1>2, <1>3 DEF Booked

\* What is noted of n bytes of content for the k-th member.
Fills(c, d, k, n) ==
  /\ IsCore(d) /\ d.entries = c.entries /\ d.check = c.check /\ d.observed = c.observed
  /\ c.observed => d.heard.members = [c.heard.members EXCEPT ![k].bytes = @ + n]
  /\ d.steps = Append(c.steps, Content(n)) /\ d.offset = c.offset + n

\* The content of the record at i has grown by n bytes.
Filled(s, t, i, n) ==
  /\ i \in 1..Len(s) /\ t[i] = s[i] /\ StartIn(t, i) = StartIn(s, i)
  /\ ContentIn(t, i) = ContentIn(s, i) + n /\ Enders(t, i) = {}

\* The k-th record is at i, and its content has not ended.
Opened(c, s, k, at, i) == k = Len(c.entries) + 1 /\ i = at[k] /\ Enders(s, i) = {}

(* Content is written.                                                      *)
LEMMA BookedFilled ==
  ASSUME NEW base, NEW c, NEW s, NEW k \in Nat, NEW at, Booked(base, c, s, k, at),
         NEW i, Opened(c, s, k, at, i), NEW n \in Nat, NEW d, Fills(c, d, k, n),
         NEW t, t = Append(s, Content(n))
  PROVE  Booked(base, d, t, k, at) /\ Filled(s, t, i, n)
<1>1. PICK p : p = Content(n)
  OBVIOUS
<1>2. p.length = n /\ p.length \in Nat /\ p.kind = "content" /\ p.kind # "local" /\ p.kind \notin Closers
  BY <1>1 DEF Content, Closers
<1>3. t = Append(s, p) /\ d.steps = Append(c.steps, p) /\ d.offset = c.offset + n
  BY <1>1 DEF Fills
<1>4. Out(base, c, s) /\ IsStream(s)
  BY OutIsStream DEF Booked
<1>5. Out(base, d, t)
  BY <1>2, <1>3, <1>4, OutGrows
<1>6. d.offset = Lengths(t)
  <2>1. c.offset = Lengths(s)
    BY DEF Booked
  <2>2. Lengths(t) = Lengths(s) + p.length
    BY <1>2, <1>3, <1>4, LengthsOf
  <2> QED BY <1>2, <1>3, <2>1, <2>2
<1>7. Marked(s, k, at) /\ at \in [1..k -> 1..Len(s)]
  BY DEF Booked, Marked
<1>8. Marked(t, k, at)
  BY <1>2, <1>3, <1>4, <1>7, MarkedKept
<1>9. c.entries \in Seq(EntryRecords) /\ Len(c.entries) \in Nat
  BY LenProperties DEF Booked, EntriesTrue
<1>10. k > 0 /\ k \in 1..k /\ k - 1 = Len(c.entries) /\ i = at[k] /\ Enders(s, i) = {}
  BY <1>9 DEF Opened
<1>11. i \in 1..Len(s)
  BY <1>7, <1>10
<1>12. Filled(s, t, i, n)
  <2>1. /\ t[i] = s[i] /\ StartIn(t, i) = StartIn(s, i)
        /\ ContentIn(t, i) = ContentIn(s, i) + p.length /\ Enders(t, i) = {}
    <3>1. IsStream(s) /\ t = Append(s, p) /\ p.length \in Nat /\ p.kind \notin Closers
          /\ Enders(s, i) = {}
      BY <1>2, <1>3, <1>4, <1>10
    <3> QED BY <3>1, <1>11, ContentGrows, Zenon
  <2> QED BY <1>2, <1>11, <2>1 DEF Filled
<1>13. \A m \in 1..k : m < k => Same(s, t, at[m])
  <2> SUFFICES ASSUME NEW m \in 1..k, m < k PROVE Same(s, t, at[m])
    OBVIOUS
  <2>1. PICK j \in 1..Len(s) : j = at[m]
    BY <1>7
  <2>2. Enders(s, j) # {}
    BY <2>1 DEF Booked, AllEnded
  <2> QED BY <1>2, <1>3, <1>4, <2>1, <2>2, SameKept
<1>14. AllEnded(t, k, at)
  BY <1>13 DEF Booked, AllEnded, Same
<1>15. EntriesTrue(d.entries, t, at)
  <2>1. EntriesTrue(c.entries, s, at) /\ d.entries = c.entries
    BY DEF Booked, Fills
  <2>2. \A m \in 1..Len(c.entries) : at[m] = at[m] /\ Same(s, t, at[m])
    <3>1. \A m \in 1..Len(c.entries) : m \in 1..k /\ m < k
      BY <1>9, <1>10
    <3> QED BY <1>13, <3>1
  <2> QED BY <2>1, <2>2, EntriesKept
<1>16. d.observed => HeardTrue(d.heard.members, t, k, at, Len(d.entries))
  <2>1. SUFFICES ASSUME d.observed PROVE HeardTrue(d.heard.members, t, k, at, Len(d.entries))
    OBVIOUS
  <2>2. /\ HeardTrue(c.heard.members, s, k, at, k - 1)
        /\ d.heard.members = [c.heard.members EXCEPT ![k].bytes = @ + n]
        /\ Len(d.entries) = k - 1
    BY <1>10, <2>1 DEF Booked, Fills
  <2>3. StartIn(t, at[k]) = StartIn(s, at[k]) /\ ContentIn(t, at[k]) = ContentIn(s, at[k]) + n
    BY <1>10, <1>12 DEF Filled
  <2>4. HeardTrue(d.heard.members, t, k, at, k - 1)
    BY <1>10, <1>13, <2>2, <2>3, HeardMore
  <2> QED BY <2>2, <2>4
<1>17. CheckTrue(d.check, t, k, at)
  <2>1. CheckTrue(c.check, s, k, at) /\ d.check = c.check
    BY DEF Booked, Fills
  <2>2. ASSUME NEW m \in 1..k PROVE t[at[m]] = s[at[m]]
    <3>1. CASE m = k
      BY <1>10, <1>12, <3>1 DEF Filled
    <3>2. CASE m # k
      <4>1. m < k
        BY <3>2
      <4> QED BY <1>13, <4>1 DEF Same
    <3> QED BY <3>1, <3>2
  <2> QED BY <2>1, <2>2, CheckKept
<1>18. IsCore(d) /\ Len(d.entries) <= k
  BY <1>9, <1>10 DEF Fills
<1>19. Booked(base, d, t, k, at)
  BY <1>5, <1>6, <1>8, <1>14, <1>15, <1>16, <1>17, <1>18 DEF Booked
<1> QED BY <1>12, <1>19

\* Within a member, what is pending aside.
Filling(base, c, s, k, at, i) ==
  /\ Booked(base, c, s, k, at) /\ Opened(c, s, k, at, i)
  /\ c.fault = "none" /\ ~c.tail /\ c.decoder # NoDecoder
  /\ OpenTrue(c.member, c.decoder, s, i)

\* What draining the decoder leaves as it was.
Drained(c, d) ==
  /\ d.decoder = [c.decoder EXCEPT !.pending = 0] /\ d.member = c.member
  /\ d.check = c.check /\ d.observed = c.observed /\ d.entries = c.entries

(* The observer hears of content.                                           *)
LEMMA HeardBytesIs ==
  ASSUME NEW c, IsCore(c), NEW k, NEW n, c.observed => Len(c.heard.members) = k,
         NEW d, d = HeardBytes(c, n)
  PROVE  /\ IsCore(d) /\ d.entries = c.entries /\ d.check = c.check /\ d.observed = c.observed
         /\ c.observed => d.heard.members = [c.heard.members EXCEPT ![k].bytes = @ + n]
         /\ d.steps = c.steps /\ d.offset = c.offset /\ d.decoder = c.decoder
         /\ d.member = c.member /\ d.tail = c.tail /\ d.fault = c.fault
<1>1. CASE ~c.observed
  <2>1. d = c
    BY <1>1 DEF HeardBytes
  <2> QED BY <1>1, <2>1
<1>2. CASE c.observed
  <2>1. PICK members : members = [c.heard.members EXCEPT ![k].bytes = @ + n]
    OBVIOUS
  <2>2. d = [c EXCEPT !.heard.members[k].bytes = @ + n]
    BY <1>2 DEF HeardBytes
  <2>3. PICK heard : heard = [members |-> members, end |-> c.heard.end]
    OBVIOUS
  <2>4. d = [c EXCEPT !.heard = heard]
    <3>1. c.heard = [members |-> c.heard.members, end |-> c.heard.end]
      BY DEF IsCore
    <3>2. [c.heard EXCEPT !.members[k].bytes = @ + n] = heard
      BY <2>1, <2>3, <3>1
    <3> QED BY <2>2, <3>2 DEF IsCore
  <2>5. /\ d.entries = c.entries /\ d.check = c.check /\ d.observed = c.observed
        /\ d.heard = heard /\ d.steps = c.steps /\ d.offset = c.offset /\ d.decoder = c.decoder
        /\ d.member = c.member /\ d.tail = c.tail /\ d.fault = c.fault
    BY <2>4 DEF IsCore
  <2>6. IsCore(d)
    <3>1. d = [check |-> d.check, decoder |-> d.decoder, member |-> d.member,
               entries |-> d.entries, names |-> d.names, offset |-> d.offset, tail |-> d.tail,
               fault |-> d.fault, steps |-> d.steps, observed |-> d.observed, heard |-> d.heard]
      BY <2>4 DEF IsCore
    <3>2. d.heard = [members |-> d.heard.members, end |-> d.heard.end]
      BY <2>3, <2>5
    <3> QED BY <2>5, <3>1, <3>2 DEF IsCore
  <2>7. d.heard.members = members
    BY <2>3, <2>5
  <2> QED BY <2>1, <2>5, <2>6, <2>7
<1> QED BY <1>1, <1>2 DEF IsCore

(* What is pending is written.                                              *)
LEMMA DrainFills ==
  ASSUME NEW base, NEW c, NEW s, NEW k \in Nat, NEW at, NEW i, Filling(base, c, s, k, at, i),
         NEW d, d = DrainDecoder(c)
  PROVE  /\ Drained(c, d)
         /\ \E t : /\ Filling(base, d, t, k, at, i) /\ d.decoder.pending = 0
                  /\ t[i] = s[i] /\ StartIn(t, i) = StartIn(s, i)
<1>1. /\ Booked(base, c, s, k, at) /\ Opened(c, s, k, at, i) /\ IsCore(c)
      /\ c.fault = "none" /\ ~c.tail /\ c.decoder # NoDecoder
      /\ OpenTrue(c.member, c.decoder, s, i)
  BY DEF Filling, Booked
<1>2. PICK n \in Nat : n = c.decoder.pending
  BY <1>1 DEF OpenTrue, Summing, MemberDecoders
<1>3. PICK dec : dec = [c.decoder EXCEPT !.pending = 0]
  OBVIOUS
<1>4. /\ c.decoder = [method |-> c.decoder.method, inflater |-> c.decoder.inflater,
                      crc |-> c.decoder.crc, pending |-> n]
      /\ c.decoder.method \in {Stored, Deflate} /\ c.decoder.crc \in Nat
      /\ c.decoder.inflater \in Inflaters
  BY <1>1, <1>2 DEF OpenTrue, Summing, MemberDecoders
<1>5. /\ dec = [method |-> c.decoder.method, inflater |-> c.decoder.inflater,
                crc |-> c.decoder.crc, pending |-> 0]
      /\ dec.method = c.decoder.method /\ dec.inflater = c.decoder.inflater
      /\ dec.crc = c.decoder.crc /\ dec.pending = 0
  BY <1>3, <1>4
<1>6. Summing(dec)
  <2>1. dec \in MemberDecoders
    BY <1>4, <1>5 DEF MemberDecoders
  <2> QED BY <1>1, <1>5, <2>1 DEF OpenTrue, Summing
<1>7. dec # NoDecoder
  BY <1>4, <1>5 DEF NoDecoder, Stored, Deflate
<1>8. CASE n = 0
  <2>1. d = c /\ c.decoder = dec
    BY <1>2, <1>4, <1>5, <1>8 DEF DrainDecoder
  <2> QED BY <1>3, <1>5, <2>1 DEF Drained
<1>9. CASE n # 0
  <2>1. PICK e : e = [c EXCEPT !.decoder = dec]
    OBVIOUS
  <2>2. Redecoded(c, e, dec)
    BY <1>1, <2>1, DecoderSet
  <2>3. Booked(base, e, s, k, at) /\ IsCore(e)
    BY <1>1, <2>2, BookedSame DEF Redecoded
  <2>4. /\ e.entries = c.entries /\ e.check = c.check /\ e.observed = c.observed
        /\ e.heard.members = c.heard.members /\ e.decoder = dec /\ e.member = c.member
        /\ e.tail = c.tail /\ e.fault = c.fault
    BY <2>2 DEF Redecoded, SameNotes
  <2>5. PICK g : g = HeardBytes(e, n)
    OBVIOUS
  <2>6. e.observed => Len(e.heard.members) = k
    BY <2>3 DEF Booked, HeardTrue
  <2>7. /\ IsCore(g) /\ g.entries = e.entries /\ g.check = e.check /\ g.observed = e.observed
        /\ e.observed => g.heard.members = [e.heard.members EXCEPT ![k].bytes = @ + n]
        /\ g.steps = e.steps /\ g.offset = e.offset /\ g.decoder = e.decoder
        /\ g.member = e.member /\ g.tail = e.tail /\ g.fault = e.fault
    BY <2>3, <2>5, <2>6, HeardBytesIs
  <2>8. PICK p : p = Content(n)
    OBVIOUS
  <2>9. d = Enqueue(g, p)
    <3>1. [c EXCEPT !.decoder.pending = 0] = e
      BY <1>1, <1>3, <2>1 DEF IsCore
    <3> QED BY <1>2, <1>9, <2>5, <2>8, <3>1 DEF DrainDecoder
  <2>10. Queues(g, d, p) /\ d.offset = g.offset + p.length
    BY <2>7, <2>9, EnqueueQueues
  <2>11. /\ IsCore(d) /\ d.steps = Append(g.steps, p) /\ d.decoder = dec /\ d.member = c.member
         /\ d.tail = c.tail /\ d.fault = c.fault /\ d.entries = e.entries /\ d.check = e.check
         /\ d.observed = e.observed /\ d.heard.members = g.heard.members
    BY <2>4, <2>7, <2>10 DEF Queues, SameNotes
  <2>12. p.length = n
    BY <2>8 DEF Content
  <2>13. Fills(e, d, k, n)
    BY <2>7, <2>8, <2>10, <2>11, <2>12 DEF Fills
  <2>14. PICK t : t = Append(s, Content(n))
    OBVIOUS
  <2>15. Opened(e, s, k, at, i)
    BY <1>1, <2>4 DEF Opened
  <2>16. Booked(base, d, t, k, at) /\ Filled(s, t, i, n)
    BY <2>3, <2>13, <2>14, <2>15, BookedFilled
  <2>17. Opened(d, t, k, at, i)
    BY <2>11, <2>15, <2>16 DEF Opened, Filled
  <2>18. OpenTrue(d.member, d.decoder, t, i)
    <3>1. dec.crc = ContentIn(t, i) + dec.pending
      <4>1. c.decoder.crc = ContentIn(s, i) + n /\ ContentIn(t, i) = ContentIn(s, i) + n
        BY <1>1, <1>2, <2>16 DEF OpenTrue, Filled
      <4>2. c.decoder.crc + 0 = c.decoder.crc
        BY <1>4
      <4> QED BY <1>5, <4>1, <4>2
    <3> QED BY <1>1, <1>6, <2>11, <2>16, <3>1 DEF OpenTrue, Filled
  <2>19. Filling(base, d, t, k, at, i)
    BY <1>1, <1>7, <2>11, <2>16, <2>17, <2>18 DEF Filling
  <2>20. Drained(c, d)
    BY <1>3, <2>4, <2>11 DEF Drained
  <2> QED BY <1>5, <2>11, <2>16, <2>19, <2>20 DEF Filled
<1> QED BY <1>8, <1>9

\* What is told of an event leaves the rest of the notes as they were.
Keeps(c, d) == d.check.expected = c.check.expected /\ d.observed = c.observed

(* A byte of data within a member.                                          *)
LEMMA DataTold ==
  ASSUME NEW base, NEW c, NEW src \in Sources, InMember(base, c, src),
         NEW b \in SourceBytes(src.method), NEW d, d = OnData(c, b),
         NEW new, new = Held(src, Event("data", b))
  PROVE  /\ new \in Sources /\ d.fault \in Faults
         /\ d.fault # "none" => ~new.sound /\ Refused(base, d)
         /\ d.fault = "none" => InMember(base, d, new) /\ Keeps(c, d)
<1>1. PICK s : \E k \in Nat : \E at :
                  /\ Within(base, c, s, k, at) /\ Linked(c.member, c.decoder, s, at[k], src)
                  /\ c.decoder.inflater.fault = "none"
  BY DEF InMember
<1>2. PICK k \in Nat : \E at :
                  /\ Within(base, c, s, k, at) /\ Linked(c.member, c.decoder, s, at[k], src)
                  /\ c.decoder.inflater.fault = "none"
  BY <1>1
<1>3. PICK at : /\ Within(base, c, s, k, at) /\ Linked(c.member, c.decoder, s, at[k], src)
                /\ c.decoder.inflater.fault = "none"
  BY <1>2
<1>4. PICK i : i = at[k]
  OBVIOUS
<1>5. /\ Booked(base, c, s, k, at) /\ IsCore(c) /\ k = Len(c.entries) + 1 /\ c.fault = "none"
      /\ c.decoder # NoDecoder /\ ~c.tail
      /\ OpenTrue(c.member, c.decoder, s, i) /\ c.decoder.pending = 0
  BY <1>3, <1>4 DEF Within, Booked
<1>6. Summing(c.decoder) /\ b \in SourceBytes(c.decoder.method) /\ Serves(c.decoder, src)
  BY <1>3, <1>5 DEF OpenTrue, Linked, Serves
<1>7. PICK dec : dec = PushSource(c.decoder, b)
  OBVIOUS
<1>8. Summing(dec) /\ dec # NoDecoder
  <2>1. Summing(dec)
    BY <1>6, <1>7, SourcePushed
  <2>2. dec.method \in {Stored, Deflate}
    BY <2>1 DEF Summing, MemberDecoders
  <2> QED BY <2>1, <2>2 DEF NoDecoder, Stored, Deflate
<1>9. PICK x \in Nat : Summed(c.decoder, dec, x)
  BY <1>6, <1>7, SourcePushed
<1>10. Serves(dec, new) /\ new \in Sources /\ (new.sound => dec.inflater.fault = "none")
  BY <1>3, <1>6, <1>7, SourceServes
<1>11. PICK c1 : c1 = [c EXCEPT !.decoder = dec]
  OBVIOUS
<1>12. Redecoded(c, c1, dec)
  BY <1>5, <1>11, DecoderSet
<1>13. Booked(base, c1, s, k, at)
  BY <1>5, <1>12, BookedSame
<1>14. /\ IsCore(c1) /\ c1.entries = c.entries /\ c1.check = c.check /\ c1.observed = c.observed
       /\ c1.decoder = dec /\ c1.member = c.member /\ c1.tail = c.tail /\ c1.fault = c.fault
  BY <1>12 DEF Redecoded, SameNotes
<1>15. OpenTrue(c1.member, c1.decoder, s, i)
  <2>1. dec.crc = ContentIn(s, i) + dec.pending
    <3>1. PICK y \in Nat : y = c.decoder.crc
      BY <1>6 DEF Summing, MemberDecoders
    <3>2. y = ContentIn(s, i) + 0 /\ dec.crc = y + x /\ dec.pending = 0 + x
      BY <1>5, <1>9, <3>1 DEF OpenTrue, Summed
    <3>3. IsStream(s) /\ i \in 1..Len(s)
      <4>1. Out(base, c, s) /\ at \in [1..k -> 1..Len(s)]
        BY <1>5 DEF Booked, Marked
      <4>2. k \in 1..k
        <5>1. c.entries \in Seq(EntryRecords)
          BY <1>5 DEF Booked, EntriesTrue
        <5>2. Len(c.entries) \in Nat
          BY <5>1, LenProperties
        <5> QED BY <1>5, <5>2
      <4> QED BY <1>4, <4>1, <4>2, OutIsStream
    <3>4. ContentIn(s, i) \in Nat
      BY <3>3, ContentTyped
    <3> QED BY <3>2, <3>4
  <2> QED BY <1>5, <1>8, <1>14, <2>1 DEF OpenTrue
<1>16. Filling(base, c1, s, k, at, i)
  <2>1. Opened(c1, s, k, at, i)
    BY <1>4, <1>5, <1>14 DEF Opened, OpenTrue
  <2> QED BY <1>5, <1>8, <1>13, <1>14, <1>15, <2>1 DEF Filling
<1>17. d = Pushed(c1)
  <2>1. [c EXCEPT !.decoder = PushSource(@, b)] = c1
    BY <1>5, <1>7, <1>11 DEF IsCore
  <2> QED BY <1>5, <2>1 DEF OnData
<1>18. CASE dec.inflater.fault # "none"
  <2>1. d = Fail(c1, dec.inflater.fault)
    BY <1>14, <1>17, <1>18 DEF Pushed
  <2>2. d.fault = dec.inflater.fault
    BY <1>5, <1>14, <2>1 DEF Fail, IsCore
  <2>3. d.fault \in Faults
    BY <1>8, <2>2 DEF Summing, MemberDecoders, Inflaters, Faults, DecodeFaults
  <2>4. Refused(base, d)
    <3>1. k <= Len(c1.entries) + 1 /\ ~c1.tail
      BY <1>5, <1>14
    <3> QED BY <1>13, <2>1, <3>1, FailRefuses
  <2> QED BY <1>10, <1>18, <2>2, <2>3, <2>4
<1>19. CASE dec.inflater.fault = "none"
  <2>1. d = DrainDecoder(c1)
    BY <1>14, <1>17, <1>19 DEF Pushed
  <2>2. Drained(c1, d)
    BY <1>16, <2>1, DrainFills
  <2>3. PICK t : /\ Filling(base, d, t, k, at, i) /\ d.decoder.pending = 0
                 /\ t[i] = s[i] /\ StartIn(t, i) = StartIn(s, i)
    BY <1>16, <2>1, DrainFills
  <2>4. /\ d.decoder.method = dec.method /\ d.decoder.inflater = dec.inflater
        /\ d.decoder.crc = dec.crc /\ d.member = c.member /\ d.check = c.check
        /\ d.observed = c.observed
    BY <1>8, <1>14, <2>2 DEF Drained, Summing, MemberDecoders
  <2>5. /\ new.method = src.method /\ new.known = src.known /\ new.claim = src.claim
        /\ new.crc = src.crc
    <3>1. b.grows \in Nat
      <4>1. CASE src.method = Stored
        BY <4>1 DEF SourceBytes
      <4>2. CASE src.method # Stored
        <5>1. b \in CompressedByte
          BY <4>2 DEF SourceBytes
        <5> QED BY <5>1, InflaterAssumption DEF CompressedByte
      <4> QED BY <4>1, <4>2
    <3> QED BY <3>1, HeldData
  <2>6. Linked(d.member, d.decoder, t, at[k], new)
    <3>1. /\ src.method = c.decoder.method /\ src.known = c.member.known
          /\ src.crc = c.member.crc
          /\ src.known => s[i].size = Field(src.claim, NeedsZip64(src.claim))
      BY <1>3, <1>4 DEF Linked
    <3>2. dec.method = c.decoder.method
      BY <1>9 DEF Summed
    <3>3. new.sound => IF d.decoder.method = Stored THEN d.decoder.crc = new.len
                       ELSE Sane(d.decoder.inflater, new.len, new.over)
      BY <1>10, <2>4 DEF Serves
    <3> QED BY <1>4, <2>3, <2>4, <2>5, <3>1, <3>2, <3>3 DEF Linked
  <2>7. Within(base, d, t, k, at)
    BY <1>4, <2>3 DEF Filling, Opened, Within
  <2>8. InMember(base, d, new)
    BY <1>19, <2>4, <2>6, <2>7 DEF InMember
  <2>9. d.fault = "none" /\ Keeps(c, d)
    BY <2>3, <2>4 DEF Filling, Keeps
  <2> QED BY <1>10, <2>8, <2>9 DEF Faults
<1> QED BY <1>18, <1>19

(***************************************************************************)
(* It ends.                                                                *)
(***************************************************************************)
(* Closed, the decoder has summed all that came out.                        *)
LEMMA ClosedSums ==
  ASSUME NEW c, Summing(c), NEW d, d = CloseDecoder(c)
  PROVE  /\ Summing(d) /\ DecodedLen(d) = d.crc
         /\ \E x \in Nat : Summed(c, d, x)
<1>1. /\ c.crc \in Nat /\ c.pending \in Nat /\ c.method \in {Stored, Deflate}
      /\ c.inflater \in Inflaters
  BY DEF Summing, MemberDecoders
<1>2. Summing(d) /\ \E x \in Nat : Summed(c, d, x)
  <2>1. CASE c.method = Stored
    <3>1. d = c
      BY <2>1 DEF CloseDecoder
    <3>2. Summed(c, d, 0)
      BY <1>1, <3>1 DEF Summed
    <3> QED BY <3>1, <3>2
  <2>2. CASE c.method # Stored
    <3>1. PICK i : i = CloseInflater(c.inflater)
      OBVIOUS
    <3>2. Handed(c.inflater, i)
      BY <1>1, <3>1, CloseHands
    <3>3. d = Absorbed(c, i) /\ c.method = Deflate
      BY <1>1, <2>2, <3>1 DEF CloseDecoder
    <3> QED BY <3>2, <3>3, AbsorbedSums
  <2> QED BY <2>1, <2>2
<1>3. DecodedLen(d) = d.crc
  <2>1. CASE d.method = Stored
    BY <2>1 DEF DecodedLen
  <2>2. CASE d.method # Stored
    <3>1. d.method = Deflate
      BY <1>2, <2>2 DEF Summing, MemberDecoders
    <3>2. d.crc = d.inflater.produced
      BY <1>2, <3>1 DEF Summing
    <3> QED BY <2>2, <3>2 DEF DecodedLen
  <2> QED BY <2>1, <2>2
<1> QED BY <1>2, <1>3

(* What the ghost holds behind a member.                                    *)
LEMMA HeldEnd ==
  ASSUME NEW src \in Sources, NEW claim, NEW new, new = Held(src, Event("end", claim))
  PROVE  /\ new \in Sources
         /\ new.sound => /\ src.sound /\ (src.method = Deflate => src.over)
                         /\ claim.len = src.len /\ claim.crc = src.len
                         /\ (src.known => src.crc = src.len)
<1>1. PICK e : e = Event("end", claim)
  OBVIOUS
<1>2. e.kind = "end" /\ e.of = claim
  BY <1>1 DEF Event
<1>3. PICK sound \in BOOLEAN : sound <=> /\ src.sound /\ (src.method = Deflate => src.over)
                                         /\ claim.len = src.len /\ claim.crc = src.len
                                         /\ (src.known => src.crc = src.len)
  OBVIOUS
<1>4. new = [src EXCEPT !.sound = sound]
  <2>1. Held(src, e) =
          [src EXCEPT !.sound =
            /\ @ /\ (src.method = Deflate => src.over)
            /\ claim.len = src.len /\ claim.crc = src.len /\ (src.known => src.crc = src.len)]
    BY <1>2 DEF Held
  <2> QED BY <1>1, <1>3, <2>1 DEF Sources
<1>5. new \in Sources /\ new.sound = sound
  BY <1>4 DEF Sources
<1> QED BY <1>3, <1>5

(* The stream of a sound member is whole.                                   *)
LEMMA SoundCloses ==
  ASSUME NEW c, Summing(c), c.inflater.fault = "none", NEW src \in Sources, Serves(c, src),
         c.method = src.method, src.sound, src.method = Deflate => src.over,
         NEW d, d = CloseDecoder(c)
  PROVE  d.inflater.fault = "none" /\ d.crc = src.len
<1>1. c.method \in {Stored, Deflate} /\ c.inflater \in Inflaters
  BY DEF Summing, MemberDecoders
<1>2. CASE c.method = Stored
  <2>1. d = c
    BY <1>2 DEF CloseDecoder
  <2> QED BY <1>2, <2>1 DEF Serves
<1>3. CASE c.method # Stored
  <2>1. c.method = Deflate
    BY <1>1, <1>3
  <2>2. PICK over \in BOOLEAN : over = src.over /\ over
    BY <2>1 DEF Sources
  <2>3. Sane(c.inflater, src.len, over)
    BY <1>3, <2>2 DEF Serves
  <2>4. PICK o : o = CloseInflater(c.inflater)
    OBVIOUS
  <2>5. o \in Inflaters /\ o.fault = "none" /\ o.produced = src.len
    BY <2>2, <2>3, <2>4, SaneClosed
  <2>6. d = Absorbed(c, o)
    BY <1>3, <2>4 DEF CloseDecoder
  <2>7. Handed(c.inflater, o)
    BY <1>1, <2>4, CloseHands
  <2>8. Summing(d) /\ d.inflater = TakePending(o) /\ d.inflater.fault = o.fault
    BY <2>1, <2>6, <2>7, AbsorbedSums
  <2>9. d.inflater.produced = src.len
    BY <2>5, <2>8 DEF TakePending, Inflaters
  <2>10. d.method = Deflate
    BY <2>1, <2>6 DEF Absorbed, Summing, MemberDecoders
  <2>11. d.crc = d.inflater.produced
    BY <2>8, <2>10 DEF Summing
  <2> QED BY <2>5, <2>8, <2>9, <2>11
<1> QED BY <1>2, <1>3

(* What is claimed of n bytes, if no fault is found or one of content.      *)
LEMMA ClaimFaults ==
  ASSUME NEW c, NEW claim, NEW n, c.decoder.crc = n, NEW fault, fault = ClaimFault(c, claim, n)
  PROVE  /\ fault \in Faults
         /\ fault = "none" => n = claim.len
         /\ fault \in DecodeFaults => \/ n # claim.len
                                      \/ n # claim.crc
                                      \/ c.member.known /\ n # c.member.crc
<1>1. CASE n # claim.len
  <2>1. fault = "InflatedSizeMismatch"
    BY <1>1 DEF ClaimFault
  <2> QED BY <1>1, <2>1 DEF Faults, DecodeFaults
<1>2. CASE n = claim.len /\ (n # claim.crc \/ (c.member.known /\ n # c.member.crc))
  <2>1. fault = "CrcMismatch"
    BY <1>2 DEF ClaimFault
  <2> QED BY <1>2, <2>1 DEF Faults, DecodeFaults
<1>3. CASE n = claim.len /\ ~(n # claim.crc \/ (c.member.known /\ n # c.member.crc))
  <2>1. fault \in {"UnknownSizeMemberTooLarge", "none"}
    BY <1>3 DEF ClaimFault
  <2> QED BY <1>3, <2>1 DEF Faults, DecodeFaults
<1> QED BY <1>1, <1>2, <1>3

\* The member's descriptor, if it needs one, is about to be drained.
Described(c, n) ==
  IF c.member.known THEN c ELSE Enqueue(c, DescriptorRecord(c.decoder.crc, n))

EntryOf(c, n) ==
  [name |-> c.member.name, crc |-> c.decoder.crc, len |-> n, at |-> c.member.at,
   descriptor |-> ~c.member.known]

\* What closing the k-th member notes of it.
Closes(e, d, k, n, entry) ==
  /\ IsCore(d) /\ d.check = e.check /\ d.entries = Append(e.entries, entry)
  /\ d.decoder = NoDecoder /\ d.offset = e.offset /\ d.steps = e.steps /\ d.tail = e.tail
  /\ d.fault = e.fault /\ d.observed = e.observed
  /\ e.observed => d.heard.members = [e.heard.members EXCEPT ![k].len = n]

LEMMA ClosesIs ==
  ASSUME NEW c, IsCore(c), NEW n, NEW e, e = Described(c, n), NEW k,
         c.observed => Len(c.heard.members) = k,
         NEW entry, entry = EntryOf(c, n), NEW d, d = Closed(c, n)
  PROVE  Closes(e, d, k, n, entry)
<1>1. IsCore(e) /\ e.observed = c.observed /\ e.heard.members = c.heard.members
  <2>1. CASE c.member.known
    BY <2>1 DEF Described
  <2>2. CASE ~c.member.known
    <3>1. PICK p : p = DescriptorRecord(c.decoder.crc, n)
      OBVIOUS
    <3>2. e = Enqueue(c, p)
      BY <2>2, <3>1 DEF Described
    <3>3. Queues(c, e, p)
      BY <3>2, EnqueueQueues
    <3> QED BY <3>3 DEF Queues, SameNotes
  <2> QED BY <2>1, <2>2
<1>2. PICK members : members = IF c.observed THEN [e.heard.members EXCEPT ![k].len = n]
                               ELSE e.heard.members
  OBVIOUS
<1>3. PICK heard : heard = [members |-> members, end |-> e.heard.end]
  OBVIOUS
<1>4. d = [e EXCEPT !.entries = Append(@, entry), !.member = NoMember, !.decoder = NoDecoder,
                    !.heard.members = IF c.observed
                      THEN [@ EXCEPT ![Len(c.heard.members)].len = n] ELSE @]
  BY DEF Closed, Described, EntryOf
<1>5. d = [e EXCEPT !.entries = Append(e.entries, entry), !.member = NoMember,
                    !.decoder = NoDecoder, !.heard = heard]
  <2>1. e.heard = [members |-> e.heard.members, end |-> e.heard.end]
    BY <1>1 DEF IsCore
  <2>2. [e.heard EXCEPT !.members = IF c.observed
                      THEN [@ EXCEPT ![Len(c.heard.members)].len = n] ELSE @] = heard
    BY <1>2, <1>3, <2>1
  <2> QED BY <1>1, <1>4, <2>2 DEF IsCore
<1>6. /\ d.check = e.check /\ d.entries = Append(e.entries, entry)
      /\ d.decoder = NoDecoder /\ d.offset = e.offset /\ d.steps = e.steps /\ d.tail = e.tail
      /\ d.fault = e.fault /\ d.observed = e.observed /\ d.heard = heard
  BY <1>1, <1>5 DEF IsCore
<1>7. IsCore(d)
  <2>1. d = [check |-> d.check, decoder |-> d.decoder, member |-> d.member, entries |-> d.entries,
             names |-> d.names, offset |-> d.offset, tail |-> d.tail, fault |-> d.fault,
             steps |-> d.steps, observed |-> d.observed, heard |-> d.heard]
    BY <1>1, <1>5 DEF IsCore
  <2>2. d.heard = [members |-> d.heard.members, end |-> d.heard.end]
    BY <1>3, <1>6
  <2> QED BY <1>1, <1>6, <2>1, <2>2 DEF IsCore
<1>8. e.observed => d.heard.members = [e.heard.members EXCEPT ![k].len = n]
  BY <1>1, <1>2, <1>3, <1>6
<1> QED BY <1>6, <1>7, <1>8 DEF Closes

\* The k-th record ends with n bytes of content, and e notes so.
Fulfilled(e, t, k, at, entry, n) ==
  /\ k = Len(e.entries) + 1 /\ ContentIn(t, at[k]) = n
  /\ entry \in EntryRecords /\ EntryTrue(entry, t, at[k])

(* What is noted of a closed member is true.                                *)
LEMMA BookedClosed ==
  ASSUME NEW base, NEW e, NEW t, NEW k \in Nat, NEW at, Booked(base, e, t, k, at),
         NEW n \in Nat, NEW entry, Fulfilled(e, t, k, at, entry, n),
         NEW d, Closes(e, d, k, n, entry)
  PROVE  Booked(base, d, t, k, at) /\ k = Len(d.entries)
<1>1. /\ IsCore(d) /\ d.check = e.check /\ d.entries = Append(e.entries, entry)
      /\ d.offset = e.offset /\ d.steps = e.steps
      /\ d.observed = e.observed
      /\ e.observed => d.heard.members = [e.heard.members EXCEPT ![k].len = n]
  BY DEF Closes
<1>2. EntriesTrue(e.entries, t, at) /\ e.entries \in Seq(EntryRecords) /\ Len(e.entries) \in Nat
  BY LenProperties DEF Booked, EntriesTrue
<1>3. PICK z \in Nat : z = Len(e.entries) /\ k = z + 1
  BY <1>2 DEF Fulfilled
<1>4. EntriesTrue(d.entries, t, at) /\ Len(d.entries) = k
  <2>1. EntryTrue(entry, t, at[Len(e.entries) + 1]) /\ entry \in EntryRecords
    BY <1>3 DEF Fulfilled
  <2> QED BY <1>1, <1>2, <1>3, <2>1, EntriesGrow
<1>5. d.observed => HeardTrue(d.heard.members, t, k, at, Len(d.entries))
  <2>1. SUFFICES ASSUME d.observed PROVE HeardTrue(d.heard.members, t, k, at, k)
    BY <1>4
  <2>2. HeardTrue(e.heard.members, t, k, at, k - 1)
    <3>1. k - 1 = z
      BY <1>3
    <3> QED BY <1>1, <1>3, <2>1, <3>1 DEF Booked
  <2>3. n = ContentIn(t, at[k]) /\ k > 0
    BY <1>3 DEF Fulfilled
  <2>4. d.heard.members = [e.heard.members EXCEPT ![k].len = n]
    BY <1>1, <2>1
  <2> QED BY <2>2, <2>3, <2>4, HeardLen
<1>6. Out(base, d, t)
  BY <1>1 DEF Booked, Out
<1> QED BY <1>1, <1>4, <1>5, <1>6 DEF Booked

\* Behind a member.
BehindMember(base, c) == \E s : \E k \in Nat : \E at : AtRest(base, c, s, k, at)

(* A member closed.                                                         *)
LEMMA ClosedIsBehind ==
  ASSUME NEW base, NEW c, NEW s, NEW k \in Nat, NEW at, NEW i, Filling(base, c, s, k, at, i),
         c.decoder.pending = 0, NEW n, n = c.decoder.crc,
         c.member.known \in BOOLEAN,
         c.member.known => s[i].size = Field(n, NeedsZip64(n)),
         NEW d, d = Closed(c, n)
  PROVE  BehindMember(base, d) /\ Keeps(c, d) /\ d.fault = "none"
<1>1. /\ Booked(base, c, s, k, at) /\ Opened(c, s, k, at, i) /\ IsCore(c)
      /\ c.fault = "none" /\ ~c.tail /\ OpenTrue(c.member, c.decoder, s, i)
  BY DEF Filling, Booked
<1>2. c.entries \in Seq(EntryRecords) /\ Len(c.entries) \in Nat
  BY <1>1, LenProperties DEF Booked, EntriesTrue
<1>3. k = Len(c.entries) + 1 /\ i = at[k] /\ k \in 1..k
  BY <1>1, <1>2 DEF Opened
<1>4. i \in 1..Len(s) /\ IsStream(s)
  BY <1>1, <1>3, OutIsStream DEF Booked, Marked
<1>5. n \in Nat /\ ContentIn(s, i) = n /\ StartIn(s, i) \in Nat
  <2>1. ContentIn(s, i) \in Nat /\ StartIn(s, i) \in Nat
    BY <1>4, ContentTyped
  <2>2. n = ContentIn(s, i) + 0
    BY <1>1 DEF OpenTrue
  <2> QED BY <2>1, <2>2
<1>6. PICK entry : entry = EntryOf(c, n)
  OBVIOUS
<1>7. /\ c.member.name = s[i].name /\ c.member.at = StartIn(s, i) /\ c.member.known = s[i].known
  BY <1>1 DEF OpenTrue
<1>8. entry \in EntryRecords /\ EntryTrue(entry, s, i)
  <2>1. PICK no \in BOOLEAN : no = ~c.member.known
    OBVIOUS
  <2>2. entry = [name |-> c.member.name, crc |-> n, len |-> n, at |-> c.member.at,
                 descriptor |-> no]
    BY <1>6, <2>1 DEF EntryOf
  <2>3. s[i].name \in DOMAIN NameLen
    BY <1>1, <1>3 DEF Booked, CheckTrue
  <2>4. entry \in EntryRecords
    BY <1>5, <1>7, <2>2, <2>3 DEF EntryRecords
  <2>5. /\ entry.name = c.member.name /\ entry.crc = n /\ entry.len = n
        /\ entry.at = c.member.at /\ entry.descriptor = no
    BY <2>2
  <2>6. entry.descriptor = ~s[i].known
    BY <1>7, <2>1, <2>5
  <2>7. s[i].known => s[i].size = Field(n, NeedsZip64(n))
    BY <1>7
  <2> QED BY <1>5, <1>7, <2>4, <2>5, <2>6, <2>7 DEF EntryTrue
<1>9. PICK e : e = Described(c, n)
  OBVIOUS
<1>10. \E t : Booked(base, e, t, k, at) /\ Same(s, t, i) /\ SameNotes(c, e)
              /\ e.tail = c.tail /\ e.fault = c.fault
  <2>1. CASE c.member.known
    <3>1. e = c
      BY <1>9, <2>1 DEF Described
    <3>2. Same(s, s, i)
      BY <1>4 DEF Same
    <3> QED BY <1>1, <3>1, <3>2 DEF SameNotes
  <2>2. CASE ~c.member.known
    <3>1. PICK p : p = DescriptorRecord(c.decoder.crc, n)
      OBVIOUS
    <3>2. e = Enqueue(c, p)
      BY <1>9, <2>2, <3>1 DEF Described
    <3>3. Queues(c, e, p) /\ e.offset = c.offset + p.length
      BY <1>1, <3>2, EnqueueQueues
    <3>4. p.length = 1 /\ p.kind = "descriptor" /\ p.kind # "local" /\ p.kind \in Closers
      BY <3>1 DEF DescriptorRecord, Closers
    <3>5. PICK t : t = Append(s, p)
      OBVIOUS
    <3>6. IsCore(e) /\ SameNotes(c, e) /\ e.steps = Append(c.steps, p)
      BY <3>3 DEF Queues
    <3>7. /\ Booked(base, e, t, k, at)
          /\ \A m \in 1..k : Same(s, t, at[m])
      <4>1. e.offset = c.offset + p.length /\ p.length \in Nat
        BY <3>3, <3>4
      <4>2. \A m \in 1..k : Enders(s, at[m]) # {} \/ p.kind \in Closers \/ p.length = 0
        BY <3>4
      <4>3. Booked(base, c, s, k, at) /\ p.kind # "local"
        BY <1>1, <3>4
      <4> QED BY <3>5, <3>6, <4>1, <4>2, <4>3, BookedKept
    <3>8. Same(s, t, i)
      BY <1>3, <3>7
    <3> QED BY <3>3, <3>6, <3>7, <3>8 DEF Queues
  <2> QED BY <2>1, <2>2
<1>11. PICK t : Booked(base, e, t, k, at) /\ Same(s, t, i) /\ SameNotes(c, e)
                /\ e.tail = c.tail /\ e.fault = c.fault
  BY <1>10
<1>12. e.entries = c.entries /\ e.check = c.check /\ e.observed = c.observed
       /\ e.heard.members = c.heard.members
  BY <1>11 DEF SameNotes
<1>13. c.observed => Len(c.heard.members) = k
  BY <1>1 DEF Booked, HeardTrue
<1>14. Closes(e, d, k, n, entry)
  BY <1>1, <1>6, <1>9, <1>13, ClosesIs
<1>15. Fulfilled(e, t, k, at, entry, n)
  <2>1. EntryTrue(entry, t, i)
    BY <1>8, <1>11 DEF EntryTrue, Same
  <2>2. ContentIn(t, i) = n
    BY <1>5, <1>11 DEF Same
  <2> QED BY <1>3, <1>8, <1>12, <2>1, <2>2 DEF Fulfilled
<1>16. Booked(base, d, t, k, at) /\ k = Len(d.entries)
  BY <1>5, <1>11, <1>14, <1>15, BookedClosed
<1>17. d.check = c.check /\ d.observed = c.observed /\ d.fault = "none" /\ ~d.tail
       /\ d.decoder = NoDecoder
  BY <1>1, <1>11, <1>12, <1>14 DEF Closes
<1>18. AtRest(base, d, t, k, at)
  BY <1>16, <1>17 DEF AtRest
<1> QED BY <1>17, <1>18 DEF BehindMember, Keeps

\* Within a member, said of a stream and of the record at i.
MemberAt(base, c, s, k, at, i, src) ==
  /\ i = at[k] /\ Within(base, c, s, k, at) /\ Linked(c.member, c.decoder, s, i, src)
  /\ c.decoder.inflater.fault = "none"

LEMMA MemberIsAt ==
  ASSUME NEW base, NEW c, NEW src, InMember(base, c, src)
  PROVE  \E s : \E k \in Nat : \E at, i : MemberAt(base, c, s, k, at, i, src)
<1>1. PICK s : \E k \in Nat : \E at :
                  /\ Within(base, c, s, k, at) /\ Linked(c.member, c.decoder, s, at[k], src)
                  /\ c.decoder.inflater.fault = "none"
  BY DEF InMember
<1>2. PICK k \in Nat : \E at :
                  /\ Within(base, c, s, k, at) /\ Linked(c.member, c.decoder, s, at[k], src)
                  /\ c.decoder.inflater.fault = "none"
  BY <1>1
<1>3. PICK at : /\ Within(base, c, s, k, at) /\ Linked(c.member, c.decoder, s, at[k], src)
                /\ c.decoder.inflater.fault = "none"
  BY <1>2
<1>4. PICK i : i = at[k]
  OBVIOUS
<1>5. MemberAt(base, c, s, k, at, i, src)
  BY <1>3, <1>4 DEF MemberAt
<1> QED BY <1>5

(* Refused there, the last member has not ended.                            *)
LEMMA MemberNoted ==
  ASSUME NEW base, NEW c, NEW src, InMember(base, c, src)
  PROVE  Refused(base, c)
<1>1. PICK s : \E k \in Nat : \E at, i : MemberAt(base, c, s, k, at, i, src)
  BY MemberIsAt
<1>2. PICK k \in Nat : \E at, i : MemberAt(base, c, s, k, at, i, src)
  BY <1>1
<1>3. PICK at, i : MemberAt(base, c, s, k, at, i, src)
  BY <1>2
<1>4. Booked(base, c, s, k, at) /\ k = Len(c.entries) + 1 /\ ~c.tail
  BY <1>3 DEF MemberAt, Within
<1>5. k <= Len(c.entries) + 1
  BY <1>4
<1> QED BY <1>4, <1>5 DEF Refused, Noted

(* The end of a member.                                                     *)
LEMMA EndTold ==
  ASSUME NEW base, NEW c, NEW src \in Sources, InMember(base, c, src),
         NEW claim, src.known => claim.len = src.claim, NEW d, d = OnEnd(c, claim),
         NEW new, new = Held(src, Event("end", claim))
  PROVE  /\ new \in Sources /\ d.fault \in Faults
         /\ d.fault \in DecodeFaults => ~new.sound
         /\ d.fault # "none" => Refused(base, d)
         /\ d.fault = "none" => BehindMember(base, d) /\ Keeps(c, d)
<1>1. PICK s : \E k \in Nat : \E at, i : MemberAt(base, c, s, k, at, i, src)
  BY MemberIsAt
<1>2. PICK k \in Nat : \E at, i : MemberAt(base, c, s, k, at, i, src)
  BY <1>1
<1>3. PICK at, i : MemberAt(base, c, s, k, at, i, src)
  BY <1>2
<1>4. /\ Booked(base, c, s, k, at) /\ IsCore(c) /\ k = Len(c.entries) + 1 /\ c.fault = "none"
      /\ c.decoder # NoDecoder /\ ~c.tail /\ i = at[k]
      /\ OpenTrue(c.member, c.decoder, s, i) /\ c.decoder.pending = 0
      /\ Linked(c.member, c.decoder, s, i, src) /\ c.decoder.inflater.fault = "none"
  BY <1>3 DEF MemberAt, Within, Booked
<1>5. Summing(c.decoder) /\ Serves(c.decoder, src)
  BY <1>4 DEF OpenTrue, Linked, Serves
<1>6. PICK dec : dec = CloseDecoder(c.decoder)
  OBVIOUS
<1>7. Summing(dec) /\ dec # NoDecoder /\ DecodedLen(dec) = dec.crc
  <2>1. Summing(dec) /\ DecodedLen(dec) = dec.crc
    BY <1>5, <1>6, ClosedSums
  <2>2. dec.method \in {Stored, Deflate}
    BY <2>1 DEF Summing, MemberDecoders
  <2> QED BY <2>1, <2>2 DEF NoDecoder, Stored, Deflate
<1>8. PICK x \in Nat : Summed(c.decoder, dec, x)
  BY <1>5, <1>6, ClosedSums
<1>9. PICK n \in Nat : n = dec.crc
  BY <1>7 DEF Summing, MemberDecoders
<1>10. /\ new \in Sources
       /\ new.sound => /\ src.sound /\ (src.method = Deflate => src.over)
                       /\ claim.len = src.len /\ claim.crc = src.len
                       /\ (src.known => src.crc = src.len)
  BY HeldEnd
<1>11. new.sound => dec.inflater.fault = "none" /\ n = src.len
  <2>1. SUFFICES ASSUME new.sound PROVE dec.inflater.fault = "none" /\ dec.crc = src.len
    BY <1>9
  <2>2. c.decoder.method = src.method
    BY <1>4 DEF Linked
  <2> QED BY <1>4, <1>5, <1>6, <1>10, <2>1, <2>2, SoundCloses
<1>12. PICK c1 : c1 = [c EXCEPT !.decoder = dec]
  OBVIOUS
<1>13. Redecoded(c, c1, dec)
  BY <1>4, <1>12, DecoderSet
<1>14. Booked(base, c1, s, k, at)
  BY <1>4, <1>13, BookedSame
<1>15. /\ IsCore(c1) /\ c1.entries = c.entries /\ c1.check = c.check /\ c1.observed = c.observed
       /\ c1.decoder = dec /\ c1.member = c.member /\ c1.tail = c.tail /\ c1.fault = c.fault
  BY <1>13 DEF Redecoded, SameNotes
<1>16. OpenTrue(c1.member, c1.decoder, s, i)
  <2>1. dec.crc = ContentIn(s, i) + dec.pending
    <3>1. PICK y \in Nat : y = c.decoder.crc
      BY <1>5 DEF Summing, MemberDecoders
    <3>2. y = ContentIn(s, i) + 0 /\ dec.crc = y + x /\ dec.pending = 0 + x
      BY <1>4, <1>8, <3>1 DEF OpenTrue, Summed
    <3>3. IsStream(s) /\ i \in 1..Len(s)
      <4>1. Out(base, c, s) /\ at \in [1..k -> 1..Len(s)]
        BY <1>4 DEF Booked, Marked
      <4>2. k \in 1..k
        <5>1. c.entries \in Seq(EntryRecords)
          BY <1>4 DEF Booked, EntriesTrue
        <5>2. Len(c.entries) \in Nat
          BY <5>1, LenProperties
        <5> QED BY <1>4, <5>2
      <4> QED BY <1>4, <4>1, <4>2, OutIsStream
    <3>4. ContentIn(s, i) \in Nat
      BY <3>3, ContentTyped
    <3> QED BY <3>2, <3>4
  <2> QED BY <1>4, <1>7, <1>15, <2>1 DEF OpenTrue
<1>17. Filling(base, c1, s, k, at, i)
  <2>1. Opened(c1, s, k, at, i)
    BY <1>4, <1>15 DEF Opened, OpenTrue
  <2> QED BY <1>4, <1>7, <1>14, <1>15, <1>16, <2>1 DEF Filling
<1>18. PICK e : e = DrainDecoder(c1)
  OBVIOUS
<1>19. Drained(c1, e)
  BY <1>17, <1>18, DrainFills
<1>20. PICK t : /\ Filling(base, e, t, k, at, i) /\ e.decoder.pending = 0
                /\ t[i] = s[i] /\ StartIn(t, i) = StartIn(s, i)
  BY <1>17, <1>18, DrainFills
<1>21. /\ e.decoder.crc = n /\ e.member = c.member /\ e.check = c.check
       /\ e.observed = c.observed /\ e.fault = "none" /\ IsCore(e)
  BY <1>7, <1>9, <1>15, <1>19, <1>20 DEF Drained, Filling, Booked, Summing, MemberDecoders
<1>22. d = Ending(c, e, dec.inflater.fault, claim, n)
  <2>1. e = Flushed(c)
    <3>1. [c EXCEPT !.decoder = CloseDecoder(@)] = c1
      BY <1>4, <1>6, <1>12 DEF IsCore
    <3> QED BY <1>18, <3>1 DEF Flushed
  <2> QED BY <1>4, <1>6, <1>7, <1>9, <2>1 DEF OnEnd
<1>23. PICK fault : fault = ClaimFault(e, claim, n)
  OBVIOUS
<1>24. /\ fault \in Faults
       /\ fault = "none" => n = claim.len
       /\ fault \in DecodeFaults => \/ n # claim.len
                                    \/ n # claim.crc
                                    \/ e.member.known /\ n # e.member.crc
  BY <1>21, <1>23, ClaimFaults
<1>25. /\ src.known = c.member.known /\ src.crc = c.member.crc /\ src.known \in BOOLEAN
       /\ src.known => s[i].size = Field(src.claim, NeedsZip64(src.claim))
  BY <1>4 DEF Linked, Sources
<1>26. CASE dec.inflater.fault # "none"
  <2>1. d = Fail(c, dec.inflater.fault)
    BY <1>22, <1>26 DEF Ending
  <2>2. d.fault = dec.inflater.fault
    BY <1>4, <2>1 DEF Fail, IsCore
  <2>3. d.fault \in Faults
    BY <1>7, <2>2 DEF Summing, MemberDecoders, Inflaters, Faults, DecodeFaults
  <2>4. Refused(base, d)
    <3>1. k <= Len(c.entries) + 1
      BY <1>4
    <3> QED BY <1>4, <2>1, <3>1, FailRefuses
  <2> QED BY <1>10, <1>11, <1>26, <2>2, <2>3, <2>4
<1>27. CASE dec.inflater.fault = "none" /\ fault # "none"
  <2>1. d = Fail(e, fault)
    BY <1>22, <1>23, <1>27 DEF Ending
  <2>2. d.fault = fault
    BY <1>21, <2>1 DEF Fail, IsCore
  <2>3. fault \in DecodeFaults => ~new.sound
    BY <1>10, <1>11, <1>21, <1>24, <1>25
  <2>4. Refused(base, d)
    <3>1. Booked(base, e, t, k, at) /\ k = Len(e.entries) + 1 /\ ~e.tail
      BY <1>20 DEF Filling, Opened
    <3>2. k <= Len(e.entries) + 1
      BY <3>1
    <3> QED BY <2>1, <3>1, <3>2, FailRefuses
  <2> QED BY <1>10, <1>24, <1>27, <2>2, <2>3, <2>4
<1>28. CASE dec.inflater.fault = "none" /\ fault = "none"
  <2>1. d = Closed(e, n)
    BY <1>22, <1>23, <1>28 DEF Ending
  <2>2. e.member.known \in BOOLEAN /\ n = e.decoder.crc
    BY <1>21, <1>25
  <2>3. e.member.known => t[i].size = Field(n, NeedsZip64(n))
    BY <1>20, <1>21, <1>24, <1>25, <1>28
  <2>4. BehindMember(base, d) /\ Keeps(e, d) /\ d.fault = "none"
    BY <1>20, <2>1, <2>2, <2>3, ClosedIsBehind
  <2>5. Keeps(c, d)
    BY <1>21, <2>4 DEF Keeps
  <2> QED BY <1>10, <2>4, <2>5 DEF DecodeFaults, Faults
<1> QED BY <1>26, <1>27, <1>28

(***************************************************************************)
(* The directory.                                                          *)
(***************************************************************************)
(* The records at the end have a length.                                    *)
LEMMA DirectoryHasLength ==
  ASSUME NEW entries \in Seq(EntryRecords), NEW directory,
         directory = [i \in DOMAIN entries |-> CentralHeader(entries[i])]
  PROVE  IsStream(directory) /\ Lengths(directory) \in Nat /\ Len(directory) = Len(entries)
<1>1. PICK n \in Nat : n = Len(entries) /\ DOMAIN entries = 1..n
  BY LenProperties
<1>2. PICK S : S = {directory[i] : i \in 1..n}
  OBVIOUS
<1>3. directory \in [1..n -> S]
  BY <1>1, <1>2
<1>4. directory \in Seq(S) /\ Len(directory) = n
  BY <1>3
<1>5. ASSUME NEW i \in 1..n PROVE directory[i].length \in Nat
  <2>1. PICK e \in EntryRecords : e = entries[i]
    BY <1>1, ElementOfSeq
  <2>2. NameLen[e.name] \in Nat /\ CentralLen \in Nat
    BY <2>1, CanonicalAssumption DEF EntryRecords
  <2>3. directory[i] = CentralHeader(e)
    BY <1>1, <2>1
  <2>4. PICK fields \in Nat : fields = (IF NeedsZip64(e.len) THEN 2 ELSE 0)
                                       + (IF NeedsZip64(e.at) THEN 1 ELSE 0)
    OBVIOUS
  <2>5. CentralHeader(e).length = CentralLen + NameLen[e.name] + Zip64Len(fields)
    BY <2>4 DEF CentralHeader
  <2>6. Zip64Len(fields) \in Nat
    BY <2>4 DEF Zip64Len
  <2> QED BY <2>2, <2>3, <2>5, <2>6
<1>6. \A q \in S : q.length \in Nat
  BY <1>2, <1>5
<1>7. IsStream(directory)
  BY <1>4, <1>6 DEF IsStream
<1> QED BY <1>1, <1>4, <1>7, LengthsOf

LEMMA TailRecordsIs ==
  ASSUME NEW entries \in Seq(EntryRecords), NEW at, NEW p, p = TailRecords(entries, at)
  PROVE  p.length \in Nat /\ p.kind = "tail" /\ p.kind # "local" /\ p.kind \in Closers
<1>1. PICK directory : directory = [i \in DOMAIN entries |-> CentralHeader(entries[i])]
  OBVIOUS
<1>2. PICK size \in Nat : size = Lengths(directory)
  BY <1>1, DirectoryHasLength
<1>3. \E zip64 : p.length = size + (IF zip64 THEN 2 ELSE 1)
  BY <1>1, <1>2 DEF TailRecords
<1>4. p.kind = "tail"
  BY DEF TailRecords
<1> QED BY <1>2, <1>3, <1>4 DEF Closers

\* The core once the directory has begun.
CountTold(c) == IF c.observed THEN [c EXCEPT !.heard.end = c.check.seen] ELSE c

LEMMA CountToldIs ==
  ASSUME NEW c, IsCore(c), NEW yes \in BOOLEAN, NEW d, d = [CountTold(c) EXCEPT !.tail = yes]
  PROVE  /\ Alike(c, d) /\ d.tail = yes /\ d.decoder = c.decoder /\ d.fault = c.fault
         /\ d.observed => d.heard.end = c.check.seen
<1>1. PICK heard : heard = [members |-> c.heard.members,
                            end |-> IF c.observed THEN c.check.seen ELSE c.heard.end]
  OBVIOUS
<1>2. c.heard = [members |-> c.heard.members, end |-> c.heard.end]
  BY DEF IsCore
<1>3. CountTold(c) = [c EXCEPT !.heard = heard]
  <2>1. CASE c.observed
    <3>1. [c.heard EXCEPT !.end = c.check.seen] = heard
      BY <1>1, <1>2, <2>1
    <3> QED BY <2>1, <3>1 DEF CountTold, IsCore
  <2>2. CASE ~c.observed
    <3>1. c.heard = heard
      BY <1>1, <1>2, <2>2
    <3> QED BY <2>2, <3>1 DEF CountTold, IsCore
  <2> QED BY <2>1, <2>2
<1>4. d = [[c EXCEPT !.heard = heard] EXCEPT !.tail = yes]
  BY <1>3
<1>5. /\ d.heard = heard /\ d.tail = yes /\ d.decoder = c.decoder /\ d.fault = c.fault
      /\ d.check = c.check /\ d.entries = c.entries /\ d.offset = c.offset /\ d.steps = c.steps
      /\ d.observed = c.observed
  BY <1>4 DEF IsCore
<1>6. IsCore(d)
  <2>1. d = [check |-> d.check, decoder |-> d.decoder, member |-> d.member, entries |-> d.entries,
             names |-> d.names, offset |-> d.offset, tail |-> d.tail, fault |-> d.fault,
             steps |-> d.steps, observed |-> d.observed, heard |-> d.heard]
    BY <1>4 DEF IsCore
  <2>2. d.heard = [members |-> d.heard.members, end |-> d.heard.end]
    BY <1>1, <1>5
  <2> QED BY <1>5, <2>1, <2>2 DEF IsCore
<1>7. d.heard.members = c.heard.members /\ (c.observed => d.heard.end = c.check.seen)
  BY <1>1, <1>5
<1> QED BY <1>5, <1>6, <1>7 DEF Alike, SameNotes

\* Behind the directory.
BehindDirectory(base, c) == \E s : \E k \in Nat : \E at : WithDirectory(base, c, s, k, at)

(* The directory begins.                                                    *)
LEMMA CentralTold ==
  ASSUME NEW base, NEW c, BehindMember(base, c), NEW d, d = OnCentral(c)
  PROVE  BehindDirectory(base, d) /\ Keeps(c, d) /\ d.fault = "none"
<1>1. PICK s : \E k \in Nat : \E at : AtRest(base, c, s, k, at)
  BY DEF BehindMember
<1>2. PICK k \in Nat : \E at : AtRest(base, c, s, k, at)
  BY <1>1
<1>3. PICK at : AtRest(base, c, s, k, at)
  BY <1>2
<1>4. /\ Booked(base, c, s, k, at) /\ IsCore(c) /\ k = Len(c.entries) /\ c.fault = "none"
      /\ c.decoder = NoDecoder /\ ~c.tail
  BY <1>3 DEF AtRest, Booked
<1>5. PICK yes \in BOOLEAN : yes = TRUE
  OBVIOUS
<1>6. PICK c1 : c1 = [CountTold(c) EXCEPT !.tail = yes]
  OBVIOUS
<1>7. /\ Alike(c, c1) /\ c1.tail = yes /\ c1.decoder = c.decoder /\ c1.fault = c.fault
      /\ c1.observed => c1.heard.end = c.check.seen
  BY <1>4, <1>6, CountToldIs
<1>8. Booked(base, c1, s, k, at) /\ IsCore(c1)
  BY <1>4, <1>7, BookedAlike DEF Alike
<1>9. /\ c1.entries = c.entries /\ c1.check = c.check /\ c1.observed = c.observed
      /\ c1.offset = c.offset
  BY <1>7 DEF Alike, SameNotes
<1>10. PICK b : b = Boundary
  OBVIOUS
<1>11. b.length = 0 /\ b.kind # "local" /\ b.kind \in Closers
  BY <1>10 DEF Boundary, Closers
<1>12. PICK c2 : c2 = Step(c1, b)
  OBVIOUS
<1>13. Queues(c1, c2, b) /\ c2.offset = c1.offset
  BY <1>8, <1>12, StepQueues
<1>14. /\ IsCore(c2) /\ SameNotes(c1, c2) /\ c2.steps = Append(c1.steps, b)
       /\ c2.decoder = c1.decoder /\ c2.tail = c1.tail /\ c2.fault = c1.fault
       /\ c2.heard = c1.heard /\ c2.entries = c1.entries /\ c2.check = c1.check
       /\ c2.observed = c1.observed
  BY <1>13 DEF Queues, SameNotes
<1>15. c.offset \in Nat /\ c.offset + 0 = c.offset
  <2>1. Out(base, c, s) /\ c.offset = Lengths(s)
    BY <1>4 DEF Booked
  <2>2. c.offset \in Nat
    BY <2>1, OutIsStream, LengthsOf
  <2> QED BY <2>2
<1>16. PICK s1 : s1 = Append(s, b)
  OBVIOUS
<1>17. Booked(base, c2, s1, k, at)
  <2>1. c2.offset = c1.offset + b.length /\ b.length \in Nat
    BY <1>9, <1>11, <1>13, <1>15
  <2>2. \A n \in 1..k : Enders(s, at[n]) # {} \/ b.kind \in Closers \/ b.length = 0
    BY <1>11
  <2>3. IsCore(c2) /\ SameNotes(c1, c2) /\ c2.steps = Append(c1.steps, b) /\ b.kind # "local"
    BY <1>11, <1>14
  <2> QED BY <1>8, <1>16, <2>1, <2>2, <2>3, BookedKept
<1>18. PICK p : p = TailRecords(c.entries, c.offset)
  OBVIOUS
<1>19. c.entries \in Seq(EntryRecords)
  BY <1>4 DEF Booked, EntriesTrue
<1>20. p.length \in Nat /\ p.kind # "local" /\ p.kind \in Closers
  BY <1>18, <1>19, TailRecordsIs
<1>21. d = Enqueue(c2, p)
  <2>1. [CountTold(c) EXCEPT !.tail = TRUE] = c1
    BY <1>5, <1>6
  <2>2. CountTold(c) = IF c.observed THEN [c EXCEPT !.heard.end = c.check.seen] ELSE c
    BY DEF CountTold
  <2>3. d = Enqueue(Step([CountTold(c) EXCEPT !.tail = TRUE], Boundary), p)
    BY <1>4, <1>18, <2>2 DEF OnCentral
  <2> QED BY <1>10, <1>12, <2>1, <2>3
<1>22. Queues(c2, d, p) /\ d.offset = c2.offset + p.length
  BY <1>14, <1>21, EnqueueQueues
<1>23. /\ IsCore(d) /\ SameNotes(c2, d) /\ d.steps = Append(c2.steps, p)
       /\ d.decoder = c2.decoder /\ d.tail = c2.tail /\ d.fault = c2.fault
       /\ d.heard = c2.heard /\ d.entries = c2.entries /\ d.check = c2.check
       /\ d.observed = c2.observed
  BY <1>22 DEF Queues, SameNotes
<1>24. PICK t : t = Append(s1, p)
  OBVIOUS
<1>25. Booked(base, d, t, k, at)
  <2>1. \A n \in 1..k : Enders(s1, at[n]) # {} \/ p.kind \in Closers \/ p.length = 0
    BY <1>20
  <2>2. d.offset = c2.offset + p.length
    BY <1>22
  <2>3. IsCore(d) /\ SameNotes(c2, d) /\ d.steps = Append(c2.steps, p)
    BY <1>23
  <2> QED BY <1>17, <1>20, <1>24, <2>1, <2>2, <2>3, BookedKept
<1>26. TailTrue(d, t, k)
  <2>1. IsStream(s1)
    BY <1>17, OutIsStream DEF Booked
  <2>2. PICK z \in Nat : z = Len(s1) /\ Len(t) = z + 1 /\ t[z + 1] = p
    BY <1>20, <1>24, <2>1, Appended
  <2>3. StartIn(t, z + 1) = c.offset
    <3>1. z + 1 \in 1..(z + 1)
      BY <2>2
    <3>2. StartIn(t, z + 1) = StartIn(s1, z + 1) /\ StartIn(s1, z + 1) = Lengths(s1)
      BY <1>20, <1>24, <2>1, <2>2, <3>1, StartKept
    <3>3. Lengths(s1) = c2.offset
      BY <1>17 DEF Booked
    <3> QED BY <1>9, <1>13, <3>2, <3>3
  <2>4. d.observed => d.heard.end = k
    <3>1. c.check.seen = k
      BY <1>4 DEF Booked, CheckTrue
    <3> QED BY <1>7, <1>14, <1>23, <3>1
  <2>5. Len(t) > 0 /\ t[Len(t)] = TailRecords(d.entries, StartIn(t, Len(t)))
    BY <1>9, <1>14, <1>18, <1>23, <2>2, <2>3
  <2> QED BY <1>4, <1>9, <1>14, <1>23, <2>4, <2>5 DEF TailTrue
<1>27. /\ k = Len(d.entries) /\ d.fault = "none" /\ d.decoder = NoDecoder /\ d.tail
       /\ d.check = c.check /\ d.observed = c.observed
  BY <1>4, <1>5, <1>7, <1>9, <1>14, <1>23
<1>28. WithDirectory(base, d, t, k, at)
  BY <1>25, <1>26, <1>27 DEF WithDirectory
<1> QED BY <1>27, <1>28 DEF BehindDirectory, Keeps

(***************************************************************************)
(* What the walker tells of one byte.                                      *)
(***************************************************************************)
\* Where the core stands while the walker is at w.
Stands(base, c, src, w) ==
  /\ w = "between" => BehindMember(base, c)
  /\ w = "member" => InMember(base, c, src)
  /\ w = "central" => BehindDirectory(base, c)

\* What a batch has done: no fault of content but of unsound content; with one
\* the notes are still true, without one the core stands where the walker does.
Tells(base, c, d, new, w) ==
  /\ new \in Sources /\ d.fault \in Faults
  /\ d.fault \in DecodeFaults => ~new.sound
  /\ d.fault # "none" => Refused(base, d)
  /\ d.fault = "none" => Stands(base, d, new, w) /\ Keeps(c, d)

(* One event.                                                               *)
LEMMA HeaderTells ==
  ASSUME NEW base, NEW c, BehindMember(base, c), NEW h, IsHeader(h), NEW e, e = Event("header", h),
         NEW src, NEW d, d = OnEvent(c, e), NEW new, new = Held(src, e)
  PROVE  Tells(base, c, d, new, "member") /\ d.fault \notin DecodeFaults
<1>1. PICK s : \E k \in Nat : \E at : AtRest(base, c, s, k, at)
  BY DEF BehindMember
<1>2. PICK k \in Nat : \E at : AtRest(base, c, s, k, at)
  BY <1>1
<1>3. PICK at : AtRest(base, c, s, k, at)
  BY <1>2
<1>4. c.fault = "none" /\ e.kind = "header" /\ e.of = h
  BY <1>3 DEF AtRest, Event
<1>5. d = OnHeader(c, h)
  BY <1>4 DEF OnEvent
<1>6. /\ d.fault \notin DecodeFaults /\ d.fault \in Faults
      /\ d.fault # "none" => Refused(base, d)
      /\ d.fault = "none" => /\ InMember(base, d, new)
                             /\ d.check.expected = c.check.expected
                             /\ d.observed = c.observed
  BY <1>3, <1>5, HeaderTold
<1>7. new \in Sources
  BY HeldHeader
<1> QED BY <1>6, <1>7 DEF Tells, Stands, Keeps

LEMMA DataTells ==
  ASSUME NEW base, NEW c, NEW src \in Sources, InMember(base, c, src),
         NEW b \in SourceBytes(src.method), NEW e, e = Event("data", b),
         NEW d, d = OnEvent(c, e), NEW new, new = Held(src, e)
  PROVE  Tells(base, c, d, new, "member")
<1>1. PICK s : \E k \in Nat : \E at, i : MemberAt(base, c, s, k, at, i, src)
  BY MemberIsAt
<1>2. c.fault = "none" /\ c.decoder # NoDecoder /\ e.kind = "data" /\ e.of = b
  BY <1>1 DEF MemberAt, Within, Event
<1>3. d = OnData(c, b)
  BY <1>2 DEF OnEvent
<1>4. /\ new \in Sources /\ d.fault \in Faults
      /\ d.fault # "none" => ~new.sound /\ Refused(base, d)
      /\ d.fault = "none" => InMember(base, d, new) /\ Keeps(c, d)
  BY <1>3, DataTold
<1> QED BY <1>4 DEF Tells, Stands, DecodeFaults

LEMMA EndTells ==
  ASSUME NEW base, NEW c, NEW src \in Sources, InMember(base, c, src),
         NEW claim, src.known => claim.len = src.claim, NEW e, e = Event("end", claim),
         NEW d, d = OnEvent(c, e), NEW new, new = Held(src, e)
  PROVE  Tells(base, c, d, new, "between")
<1>1. PICK s : \E k \in Nat : \E at, i : MemberAt(base, c, s, k, at, i, src)
  BY MemberIsAt
<1>2. c.fault = "none" /\ e.kind = "end" /\ e.of = claim
  BY <1>1 DEF MemberAt, Within, Event
<1>3. d = OnEnd(c, claim)
  BY <1>2 DEF OnEvent
<1>4. /\ new \in Sources /\ d.fault \in Faults
      /\ d.fault \in DecodeFaults => ~new.sound
      /\ d.fault # "none" => Refused(base, d)
      /\ d.fault = "none" => BehindMember(base, d) /\ Keeps(c, d)
  BY <1>3, EndTold
<1> QED BY <1>4 DEF Tells, Stands

LEMMA CentralTells ==
  ASSUME NEW base, NEW c, BehindMember(base, c), NEW src \in Sources,
         NEW e, e = Event("central", {}), NEW d, d = OnEvent(c, e), NEW new, new = Held(src, e)
  PROVE  Tells(base, c, d, new, "central")
<1>1. PICK s : \E k \in Nat : \E at : AtRest(base, c, s, k, at)
  BY DEF BehindMember
<1>2. c.fault = "none" /\ e.kind = "central"
  BY <1>1 DEF AtRest, Event
<1>3. d = OnCentral(c)
  BY <1>2 DEF OnEvent
<1>4. BehindDirectory(base, d) /\ Keeps(c, d) /\ d.fault = "none"
  BY <1>3, CentralTold
<1>5. new = src
  BY <1>2 DEF Held
<1> QED BY <1>4, <1>5 DEF Tells, Stands, DecodeFaults, Faults

(* Behind a fault nothing more is taken in, and what is unsound stays so.   *)
LEMMA FaultTells ==
  ASSUME NEW base, NEW c, NEW d, d.fault # "none", NEW src \in Sources,
         d.fault \in Faults, d.fault \in DecodeFaults => ~src.sound, Refused(base, d),
         NEW e, e.kind \in {"data", "end"}, e.kind = "data" => e.of.grows \in Nat,
         NEW o, o = OnEvent(d, e), NEW new, new = Held(src, e), NEW w
  PROVE  Tells(base, c, o, new, w)
<1>1. o = d
  BY DEF OnEvent
<1>2. new \in Sources /\ (new.sound => src.sound)
  <2>1. CASE e.kind = "data"
    <3>1. PICK f : f = Event("data", e.of)
      OBVIOUS
    <3>2. f.kind = "data" /\ f.of = e.of
      BY <3>1 DEF Event
    <3>3. Held(src, f) = new
      BY <2>1, <3>2 DEF Held
    <3> QED BY <2>1, <3>1, <3>3, HeldData
  <2>2. CASE e.kind = "end"
    <3>1. PICK f : f = Event("end", e.of)
      OBVIOUS
    <3>2. f.kind = "end" /\ f.of = e.of
      BY <3>1 DEF Event
    <3>3. Held(src, f) = new
      BY <2>2, <3>2 DEF Held
    <3> QED BY <3>1, <3>3, HeldEnd
  <2> QED BY <2>1, <2>2
<1> QED BY <1>1, <1>2 DEF Tells

\* What was about to be drained is drained.
Drains(base, c, after, d) == d = [c EXCEPT !.steps = <<>>] /\ after = base \o c.steps

(* The notes stay true of the stream.                                       *)
LEMMA Redrained ==
  ASSUME NEW base, NEW c, NEW s, NEW k \in Nat, NEW at, Booked(base, c, s, k, at),
         NEW after, NEW d, Drains(base, c, after, d)
  PROVE  /\ Booked(after, d, s, k, at)
         /\ d.decoder = c.decoder /\ d.member = c.member /\ d.entries = c.entries
         /\ d.tail = c.tail /\ d.fault = c.fault /\ d.observed = c.observed
         /\ d.heard = c.heard /\ d.check = c.check
<1>1. IsCore(c) /\ Out(base, c, s)
  BY DEF Booked
<1>2. /\ IsCore(d) /\ d.decoder = c.decoder /\ d.member = c.member /\ d.entries = c.entries
      /\ d.tail = c.tail /\ d.fault = c.fault /\ d.observed = c.observed
      /\ d.heard = c.heard /\ d.check = c.check /\ d.offset = c.offset /\ d.steps = <<>>
  BY <1>1 DEF IsCore, Drains
<1>3. Out(after, d, s)
  <2>1. PICK S : /\ base \in Seq(S) /\ c.steps \in Seq(S) /\ s = base \o c.steps
                 /\ \A q \in S : q.length \in Nat
    BY <1>1 DEF Out
  <2>2. after \in Seq(S) /\ s = after
    BY <2>1 DEF Drains
  <2>3. <<>> \in Seq(S)
    OBVIOUS
  <2>4. after \o <<>> = after
    BY <2>2, ConcatEmptySeq
  <2> QED BY <1>2, <2>1, <2>2, <2>3, <2>4 DEF Out
<1> QED BY <1>2, <1>3 DEF Booked

LEMMA StandsDrained ==
  ASSUME NEW base, NEW c, NEW src, NEW w, Stands(base, c, src, w),
         NEW after, NEW d, Drains(base, c, after, d)
  PROVE  Stands(after, d, src, w)
<1>1. ASSUME BehindMember(base, c) PROVE BehindMember(after, d)
  <2>1. PICK s : \E k \in Nat : \E at : AtRest(base, c, s, k, at)
    BY <1>1 DEF BehindMember
  <2>2. PICK k \in Nat : \E at : AtRest(base, c, s, k, at)
    BY <2>1
  <2>3. PICK at : AtRest(base, c, s, k, at)
    BY <2>2
  <2>4. Booked(base, c, s, k, at)
    BY <2>3 DEF AtRest
  <2>5. /\ Booked(after, d, s, k, at)
        /\ d.decoder = c.decoder /\ d.entries = c.entries /\ d.tail = c.tail /\ d.fault = c.fault
    BY <2>4, Redrained
  <2>6. AtRest(after, d, s, k, at)
    BY <2>3, <2>5 DEF AtRest
  <2> QED BY <2>6 DEF BehindMember
<1>2. ASSUME InMember(base, c, src) PROVE InMember(after, d, src)
  <2>1. PICK s : \E k \in Nat : \E at, i : MemberAt(base, c, s, k, at, i, src)
    BY <1>2, MemberIsAt
  <2>2. PICK k \in Nat : \E at, i : MemberAt(base, c, s, k, at, i, src)
    BY <2>1
  <2>3. PICK at, i : MemberAt(base, c, s, k, at, i, src)
    BY <2>2
  <2>4. Booked(base, c, s, k, at)
    BY <2>3 DEF MemberAt, Within
  <2>5. /\ Booked(after, d, s, k, at)
        /\ d.decoder = c.decoder /\ d.member = c.member /\ d.entries = c.entries
        /\ d.tail = c.tail /\ d.fault = c.fault
    BY <2>4, Redrained
  <2>6. Within(after, d, s, k, at)
    BY <2>3, <2>5 DEF MemberAt, Within
  <2>7. Linked(d.member, d.decoder, s, at[k], src) /\ d.decoder.inflater.fault = "none"
    BY <2>3, <2>5 DEF MemberAt
  <2> QED BY <2>6, <2>7 DEF InMember
<1>3. ASSUME BehindDirectory(base, c) PROVE BehindDirectory(after, d)
  <2>1. PICK s : \E k \in Nat : \E at : WithDirectory(base, c, s, k, at)
    BY <1>3 DEF BehindDirectory
  <2>2. PICK k \in Nat : \E at : WithDirectory(base, c, s, k, at)
    BY <2>1
  <2>3. PICK at : WithDirectory(base, c, s, k, at)
    BY <2>2
  <2>4. Booked(base, c, s, k, at)
    BY <2>3 DEF WithDirectory
  <2>5. /\ Booked(after, d, s, k, at)
        /\ d.decoder = c.decoder /\ d.entries = c.entries /\ d.tail = c.tail /\ d.fault = c.fault
        /\ d.heard = c.heard /\ d.observed = c.observed
    BY <2>4, Redrained
  <2>6. TailTrue(d, s, k)
    BY <2>3, <2>5 DEF WithDirectory, TailTrue
  <2>7. WithDirectory(after, d, s, k, at)
    BY <2>3, <2>5, <2>6 DEF WithDirectory
  <2> QED BY <2>7 DEF BehindDirectory
<1> QED BY <1>1, <1>2, <1>3 DEF Stands

(* Two events in one batch: the second is told where the first left off.    *)
LEMMA KeepsTwice ==
  ASSUME NEW c, NEW d, NEW e, Keeps(c, d), Keeps(d, e) PROVE Keeps(c, e)
BY DEF Keeps

\* What an event tells when the walker has a member under way.
IsTail(src, e) ==
  \/ \E b \in SourceBytes(src.method) : e = Event("data", b)
  \/ \E claim \in EndClaims(src.known, src.claim) : e = Event("end", claim)

WalkerThen(e) == IF e.kind = "data" THEN "member" ELSE "between"

LEMMA TailTells ==
  ASSUME NEW base, NEW c, NEW src \in Sources, InMember(base, c, src),
         NEW e, IsTail(src, e), NEW d, d = OnEvent(c, e), NEW new, new = Held(src, e)
  PROVE  Tells(base, c, d, new, WalkerThen(e))
<1>1. CASE \E b \in SourceBytes(src.method) : e = Event("data", b)
  <2>1. PICK b \in SourceBytes(src.method) : e = Event("data", b)
    BY <1>1
  <2>2. Tells(base, c, d, new, "member")
    BY <2>1, DataTells
  <2> QED BY <2>1, <2>2 DEF WalkerThen, Event
<1>2. CASE \E claim \in EndClaims(src.known, src.claim) : e = Event("end", claim)
  <2>1. PICK claim \in EndClaims(src.known, src.claim) : e = Event("end", claim)
    BY <1>2
  <2>2. src.known => claim.len = src.claim
    BY <2>1 DEF EndClaims
  <2>3. Tells(base, c, d, new, "between")
    BY <2>1, <2>2, EndTells
  <2> QED BY <2>1, <2>3 DEF WalkerThen, Event
<1> QED BY <1>1, <1>2 DEF IsTail

LEMMA TailBytes ==
  ASSUME NEW src, NEW e, IsTail(src, e)
  PROVE  e.kind \in {"data", "end"} /\ (e.kind = "data" => e.of.grows \in Nat)
<1>1. CASE \E b \in SourceBytes(src.method) : e = Event("data", b)
  <2>1. PICK b \in SourceBytes(src.method) : e = Event("data", b)
    BY <1>1
  <2>2. e.kind = "data" /\ e.of = b
    BY <2>1 DEF Event
  <2>3. b.grows \in Nat
    <3>1. CASE src.method = Stored
      BY <3>1 DEF SourceBytes
    <3>2. CASE src.method # Stored
      <4>1. b \in CompressedByte
        BY <3>2 DEF SourceBytes
      <4> QED BY <4>1, InflaterAssumption DEF CompressedByte
    <3> QED BY <3>1, <3>2
  <2> QED BY <2>2, <2>3
<1>2. CASE \E claim \in EndClaims(src.known, src.claim) : e = Event("end", claim)
  BY <1>2 DEF Event
<1> QED BY <1>1, <1>2 DEF IsTail

(* The second event of a batch that leaves the walker in or behind a        *)
(* member.                                                                  *)
LEMMA SecondTells ==
  ASSUME NEW base, NEW c, NEW d, NEW src \in Sources, Tells(base, c, d, src, "member"),
         NEW e, IsTail(src, e), NEW o, o = OnEvent(d, e), NEW new, new = Held(src, e)
  PROVE  Tells(base, c, o, new, WalkerThen(e))
<1>1. CASE d.fault # "none"
  <2>1. e.kind \in {"data", "end"} /\ (e.kind = "data" => e.of.grows \in Nat)
    BY TailBytes
  <2>2. d.fault \in Faults /\ (d.fault \in DecodeFaults => ~src.sound) /\ Refused(base, d)
    BY <1>1 DEF Tells
  <2> QED BY <1>1, <2>1, <2>2, FaultTells
<1>2. CASE d.fault = "none"
  <2>1. InMember(base, d, src) /\ Keeps(c, d)
    BY <1>2 DEF Tells, Stands
  <2>2. Tells(base, d, o, new, WalkerThen(e))
    BY <2>1, TailTells
  <2> QED BY <2>1, <2>2, KeepsTwice DEF Tells
<1> QED BY <1>1, <1>2

LEMMA OneEvent ==
  ASSUME NEW e, NEW batch, batch = <<e>>, NEW c, NEW s
  PROVE  Told(c, batch) = OnEvent(c, e) /\ HeldAll(s, batch) = Held(s, e) /\ Last(batch) = e
<1>1. Len(batch) = 1 /\ batch[1] = e
  OBVIOUS
<1> QED BY <1>1 DEF Told, HeldAll, Last

LEMMA TwoEvents ==
  ASSUME NEW e, NEW f, NEW batch, batch = <<e, f>>, NEW c, NEW s
  PROVE  /\ Told(c, batch) = OnEvent(OnEvent(c, e), f)
         /\ HeldAll(s, batch) = Held(Held(s, e), f) /\ Last(batch) = f
<1>1. Len(batch) = 2 /\ Len(batch) # 1 /\ batch[1] = e /\ batch[2] = f
  OBVIOUS
<1> QED BY <1>1 DEF Told, HeldAll, Last

(* A header the walker may tell of.                                         *)
LEMMA HeadersAre ==
  ASSUME NEW h \in Headers PROVE IsHeader(h)
<1>1. PICK name \in DOMAIN NameLen, method \in {Stored, Deflate, "other"}, encrypted \in BOOLEAN,
           claim \in {[known |-> FALSE, len |-> 0, crc |-> 0]}
             \cup UNION {{[known |-> TRUE, len |-> n, crc |-> crc] : crc \in ClaimedCrc(n)} :
                          n \in Claimed} :
           h = [name |-> name, method |-> method, encrypted |-> encrypted,
                known |-> claim.known, len |-> claim.len, crc |-> claim.crc]
  BY DEF Headers
<1>2. claim.known \in BOOLEAN /\ claim.len \in Nat /\ claim.crc \in Nat \cup {None}
  <2>1. CASE claim \in {[known |-> FALSE, len |-> 0, crc |-> 0]}
    <3>1. PICK no \in BOOLEAN : no = FALSE
      OBVIOUS
    <3>2. claim = [known |-> no, len |-> 0, crc |-> 0]
      BY <2>1, <3>1
    <3> QED BY <3>2
  <2>2. CASE claim \in UNION {{[known |-> TRUE, len |-> n, crc |-> crc] : crc \in ClaimedCrc(n)} :
                               n \in Claimed}
    <3>1. PICK n \in Claimed : claim \in {[known |-> TRUE, len |-> n, crc |-> crc] :
                                           crc \in ClaimedCrc(n)}
      BY <2>2
    <3>2. PICK crc \in ClaimedCrc(n) : claim = [known |-> TRUE, len |-> n, crc |-> crc]
      BY <3>1
    <3>3. n \in Nat
      BY CanonicalAssumption
    <3>4. crc \in Nat \cup {None}
      BY <3>3 DEF ClaimedCrc
    <3>5. PICK yes \in BOOLEAN : yes = TRUE
      OBVIOUS
    <3>6. claim = [known |-> yes, len |-> n, crc |-> crc]
      BY <3>2, <3>5
    <3> QED BY <3>3, <3>4, <3>6
  <2> QED BY <2>1, <2>2
<1> QED BY <1>1, <1>2 DEF IsHeader

\* What a byte does to the core, in the words of Tells.
BatchTells(batch) ==
  Tells(canonical, core, Told(core, batch), HeldAll(source, batch), WalkerAfter(batch))

(* Behind the directory the walker tells of nothing.                        *)
LEMMA NoneBehindDirectory == ASSUME NEW batch \in Batches PROVE walker # "central"
<1> DEFINE starts ==
             {<<Event("central", {})>>}
             \cup {<<Event("header", h)>> : h \in Headers}
             \cup UNION {{<<Event("header", h), Event("end", claim)>> :
                            claim \in EndClaims(TRUE, h.len)} : h \in {g \in Headers : g.known}}
           datas == {Event("data", b) : b \in SourceBytes(source.method)}
           ends == {Event("end", claim) : claim \in EndClaims(source.known, source.claim)}
           goesOn ==
             {<<d>> : d \in datas}
             \cup (IF source.known THEN {<<d, e>> : d \in datas, e \in ends}
                   ELSE {<<e>> : e \in ends} \cup {<<d1, d2>> : d1 \in datas, d2 \in datas})
<1>1. Batches = CASE walker = "between" -> starts [] walker = "member" -> goesOn [] OTHER -> {}
  BY DEF Batches
<1> HIDE DEF starts, goesOn
<1> QED BY <1>1

(* AtRest two members.                                                     *)
LEMMA BetweenTells ==
  ASSUME source \in Sources, walker = "between", Stands(canonical, core, source, walker),
         NEW batch \in Batches
  PROVE  BatchTells(batch) /\ WalkerAfter(batch) \in {"between", "member", "central"}
<1>1. BehindMember(canonical, core)
  BY DEF Stands
<1>2. \/ batch = <<Event("central", {})>>
      \/ \E h \in Headers : batch = <<Event("header", h)>>
      \/ \E h \in Headers : h.known
           /\ \E claim \in EndClaims(TRUE, h.len) : batch = <<Event("header", h), Event("end", claim)>>
  <2> DEFINE starts ==
               {<<Event("central", {})>>}
               \cup {<<Event("header", h)>> : h \in Headers}
               \cup UNION {{<<Event("header", h), Event("end", claim)>> :
                              claim \in EndClaims(TRUE, h.len)} : h \in {g \in Headers : g.known}}
             datas == {Event("data", b) : b \in SourceBytes(source.method)}
             ends == {Event("end", claim) : claim \in EndClaims(source.known, source.claim)}
             goesOn ==
               {<<d>> : d \in datas}
               \cup (IF source.known THEN {<<d, e>> : d \in datas, e \in ends}
                     ELSE {<<e>> : e \in ends} \cup {<<d1, d2>> : d1 \in datas, d2 \in datas})
  <2>0. Batches = CASE walker = "between" -> starts [] walker = "member" -> goesOn [] OTHER -> {}
    BY DEF Batches
  <2>1. batch \in starts
    <3> HIDE DEF starts, goesOn
    <3> QED BY <2>0
  <2>2. batch \in UNION {{<<Event("header", h), Event("end", claim)>> :
                            claim \in EndClaims(TRUE, h.len)} : h \in {g \in Headers : g.known}}
        => \E h \in Headers : h.known
             /\ \E claim \in EndClaims(TRUE, h.len) :
                  batch = <<Event("header", h), Event("end", claim)>>
    BY Zenon
  <2> QED BY <2>1, <2>2, Zenon
<1>3. CASE batch = <<Event("central", {})>>
  <2>1. PICK e : e = Event("central", {})
    OBVIOUS
  <2>2. /\ Told(core, batch) = OnEvent(core, e) /\ HeldAll(source, batch) = Held(source, e)
        /\ Last(batch) = e
    BY <1>3, <2>1, OneEvent
  <2>3. WalkerAfter(batch) = "central"
    BY <2>1, <2>2 DEF WalkerAfter, Event
  <2>4. Tells(canonical, core, OnEvent(core, e), Held(source, e), "central")
    BY <1>1, <2>1, CentralTells
  <2> QED BY <2>2, <2>3, <2>4 DEF BatchTells
<1>4. CASE \E h \in Headers : batch = <<Event("header", h)>>
  <2>1. PICK h \in Headers : batch = <<Event("header", h)>>
    BY <1>4
  <2>2. PICK e : e = Event("header", h)
    OBVIOUS
  <2>3. /\ Told(core, batch) = OnEvent(core, e) /\ HeldAll(source, batch) = Held(source, e)
        /\ Last(batch) = e
    BY <2>1, <2>2, OneEvent
  <2>4. WalkerAfter(batch) = "member"
    BY <2>2, <2>3 DEF WalkerAfter, Event
  <2>5. Tells(canonical, core, OnEvent(core, e), Held(source, e), "member")
    BY <1>1, <2>2, HeadersAre, HeaderTells
  <2> QED BY <2>3, <2>4, <2>5 DEF BatchTells
<1>5. CASE \E h \in Headers : h.known
           /\ \E claim \in EndClaims(TRUE, h.len) : batch = <<Event("header", h), Event("end", claim)>>
  <2>1. PICK h \in Headers : h.known
           /\ \E claim \in EndClaims(TRUE, h.len) : batch = <<Event("header", h), Event("end", claim)>>
    BY <1>5
  <2>2. PICK claim \in EndClaims(TRUE, h.len) : batch = <<Event("header", h), Event("end", claim)>>
    BY <2>1
  <2>3. PICK e : e = Event("header", h)
    OBVIOUS
  <2>4. PICK f : f = Event("end", claim)
    OBVIOUS
  <2>5. /\ Told(core, batch) = OnEvent(OnEvent(core, e), f)
        /\ HeldAll(source, batch) = Held(Held(source, e), f) /\ Last(batch) = f
    BY <2>2, <2>3, <2>4, TwoEvents
  <2>6. WalkerAfter(batch) = "between" /\ WalkerThen(f) = "between"
    BY <2>4, <2>5 DEF WalkerAfter, Event, WalkerThen
  <2>7. PICK src : src = Held(source, e)
    OBVIOUS
  <2>8. PICK d : d = OnEvent(core, e)
    OBVIOUS
  <2>9. Tells(canonical, core, d, src, "member")
    BY <1>1, <2>3, <2>7, <2>8, HeadersAre, HeaderTells
  <2>10. src \in Sources /\ src.known = h.known /\ src.claim = h.len
    BY <2>3, <2>7, HeadersAre, HeldHeader
  <2>11. claim \in EndClaims(src.known, src.claim)
    <3>1. claim.len = h.len /\ claim.crc \in ClaimedCrc(h.len) /\ claim = [len |-> claim.len, crc |-> claim.crc]
      BY DEF EndClaims
    <3> QED BY <2>1, <2>10, <3>1 DEF EndClaims
  <2>12. IsTail(src, f)
    BY <2>4, <2>11 DEF IsTail
  <2>13. Tells(canonical, core, OnEvent(d, f), Held(src, f), WalkerThen(f))
    BY <2>9, <2>10, <2>12, SecondTells
  <2> QED BY <2>5, <2>6, <2>7, <2>8, <2>13 DEF BatchTells
<1> QED BY <1>2, <1>3, <1>4, <1>5

(* Within a member.                                                         *)
LEMMA MemberTells ==
  ASSUME source \in Sources, walker = "member", Stands(canonical, core, source, walker),
         NEW batch \in Batches
  PROVE  BatchTells(batch) /\ WalkerAfter(batch) \in {"between", "member", "central"}
<1>1. InMember(canonical, core, source)
  BY DEF Stands
<1> DEFINE datas == {Event("data", b) : b \in SourceBytes(source.method)}
           ends == {Event("end", claim) : claim \in EndClaims(source.known, source.claim)}
<1>2. \/ \E e \in datas \cup ends : batch = <<e>>
      \/ \E e \in datas, f \in datas \cup ends : batch = <<e, f>>
  <2>1. batch \in {<<d>> : d \in datas}
            \cup (IF source.known THEN {<<d, e>> : d \in datas, e \in ends}
                  ELSE {<<e>> : e \in ends} \cup {<<d1, d2>> : d1 \in datas, d2 \in datas})
    BY DEF Batches
  <2> HIDE DEF datas, ends
  <2> QED BY <2>1
<1>3. \A e \in datas \cup ends : IsTail(source, e)
  BY DEF IsTail
<1>4. \A e \in datas \cup ends : e.kind \in {"data", "end"}
  BY DEF Event
<1>5. \A e \in datas : e.kind = "data" /\ \E b \in SourceBytes(source.method) : e = Event("data", b)
  BY DEF Event
<1>6. ASSUME NEW e \in datas PROVE /\ Held(source, e).method = source.method
                                   /\ Held(source, e).known = source.known
                                   /\ Held(source, e).claim = source.claim
                                   /\ Held(source, e) \in Sources
  <2>1. PICK b \in SourceBytes(source.method) : e = Event("data", b)
    BY <1>5
  <2>2. e.of.grows \in Nat /\ e.of = b
    BY <1>3, <1>5, <2>1, TailBytes DEF Event
  <2> QED BY <2>1, <2>2, HeldData
<1> HIDE DEF datas, ends
<1>7. CASE \E e \in datas \cup ends : batch = <<e>>
  <2>1. PICK e \in datas \cup ends : batch = <<e>>
    BY <1>7
  <2>2. /\ Told(core, batch) = OnEvent(core, e) /\ HeldAll(source, batch) = Held(source, e)
        /\ Last(batch) = e
    BY <2>1, OneEvent
  <2>3. WalkerAfter(batch) = WalkerThen(e) /\ WalkerThen(e) \in {"between", "member", "central"}
    BY <1>4, <2>2 DEF WalkerAfter, WalkerThen
  <2>4. Tells(canonical, core, OnEvent(core, e), Held(source, e), WalkerThen(e))
    BY <1>1, <1>3, TailTells
  <2> QED BY <2>2, <2>3, <2>4 DEF BatchTells
<1>8. CASE \E e \in datas, f \in datas \cup ends : batch = <<e, f>>
  <2>1. PICK e \in datas, f \in datas \cup ends : batch = <<e, f>>
    BY <1>8
  <2>2. /\ Told(core, batch) = OnEvent(OnEvent(core, e), f)
        /\ HeldAll(source, batch) = Held(Held(source, e), f) /\ Last(batch) = f
    BY <2>1, TwoEvents
  <2>3. WalkerAfter(batch) = WalkerThen(f) /\ WalkerThen(f) \in {"between", "member", "central"}
    BY <1>4, <2>2 DEF WalkerAfter, WalkerThen
  <2>4. PICK src : src = Held(source, e)
    OBVIOUS
  <2>5. PICK d : d = OnEvent(core, e)
    OBVIOUS
  <2>6. Tells(canonical, core, d, src, "member")
    <3>1. WalkerThen(e) = "member" /\ IsTail(source, e)
      BY <1>3, <1>5 DEF WalkerThen
    <3>2. Tells(canonical, core, d, src, WalkerThen(e))
      BY <1>1, <2>4, <2>5, <3>1, TailTells
    <3> QED BY <3>1, <3>2
  <2>7. src \in Sources /\ src.method = source.method /\ src.known = source.known
        /\ src.claim = source.claim
    BY <1>6, <2>4
  <2>8. IsTail(src, f)
    <3>1. IsTail(source, f)
      BY <1>3
    <3> QED BY <2>7, <3>1 DEF IsTail
  <2>9. Tells(canonical, core, OnEvent(d, f), Held(src, f), WalkerThen(f))
    BY <2>6, <2>7, <2>8, SecondTells
  <2> QED BY <2>2, <2>3, <2>4, <2>5, <2>9 DEF BatchTells
<1> QED BY <1>2, <1>7, <1>8

(***************************************************************************)
(* The invariant.                                                          *)
(***************************************************************************)
\* The core stands where the walker does, and all of its steps are drained.
Steady ==
  /\ core.steps = <<>> /\ core.fault = "none"
  /\ \E src : Stands(canonical, core, src, walker)

Rejected == status \notin {"reading", "ended"}

\* The notes of the core are true of what it wrote, wherever it stands, and of a
\* byte that is refused as well.
CanonInv ==
  /\ walker \in {"between", "member", "central"} /\ nth \in Nat \ {0}
  /\ Steady \/ (Rejected /\ Refused(canonical, core))
  /\ status = "reading" => Stands(canonical, core, source, walker)
  /\ ~Rejected => core.check.expected = IF nth = 1 THEN asked ELSE AnyKind
  /\ status = "ended" => CheckCloses(core.check) = "none" /\ walker = "central"
  /\ source \in Sources
  /\ status \in DecodeFaults => ~source.sound

(* A new core stands between two members.                                   *)
LEMMA NewCoreStands ==
  ASSUME NEW expected, NEW observed \in BOOLEAN, NEW c, c = NewCore(expected, observed)
  PROVE  /\ BehindMember(<<>>, c) /\ c.check.expected = expected /\ c.fault = "none"
         /\ c.steps = <<>>
<1>1. PICK no \in BOOLEAN : no = FALSE
  OBVIOUS
<1>2. PICK check : check = [expected |-> expected, seen |-> 0, mains |-> {}, signed |-> no]
  OBVIOUS
<1>3. PICK heard : heard = [members |-> <<>>, end |-> None]
  OBVIOUS
<1>4. c = [check |-> check, decoder |-> NoDecoder, member |-> NoMember,
           entries |-> <<>>, names |-> 0, offset |-> 0, tail |-> no, fault |-> "none",
           steps |-> <<>>, observed |-> observed, heard |-> heard]
  BY <1>1, <1>2, <1>3 DEF NewCore, NewCheck, Nothing
<1>5. /\ c.check = check /\ c.decoder = NoDecoder /\ c.member = NoMember /\ c.entries = <<>>
      /\ c.offset = 0 /\ c.tail = no /\ c.fault = "none" /\ c.steps = <<>>
      /\ c.observed = observed /\ c.heard = heard
  BY <1>4
<1>6. IsCore(c)
  <2>1. IsCheck(c.check)
    BY <1>2, <1>5 DEF IsCheck
  <2>2. c.heard = [members |-> c.heard.members, end |-> c.heard.end]
    BY <1>3, <1>5
  <2>3. c = [check |-> c.check, decoder |-> c.decoder, member |-> c.member, entries |-> c.entries,
             names |-> c.names, offset |-> c.offset, tail |-> c.tail, fault |-> c.fault,
             steps |-> c.steps, observed |-> c.observed, heard |-> c.heard]
    BY <1>4
  <2> QED BY <1>5, <2>1, <2>2, <2>3 DEF IsCore
<1>7. PICK k \in Nat : k = 0
  OBVIOUS
<1>8. PICK s : s = <<>>
  OBVIOUS
<1>9. s \in Seq({}) /\ Len(s) = 0
  BY <1>8
<1>10. PICK at : at = [n \in 1..k |-> 0]
  OBVIOUS
<1>11. 1..k = {}
  BY <1>7
<1>12. Out(<<>>, c, s)
  <2>1. PICK S : S = {}
    OBVIOUS
  <2>2. <<>> \in Seq(S) /\ <<>> \o <<>> = <<>> /\ \A q \in S : q.length \in Nat
    BY <2>1
  <2> QED BY <1>5, <1>8, <2>2 DEF Out
<1>13. c.offset = Lengths(s)
  BY <1>5, <1>8, NoLength
<1>14. Marked(s, k, at)
  <2>1. at \in [1..k -> 1..Len(s)]
    BY <1>10, <1>11
  <2>2. \A i \in 1..Len(s) : FALSE
    BY <1>9
  <2> QED BY <1>11, <2>1, <2>2 DEF Marked
<1>15. AllEnded(s, k, at)
  BY <1>11 DEF AllEnded
<1>16. EntriesTrue(c.entries, s, at) /\ Len(c.entries) = 0
  <2>1. <<>> \in Seq(EntryRecords) /\ Len(<<>>) = 0
    OBVIOUS
  <2> QED BY <1>5, <2>1 DEF EntriesTrue
<1>17. HeardTrue(c.heard.members, s, k, at, Len(c.entries))
  <2>1. <<>> \in Seq(Hearings) /\ Len(<<>>) = 0
    OBVIOUS
  <2> QED BY <1>3, <1>5, <1>7, <1>11, <2>1 DEF HeardTrue
<1>18. CheckTrue(c.check, s, k, at)
  <2>1. check.seen = k /\ ~check.signed /\ check.mains = {}
    BY <1>1, <1>2, <1>7
  <2>2. {s[at[n]].name : n \in 1..k} = {}
    BY <1>11
  <2>3. \A n \in 1..k : FALSE
    BY <1>11
  <2>4. ~(k > 0)
    BY <1>7
  <2> QED BY <1>5, <2>1, <2>2, <2>3, <2>4 DEF CheckTrue
<1>19. Booked(<<>>, c, s, k, at)
  <2>1. Len(c.entries) <= k
    BY <1>7, <1>16
  <2> QED BY <1>6, <1>12, <1>13, <1>14, <1>15, <1>16, <1>17, <1>18, <2>1 DEF Booked
<1>20. AtRest(<<>>, c, s, k, at)
  BY <1>1, <1>5, <1>7, <1>16, <1>19 DEF AtRest
<1> QED BY <1>2, <1>5, <1>20 DEF BehindMember

(* No source yet.                                                           *)
LEMMA NoSourceIs == NoSource \in Sources
<1>1. PICK no \in BOOLEAN : no = FALSE
  OBVIOUS
<1>2. PICK yes \in BOOLEAN : yes = TRUE
  OBVIOUS
<1>3. NoSource = [method |-> "none", known |-> no, claim |-> 0, crc |-> 0, bytes |-> 0, len |-> 0,
                  over |-> no, sound |-> yes]
  BY <1>1, <1>2 DEF NoSource
<1> QED BY <1>3 DEF Sources

LEMMA CanonInvInit == CanonInit => CanonInv
<1> SUFFICES ASSUME CanonInit PROVE CanonInv
  OBVIOUS
<1>1. /\ nth = 1 /\ core = NewCore(asked, TRUE) /\ canonical = <<>> /\ walker = "between"
      /\ source = NoSource /\ status = "reading"
  BY DEF CanonInit
<1>2. /\ BehindMember(<<>>, core) /\ core.check.expected = asked /\ core.fault = "none"
      /\ core.steps = <<>>
  <2>1. \A observed \in BOOLEAN :
          /\ BehindMember(<<>>, NewCore(asked, observed))
          /\ NewCore(asked, observed).check.expected = asked
          /\ NewCore(asked, observed).fault = "none"
          /\ NewCore(asked, observed).steps = <<>>
    BY NewCoreStands
  <2> QED BY <1>1, <2>1, Zenon
<1>3. Stands(canonical, core, source, walker)
  BY <1>1, <1>2 DEF Stands
<1>4. status \notin DecodeFaults /\ source \in Sources
  BY <1>1, NoSourceIs DEF DecodeFaults
<1>5. nth \in Nat \ {0} /\ (IF nth = 1 THEN asked ELSE AnyKind) = asked
  BY <1>1
<1>6. Steady
  BY <1>2, <1>3 DEF Steady
<1> QED BY <1>1, <1>2, <1>3, <1>4, <1>5, <1>6 DEF CanonInv, Rejected

(* A byte the walker accepts.                                               *)
LEMMA CanonInvConsume ==
  ASSUME CanonInv, ConsumeByte PROVE CanonInv'
<1>1. PICK batch \in Batches :
        LET told == Told(core, batch) IN
        /\ source' = HeldAll(source, batch) /\ source'.bytes <= MaxSource
        /\ IF told.fault # "none" THEN Reject([told EXCEPT !.fault = "none"], told.fault)
           ELSE /\ core' = [told EXCEPT !.steps = <<>>]
                /\ canonical' = canonical \o told.steps
                /\ walker' = WalkerAfter(batch)
                /\ UNCHANGED <<status, asked, nth>>
  BY DEF ConsumeByte
<1>2. PICK told : told = Told(core, batch)
  OBVIOUS
<1>3. PICK new : new = HeldAll(source, batch)
  OBVIOUS
<1>4. /\ status = "reading" /\ source \in Sources /\ Stands(canonical, core, source, walker)
      /\ walker \in {"between", "member", "central"} /\ nth \in Nat \ {0}
      /\ core.check.expected = IF nth = 1 THEN asked ELSE AnyKind
  BY DEF CanonInv, ConsumeByte, Rejected
<1>5. walker # "central"
  BY NoneBehindDirectory
<1>6. BatchTells(batch) /\ WalkerAfter(batch) \in {"between", "member", "central"}
  BY <1>4, <1>5, BetweenTells, MemberTells
<1>7. PICK w : w = WalkerAfter(batch)
  OBVIOUS
<1>8. /\ new \in Sources
      /\ told.fault \in Faults /\ (told.fault \in DecodeFaults => ~new.sound)
      /\ told.fault # "none" => Refused(canonical, told)
      /\ told.fault = "none" => Stands(canonical, told, new, w) /\ Keeps(core, told)
  BY <1>2, <1>3, <1>6, <1>7 DEF BatchTells, Tells
<1>9. source' = new
  BY <1>1, <1>3
<1>10. CASE told.fault # "none"
  <2>1. /\ status' = told.fault /\ core' = [told EXCEPT !.fault = "none"]
        /\ canonical' = canonical /\ walker' = walker /\ asked' = asked /\ nth' = nth
    BY <1>1, <1>2, <1>10 DEF Reject
  <2>2. status' # "reading" /\ status' # "ended"
    BY <1>8, <1>10, <2>1 DEF Faults, DecodeFaults
  <2>3. status' \in DecodeFaults => ~source'.sound
    BY <1>8, <1>9, <2>1
  <2>4. Refused(canonical', core')
    BY <1>8, <1>10, <2>1, RefusedTaken
  <2> QED BY <1>4, <1>8, <1>9, <2>1, <2>2, <2>3, <2>4 DEF CanonInv, Rejected
<1>11. CASE told.fault = "none"
  <2>1. /\ core' = [told EXCEPT !.steps = <<>>] /\ canonical' = canonical \o told.steps
        /\ walker' = w /\ status' = status /\ asked' = asked /\ nth' = nth
    BY <1>1, <1>2, <1>7, <1>11
  <2>2. Drains(canonical, told, canonical', core')
    BY <2>1 DEF Drains
  <2>3. Stands(canonical', core', new, w)
    BY <1>8, <1>11, <2>2, StandsDrained
  <2>4. core'.steps = <<>> /\ core'.fault = "none" /\ core'.check = told.check
    <3>1. IsCore(told)
      <4>1. CASE w = "between"
        BY <1>8, <1>11, <4>1 DEF Stands, BehindMember, AtRest, Booked
      <4>2. CASE w = "member"
        BY <1>8, <1>11, <4>2 DEF Stands, InMember, Within, Booked
      <4>3. CASE w = "central"
        BY <1>8, <1>11, <4>3 DEF Stands, BehindDirectory, WithDirectory, Booked
      <4> QED BY <1>6, <1>7, <4>1, <4>2, <4>3
    <3> QED BY <1>11, <2>1, <3>1 DEF IsCore
  <2>5. core'.check.expected = core.check.expected
    BY <1>8, <1>11, <2>4 DEF Keeps
  <2>6. status' = "reading" /\ status' \notin DecodeFaults
    BY <1>4, <2>1 DEF DecodeFaults
  <2>7. Steady'
    BY <2>1, <2>3, <2>4 DEF Steady
  <2> QED BY <1>4, <1>6, <1>7, <1>8, <1>9, <2>1, <2>3, <2>5, <2>6, <2>7 DEF CanonInv, Rejected
<1> QED BY <1>10, <1>11

(* A byte the walker refuses, of which it told a header at most.            *)
LEMMA CanonInvRefused ==
  ASSUME CanonInv, WalkerRefuses PROVE CanonInv'
<1>1. /\ status = "reading" /\ source \in Sources /\ Steady
      /\ walker \in {"between", "member", "central"} /\ nth \in Nat \ {0}
      /\ Stands(canonical, core, source, walker)
  BY DEF CanonInv, WalkerRefuses, Rejected
<1>2. /\ status' = "Zip" /\ canonical' = canonical /\ walker' = walker /\ nth' = nth
  BY DEF WalkerRefuses, Reject
<1>3. status' # "reading" /\ status' # "ended" /\ status' \notin DecodeFaults
  BY <1>2 DEF DecodeFaults
<1>4. CASE core' = core /\ source' = source
  <2>1. Steady'
    BY <1>1, <1>2, <1>4 DEF Steady
  <2> QED BY <1>1, <1>2, <1>3, <1>4, <2>1 DEF CanonInv, Rejected
<1>5. CASE walker = "between" /\ \E h \in Headers : /\ source' = Held(source, Event("header", h))
                                                  /\ core' = OnEvent(core, Event("header", h))
  <2>1. PICK h \in Headers : /\ source' = Held(source, Event("header", h))
                             /\ core' = OnEvent(core, Event("header", h))
    BY <1>5
  <2>2. PICK d : d = OnEvent(core, Event("header", h))
    OBVIOUS
  <2>3. PICK new : new = Held(source, Event("header", h))
    OBVIOUS
  <2>4. BehindMember(canonical, core)
    BY <1>1, <1>5 DEF Stands
  <2>5. Tells(canonical, core, d, new, "member")
    BY <2>2, <2>3, <2>4, HeadersAre, HeaderTells
  <2>6. new \in Sources /\ Refused(canonical, d)
    <3>1. CASE d.fault # "none"
      BY <2>5, <3>1 DEF Tells
    <3>2. CASE d.fault = "none"
      <4>1. InMember(canonical, d, new)
        BY <2>5, <3>2 DEF Tells, Stands
      <4> QED BY <2>5, <4>1, MemberNoted DEF Tells
    <3> QED BY <3>1, <3>2
  <2>7. source' \in Sources /\ Refused(canonical', core')
    BY <1>2, <2>1, <2>2, <2>3, <2>6
  <2> QED BY <1>1, <1>2, <1>3, <2>7 DEF CanonInv, Rejected
<1>6. \/ core' = core /\ source' = source
      \/ walker = "between" /\ \E h \in Headers : /\ source' = Held(source, Event("header", h))
                                                /\ core' = OnEvent(core, Event("header", h))
  BY DEF WalkerRefuses, Reject
<1> QED BY <1>4, <1>5, <1>6

(* A package the check refuses, or the end of one.                          *)
LEMMA CanonInvStops ==
  ASSUME CanonInv, Finish PROVE CanonInv'
<1>1. /\ status = "reading" /\ source \in Sources /\ Steady
      /\ walker \in {"between", "member", "central"} /\ nth \in Nat \ {0}
      /\ core.check.expected = IF nth = 1 THEN asked ELSE AnyKind
  BY DEF CanonInv, Finish, Rejected
<1>2. PICK fault : fault = CheckCloses(core.check)
  OBVIOUS
<1>3. fault \in {"NotOoxmlPackage", "UnrecognizedPackage", "MissingMainPart", "none"}
  BY <1>2 DEF CheckCloses
<1>4. /\ core' = core /\ canonical' = canonical /\ walker' = walker /\ source' = source
      /\ asked' = asked /\ nth' = nth
      /\ status' \in {"ended", "NotOoxmlPackage", "UnrecognizedPackage", "MissingMainPart"}
      /\ status' = "ended" => fault = "none" /\ walker = "central"
  <2>1. CASE fault # "none"
    BY <1>2, <1>3, <2>1 DEF Finish, Reject
  <2>2. CASE fault = "none"
    BY <1>2, <2>2 DEF Finish
  <2> QED BY <2>1, <2>2
<1>5. status' # "reading" /\ status' \notin DecodeFaults
  BY <1>4 DEF DecodeFaults
<1>6. Steady'
  BY <1>1, <1>4 DEF Steady
<1>7. status' = "ended" => CheckCloses(core'.check) = "none" /\ walker' = "central"
  BY <1>2, <1>4
<1> QED BY <1>1, <1>4, <1>5, <1>6, <1>7 DEF CanonInv

(* A new package for the chunker.                                           *)
LEMMA CanonInvReuse ==
  ASSUME CanonInv, Reuse PROVE CanonInv'
<1>1. /\ core' = NewCore(AnyKind, FALSE) /\ canonical' = <<>> /\ walker' = "between"
      /\ source' = NoSource /\ status' = "reading" /\ nth' = nth + 1
  BY DEF Reuse
<1>2. /\ BehindMember(<<>>, core') /\ core'.check.expected = AnyKind /\ core'.fault = "none"
      /\ core'.steps = <<>>
  <2>1. \A observed \in BOOLEAN :
          /\ BehindMember(<<>>, NewCore(AnyKind, observed))
          /\ NewCore(AnyKind, observed).check.expected = AnyKind
          /\ NewCore(AnyKind, observed).fault = "none"
          /\ NewCore(AnyKind, observed).steps = <<>>
    BY NewCoreStands
  <2> QED BY <1>1, <2>1, Zenon
<1>3. Stands(canonical', core', source', walker')
  BY <1>1, <1>2 DEF Stands
<1>4. nth' \in Nat \ {0} /\ nth' # 1
  BY <1>1 DEF CanonInv
<1>5. Steady'
  BY <1>2, <1>3 DEF Steady
<1> QED BY <1>1, <1>2, <1>3, <1>4, <1>5, NoSourceIs DEF CanonInv, DecodeFaults

LEMMA CanonInvNext == CanonInv /\ [CanonNext]_canonVars => CanonInv'
<1> SUFFICES ASSUME CanonInv, [CanonNext]_canonVars PROVE CanonInv'
  OBVIOUS
<1>1. CASE ConsumeByte
  BY <1>1, CanonInvConsume
<1>2. CASE WalkerRefuses
  BY <1>2, CanonInvRefused
<1>3. CASE Finish
  BY <1>3, CanonInvStops
<1>4. CASE Reuse
  BY <1>4, CanonInvReuse
<1>5. CASE UNCHANGED canonVars
  BY <1>5 DEF canonVars, CanonInv, Steady, Rejected
<1> QED BY <1>1, <1>2, <1>3, <1>4, <1>5 DEF CanonNext

LEMMA CanonInvariant == CanonSpec => []CanonInv
<1>1. CanonInit => CanonInv
  BY CanonInvInit
<1>2. CanonInv /\ [CanonNext]_canonVars => CanonInv'
  BY CanonInvNext
<1> QED BY <1>1, <1>2, PTL DEF CanonSpec

(***************************************************************************)
(* What the notes of the core say of the canonical package.                *)
(***************************************************************************)
\* The first n of an ascending count.
Ascends(at, n) ==
  /\ \A m \in 1..n : at[m] \in Nat
  /\ \A l, m \in 1..n : l < m => at[l] < at[m]

FirstOf(at, n) == {at[m] : m \in 1..n}

LEMMA AscendingCount ==
  ASSUME NEW n \in Nat, NEW at, Ascends(at, n)
  PROVE  Cardinality(FirstOf(at, n)) = n
<1> DEFINE f == [m \in 1..n |-> at[m]]
<1>1. f \in [1..n -> FirstOf(at, n)]
  BY DEF FirstOf
<1>2. ASSUME NEW l \in 1..n, NEW m \in 1..n, f[l] = f[m] PROVE l = m
  <2>1. at[l] = at[m] /\ at[l] \in Nat /\ at[m] \in Nat
    BY <1>2 DEF Ascends
  <2>2. ~(l < m) /\ ~(m < l)
    BY <2>1 DEF Ascends
  <2> QED BY <2>2
<1>3. \A x \in FirstOf(at, n) : \E m \in 1..n : f[m] = x
  BY DEF FirstOf
<1>4. f \in Bijection(1..n, FirstOf(at, n))
  BY <1>1, <1>2, <1>3 DEF Bijection, Injection, Surjection, IsInjective
<1> QED BY <1>4, FS_CountingElements DEF ExistsBijection

(* The nth local header is where the notes have it.                         *)
LEMMA LocalsAreMarked ==
  ASSUME NEW s, IsStream(s), NEW k \in Nat, NEW at, Marked(s, k, at)
  PROVE  /\ Cardinality(Locals(s)) = k
         /\ \A n \in 1..k : NthLocal(s, n) = at[n] /\ at[n] \in 1..Len(s)
                            /\ s[at[n]].kind = "local"
<1>1. PICK len \in Nat : len = Len(s) /\ DOMAIN s = 1..len
  BY LengthsOf
<1>2. /\ at \in [1..k -> 1..len]
      /\ \A n \in 1..k : s[at[n]].kind = "local"
      /\ \A i \in 1..len : s[i].kind = "local" => \E n \in 1..k : at[n] = i
      /\ \A m, n \in 1..k : m < n => at[m] < at[n]
  BY <1>1 DEF Marked
<1>3. Locals(s) = FirstOf(at, k)
  <2>1. Locals(s) = {i \in 1..len : s[i].kind = "local"}
    BY <1>1 DEF Locals
  <2>2. \A n \in 1..k : at[n] \in 1..len
    BY <1>2
  <2>3. \A i \in Locals(s) : i \in FirstOf(at, k)
    BY <1>2, <2>1 DEF FirstOf
  <2>4. \A i \in FirstOf(at, k) : i \in Locals(s)
    BY <1>2, <2>1, <2>2 DEF FirstOf
  <2> QED BY <2>3, <2>4
<1>4. \A n \in 1..k : Ascends(at, n) /\ n \in Nat
  BY <1>2 DEF Ascends
<1>5. Ascends(at, k)
  BY <1>2 DEF Ascends
<1>6. Cardinality(Locals(s)) = k
  BY <1>3, <1>5, AscendingCount
<1>7. ASSUME NEW n \in 1..k
      PROVE  Cardinality({j \in Locals(s) : j <= at[n]}) = n
  <2>1. \A m \in 1..k : at[m] \in Nat
    BY <1>2
  <2>2. \A m \in 1..k : at[m] <= at[n] <=> m <= n
    <3> SUFFICES ASSUME NEW m \in 1..k PROVE at[m] <= at[n] <=> m <= n
      OBVIOUS
    <3>1. CASE m = n
      BY <2>1, <3>1
    <3>2. CASE m < n
      BY <1>2, <2>1, <3>2
    <3>3. CASE n < m
      BY <1>2, <2>1, <3>3
    <3> QED BY <3>1, <3>2, <3>3
  <2>3. {j \in Locals(s) : j <= at[n]} = FirstOf(at, n)
    BY <1>3, <2>2 DEF FirstOf
  <2> QED BY <1>4, <2>3, AscendingCount
<1>8. ASSUME NEW n \in 1..k PROVE NthLocal(s, n) = at[n]
  <2>1. at[n] \in Locals(s)
    BY <1>3 DEF FirstOf
  <2>2. ASSUME NEW i \in Locals(s), Cardinality({j \in Locals(s) : j <= i}) = n
        PROVE  i = at[n]
    <3>1. PICK m \in 1..k : i = at[m]
      BY <1>3 DEF FirstOf
    <3>2. m = n
      BY <1>7, <2>2, <3>1
    <3> QED BY <3>1, <3>2
  <2>3. \A i \in Locals(s) : Cardinality({j \in Locals(s) : j <= i}) = n <=> i = at[n]
    BY <1>7, <2>1, <2>2
  <2> QED BY <2>1, <2>3 DEF NthLocal
<1> QED BY <1>1, <1>2, <1>6, <1>8

(* The offsets and the contents are those the properties speak of.          *)
LEMMA OffsetsAre ==
  ASSUME NEW s, NEW i PROVE StartOf(s, i) = StartIn(s, i) /\ ContentOf(s, i) = ContentIn(s, i)
<1>1. StartOf(s, i) = StartIn(s, i)
  BY DEF StartOf, StartIn
<1>2. ContentOf(s, i) = ContentIn(s, i)
  BY DEF ContentOf, ContentIn, Enders, Closers
<1> QED BY <1>1, <1>2

(* Nothing waits to be drained between two bytes.                           *)
LEMMA AllDrained ==
  ASSUME core.steps = <<>>, NEW s, Out(canonical, core, s)
  PROVE  s = canonical /\ IsStream(canonical)
<1>1. PICK S : /\ canonical \in Seq(S) /\ s = canonical \o core.steps
               /\ \A q \in S : q.length \in Nat
  BY DEF Out
<1>2. canonical \o <<>> = canonical
  BY ONLY <1>1, ConcatEmptySeq
<1> QED BY <1>1, <1>2 DEF IsStream

(* A value that needs no ZIP64 field fits its own.                          *)
LEMMA Wraps == ASSUME NEW n \in Nat, NEW m \in Nat, n < m PROVE n % m = n
OBVIOUS

LEMMA FieldsHold ==
  ASSUME NEW n \in Nat, NEW z \in BOOLEAN, NeedsZip64(n) => z
  PROVE  Value(Field(n, z), Limit32) = n
<1>1. Limit32 \in Nat
  BY CanonicalAssumption
<1>2. PICK f : f = Field(n, z)
  OBVIOUS
<1>3. CASE z
  <2>1. f = [low |-> Limit32, wide |-> n]
    BY <1>2, <1>3 DEF Field
  <2> QED BY <1>2, <2>1 DEF Value
<1>4. CASE ~z
  <2>1. n < Limit32 /\ n < Limit32 + 1 /\ Limit32 + 1 \in Nat
    BY <1>1, <1>4 DEF NeedsZip64
  <2>2. n % (Limit32 + 1) = n
    BY <2>1, Wraps
  <2>3. f = [low |-> n, wide |-> None]
    BY <1>2, <1>4, <2>2 DEF Field
  <2>4. f.low = n /\ n # Limit32
    BY <1>1, <2>1, <2>3
  <2> QED BY <1>2, <2>4 DEF Value
<1> QED BY <1>3, <1>4

\* The notes of the core, said of the canonical package itself.
Notes(k, at) ==
  /\ Booked(canonical, core, canonical, k, at) /\ k = Len(core.entries)
  /\ core.tail => TailTrue(core, canonical, k)
  /\ IsStream(canonical)

LEMMA NotesOutside ==
  ASSUME CanonInv, Steady, walker # "member"
  PROVE  \E k \in Nat : \E at : Notes(k, at)
<1>1. /\ core.steps = <<>> /\ walker \in {"between", "member", "central"}
      /\ \E src : Stands(canonical, core, src, walker)
  BY DEF CanonInv, Steady
<1>2. CASE walker = "between"
  <2>1. PICK s : \E k \in Nat : \E at : AtRest(canonical, core, s, k, at)
    BY <1>1, <1>2 DEF Stands, BehindMember
  <2>2. PICK k \in Nat : \E at : AtRest(canonical, core, s, k, at)
    BY <2>1
  <2>3. PICK at : AtRest(canonical, core, s, k, at)
    BY <2>2
  <2>4. Booked(canonical, core, s, k, at) /\ k = Len(core.entries) /\ ~core.tail
    BY <2>3 DEF AtRest
  <2>5. Out(canonical, core, s)
    BY <2>4 DEF Booked
  <2>6. s = canonical /\ IsStream(canonical)
    BY <1>1, <2>5, AllDrained
  <2> QED BY <2>4, <2>6 DEF Notes
<1>3. CASE walker = "central"
  <2>1. PICK s : \E k \in Nat : \E at : WithDirectory(canonical, core, s, k, at)
    BY <1>1, <1>3 DEF Stands, BehindDirectory
  <2>2. PICK k \in Nat : \E at : WithDirectory(canonical, core, s, k, at)
    BY <2>1
  <2>3. PICK at : WithDirectory(canonical, core, s, k, at)
    BY <2>2
  <2>4. Booked(canonical, core, s, k, at) /\ k = Len(core.entries) /\ TailTrue(core, s, k)
    BY <2>3 DEF WithDirectory
  <2>5. Out(canonical, core, s)
    BY <2>4 DEF Booked
  <2>6. s = canonical /\ IsStream(canonical)
    BY <1>1, <2>5, AllDrained
  <2> QED BY <2>4, <2>6 DEF Notes
<1> QED BY <1>1, <1>2, <1>3

LEMMA NoDirectoryWithin == ASSUME CanonInv, core.tail PROVE Steady /\ walker # "member"
<1>0. Steady
  BY DEF CanonInv, Refused
<1>1. SUFFICES ASSUME walker = "member" PROVE ~core.tail
  BY <1>0
<1>2. \E src : InMember(canonical, core, src)
  BY <1>0, <1>1 DEF Steady, Stands
<1>3. \E s : \E k \in Nat : \E at : Within(canonical, core, s, k, at)
  BY <1>2 DEF InMember
<1> QED BY <1>3 DEF Within

(* What a reader finds of one entry.                                        *)
LEMMA EntryReads ==
  ASSUME NEW s, IsStream(s), NEW i \in 1..Len(s), NEW e \in EntryRecords, EntryTrue(e, s, i),
         NEW entry, entry = CentralHeader(e)
  PROVE  /\ entry.name = s[i].name
         /\ Value(entry.at, Limit32) = StartIn(s, i)
         /\ Value(entry.size, Limit32) = ContentIn(s, i) /\ entry.crc = ContentIn(s, i)
         /\ s[i].known => Value(s[i].size, Limit32) = ContentIn(s, i)
         /\ entry.descriptor = ~s[i].known
<1>1. e.at \in Nat /\ e.len \in Nat
  BY DEF EntryRecords
<1>2. /\ e.name = s[i].name /\ e.at = StartIn(s, i)
      /\ e.len = ContentIn(s, i) /\ e.crc = ContentIn(s, i)
      /\ e.descriptor = ~s[i].known
      /\ s[i].known => s[i].size = Field(ContentIn(s, i), NeedsZip64(ContentIn(s, i)))
  BY DEF EntryTrue
<1>3. /\ entry.name = e.name /\ entry.crc = e.crc /\ entry.descriptor = e.descriptor
      /\ entry.size = Field(e.len, NeedsZip64(e.len))
      /\ entry.at = Field(e.at, NeedsZip64(e.at))
  BY DEF CentralHeader
<1>4. \A n \in Nat : NeedsZip64(n) \in BOOLEAN
  BY DEF NeedsZip64
<1>5. \A n \in Nat : Value(Field(n, NeedsZip64(n)), Limit32) = n
  BY <1>4, FieldsHold
<1>6. Value(entry.at, Limit32) = e.at /\ Value(entry.size, Limit32) = e.len
  BY <1>1, <1>3, <1>5
<1>7. s[i].known => Value(s[i].size, Limit32) = ContentIn(s, i)
  BY <1>1, <1>2, <1>5
<1> QED BY <1>2, <1>3, <1>6, <1>7

(* What a reader finds in the end record.                                   *)
LEMMA TailReads ==
  ASSUME NEW entries \in Seq(EntryRecords), NEW at \in Nat, NEW tail,
         tail = TailRecords(entries, at)
  PROVE  /\ Value(tail.count, Limit16) = Len(entries) /\ Len(tail.directory) = Len(entries)
         /\ Value(tail.at, Limit32) = at
         /\ Value(tail.size, Limit32) = Lengths(tail.directory)
         /\ \A i \in 1..Len(entries) : tail.directory[i] = CentralHeader(entries[i])
<1>1. PICK n \in Nat : n = Len(entries) /\ DOMAIN entries = 1..n
  BY LenProperties
<1>2. PICK directory : directory = [i \in DOMAIN entries |-> CentralHeader(entries[i])]
  OBVIOUS
<1>3. PICK size \in Nat : size = Lengths(directory)
  BY <1>2, DirectoryHasLength
<1>4. Len(directory) = n
  BY <1>1, <1>2, DirectoryHasLength
<1>5. PICK zip64 \in BOOLEAN :
        zip64 = (\/ n >= Limit16 \/ NeedsZip64(size) \/ NeedsZip64(at)
                 \/ \E i \in DOMAIN entries :
                      NeedsZip64(entries[i].len) \/ NeedsZip64(entries[i].at))
  OBVIOUS
<1>6. /\ tail.directory = directory /\ tail.size = Field(size, zip64) /\ tail.at = Field(at, zip64)
      /\ tail.count = IF zip64 THEN [low |-> Limit16, wide |-> n]
                      ELSE [low |-> n % (Limit16 + 1), wide |-> None]
  BY <1>1, <1>2, <1>3, <1>5 DEF TailRecords
<1>7. (NeedsZip64(size) => zip64) /\ (NeedsZip64(at) => zip64) /\ (n >= Limit16 => zip64)
  BY <1>5
<1>8. Value(tail.at, Limit32) = at /\ Value(tail.size, Limit32) = size
  BY <1>6, <1>7, FieldsHold
<1>9. Limit16 \in Nat
  BY CanonicalAssumption
<1>10. Value(tail.count, Limit16) = n
  <2>1. CASE zip64
    <3>1. tail.count = [low |-> Limit16, wide |-> n]
      BY <1>6, <2>1
    <3> QED BY <3>1 DEF Value
  <2>2. CASE ~zip64
    <3>1. n < Limit16 /\ n < Limit16 + 1 /\ Limit16 + 1 \in Nat
      BY <1>7, <1>9, <2>2
    <3>2. n % (Limit16 + 1) = n
      BY <3>1, Wraps
    <3>3. tail.count = [low |-> n, wide |-> None]
      BY <1>6, <2>2, <3>2
    <3>4. tail.count.low = n /\ n # Limit16
      BY <1>9, <3>1, <3>3
    <3> QED BY <3>4 DEF Value
  <2> QED BY <2>1, <2>2
<1> QED BY <1>1, <1>2, <1>3, <1>4, <1>6, <1>8, <1>10

LEMMA DirectoryStands == CanonInv => DirectoryIsTrue
<1> SUFFICES ASSUME CanonInv, core.tail PROVE DirectoryIsTrue
  BY DEF DirectoryIsTrue
<1>1. PICK k \in Nat : \E at : Notes(k, at)
  BY NoDirectoryWithin, NotesOutside
<1>2. PICK at : Notes(k, at)
  BY <1>1
<1>3. /\ Booked(canonical, core, canonical, k, at) /\ k = Len(core.entries)
      /\ TailTrue(core, canonical, k) /\ IsStream(canonical)
  BY <1>2 DEF Notes
<1>4. /\ Marked(canonical, k, at)
      /\ core.entries \in Seq(EntryRecords)
      /\ \A n \in 1..k : EntryTrue(core.entries[n], canonical, at[n])
  BY <1>3 DEF Booked, EntriesTrue
<1>5. /\ Cardinality(Locals(canonical)) = k
      /\ \A n \in 1..k : NthLocal(canonical, n) = at[n] /\ at[n] \in 1..Len(canonical)
  BY <1>3, <1>4, LocalsAreMarked
<1>6. PICK t \in Nat : t = Len(canonical) /\ t \in 1..Len(canonical)
  BY <1>3, LengthsOf DEF TailTrue
<1>7. PICK tail : tail = canonical[t]
  OBVIOUS
<1>8. tail = TailRecords(core.entries, StartIn(canonical, t))
  BY <1>3, <1>6, <1>7 DEF TailTrue
<1>9. StartIn(canonical, t) \in Nat
  BY <1>3, <1>6, ContentTyped
<1>10. /\ Value(tail.count, Limit16) = k /\ Len(tail.directory) = k
       /\ Value(tail.at, Limit32) = StartIn(canonical, t)
       /\ Value(tail.size, Limit32) = Lengths(tail.directory)
       /\ \A n \in 1..k : tail.directory[n] = CentralHeader(core.entries[n])
  BY <1>3, <1>4, <1>8, <1>9, TailReads
<1>11. ASSUME NEW n \in 1..k, NEW i, i = NthLocal(canonical, n), NEW entry, entry = tail.directory[n]
       PROVE  /\ entry.name = canonical[i].name
              /\ Value(entry.at, Limit32) = StartOf(canonical, i)
              /\ Value(entry.size, Limit32) = ContentOf(canonical, i) /\ entry.crc = ContentOf(canonical, i)
              /\ canonical[i].known => Value(canonical[i].size, Limit32) = ContentOf(canonical, i)
              /\ entry.descriptor = ~canonical[i].known
  <2>1. i = at[n] /\ i \in 1..Len(canonical) /\ EntryTrue(core.entries[n], canonical, i)
    BY <1>4, <1>5, <1>11
  <2>2. PICK e \in EntryRecords : e = core.entries[n]
    BY <1>3, <1>4, ElementOfSeq
  <2>3. entry = CentralHeader(e) /\ EntryTrue(e, canonical, i)
    BY <1>10, <1>11, <2>1, <2>2
  <2> QED BY <1>3, <2>1, <2>3, EntryReads, OffsetsAre
<1> QED BY <1>5, <1>6, <1>7, <1>10, <1>11, OffsetsAre DEF DirectoryIsTrue

\* What the core tells its observer, next to all that it wrote.
Tallied(s, k, at) ==
  /\ Booked(canonical, core, s, k, at)
  /\ \/ k = Len(core.entries)
     \/ k = Len(core.entries) + 1 /\ (walker = "member" \/ Rejected)
  /\ core.tail /\ core.observed => core.heard.end = k

LEMMA NotesEverywhere ==
  ASSUME CanonInv PROVE \E s : \E k \in Nat : \E at : Tallied(s, k, at)
<1>1. CASE Steady /\ walker # "member"
  <2>1. PICK k \in Nat : \E at : Notes(k, at)
    BY <1>1, NotesOutside
  <2>2. PICK at : Notes(k, at)
    BY <2>1
  <2>3. Tallied(canonical, k, at)
    BY <2>2 DEF Notes, Tallied, TailTrue
  <2> QED BY <2>3
<1>2. CASE Steady /\ walker = "member"
  <2>1. PICK src : InMember(canonical, core, src)
    BY <1>2 DEF Steady, Stands
  <2>2. PICK s : \E k \in Nat : \E at, i : MemberAt(canonical, core, s, k, at, i, src)
    BY <2>1, MemberIsAt
  <2>3. PICK k \in Nat : \E at, i : MemberAt(canonical, core, s, k, at, i, src)
    BY <2>2
  <2>4. PICK at, i : MemberAt(canonical, core, s, k, at, i, src)
    BY <2>3
  <2>5. Tallied(s, k, at)
    BY <1>2, <2>4 DEF MemberAt, Within, Tallied
  <2> QED BY <2>5
<1>3. CASE Rejected /\ Refused(canonical, core)
  <2>1. PICK s : \E k \in Nat : \E at : Booked(canonical, core, s, k, at) /\ k <= Len(core.entries) + 1
    BY <1>3 DEF Refused, Noted
  <2>2. PICK k \in Nat : \E at : Booked(canonical, core, s, k, at) /\ k <= Len(core.entries) + 1
    BY <2>1
  <2>3. PICK at : Booked(canonical, core, s, k, at) /\ k <= Len(core.entries) + 1
    BY <2>2
  <2>4. core.entries \in Seq(EntryRecords) /\ Len(core.entries) <= k
    BY <2>3 DEF Booked, EntriesTrue
  <2>5. PICK n \in Nat : n = Len(core.entries)
    BY <2>4, LenProperties
  <2>6. k = n \/ k = n + 1
    BY <2>3, <2>4, <2>5
  <2>7. ~core.tail
    BY <1>3 DEF Refused
  <2>8. Tallied(s, k, at)
    BY <1>3, <2>3, <2>5, <2>6, <2>7 DEF Tallied
  <2> QED BY <2>8
<1> QED BY <1>1, <1>2, <1>3 DEF CanonInv

LEMMA ObserverStands == CanonInv => ObserverHearsIt
<1> SUFFICES ASSUME CanonInv, core.observed PROVE ObserverHearsIt
  BY DEF ObserverHearsIt
<1>1. PICK s : \E k \in Nat : \E at : Tallied(s, k, at)
  BY NotesEverywhere
<1>2. PICK k \in Nat : \E at : Tallied(s, k, at)
  BY <1>1
<1>3. PICK at : Tallied(s, k, at)
  BY <1>2
<1>4. PICK heard : heard = core.heard.members
  OBVIOUS
<1>5. PICK ended \in Nat : ended = Len(core.entries)
  <2>1. core.entries \in Seq(EntryRecords)
    BY <1>3 DEF Tallied, Booked, EntriesTrue
  <2> QED BY <2>1, LenProperties
<1>6. /\ Marked(s, k, at) /\ Out(canonical, core, s)
      /\ HeardTrue(heard, s, k, at, ended)
  BY <1>3, <1>4, <1>5 DEF Tallied, Booked
<1>7. Written = s /\ IsStream(s)
  BY <1>6, OutIsStream DEF Out, Written
<1>8. /\ Cardinality(Locals(s)) = k
      /\ \A n \in 1..k : NthLocal(s, n) = at[n]
  BY <1>6, <1>7, LocalsAreMarked
<1>9. ended = k \/ (ended = k - 1 /\ (walker = "member" \/ status \notin {"reading", "ended"}))
  BY <1>3, <1>5 DEF Tallied, Rejected
<1>10. Len(heard) = k
  BY <1>6 DEF HeardTrue
<1>11. ASSUME NEW n \in 1..k, NEW i, i = NthLocal(s, n)
       PROVE  /\ heard[n].at = StartOf(s, i)
              /\ heard[n].bytes = ContentOf(s, i)
              /\ heard[n].len = IF n <= ended THEN ContentOf(s, i) ELSE None
  <2>1. i = at[n] /\ StartOf(s, i) = StartIn(s, at[n]) /\ ContentOf(s, i) = ContentIn(s, at[n])
    BY <1>8, <1>11, OffsetsAre
  <2>2. /\ heard[n].at = StartIn(s, at[n]) /\ heard[n].bytes = ContentIn(s, at[n])
        /\ n <= ended => heard[n].len = ContentIn(s, at[n])
        /\ ~(n <= ended) => heard[n].len = None
    BY <1>6 DEF HeardTrue
  <2> QED BY <2>1, <2>2
<1>12. core.tail => core.heard.end = k
  BY <1>3 DEF Tallied
<1> QED BY <1>4, <1>5, <1>7, <1>8, <1>9, <1>10, <1>11, <1>12 DEF ObserverHearsIt

LEMMA AcceptedStands == CanonInv => AcceptedIsOffice
<1> SUFFICES ASSUME CanonInv, status = "ended" PROVE AcceptedIsOffice
  BY DEF AcceptedIsOffice
<1>1. /\ walker = "central" /\ CheckCloses(core.check) = "none" /\ Steady
      /\ core.check.expected = IF nth = 1 THEN asked ELSE AnyKind
  BY DEF CanonInv, Rejected
<1>2. PICK k \in Nat : \E at : Notes(k, at)
  BY <1>1, NotesOutside
<1>3. PICK at : Notes(k, at)
  BY <1>2
<1>4. /\ Booked(canonical, core, canonical, k, at) /\ k = Len(core.entries)
  BY <1>3 DEF Notes
<1>5. /\ core.entries \in Seq(EntryRecords)
      /\ \A n \in 1..k : EntryTrue(core.entries[n], canonical, at[n])
      /\ CheckTrue(core.check, canonical, k, at)
  BY <1>4 DEF Booked, EntriesTrue
<1>6. PICK names : names = [n \in DOMAIN core.entries |-> core.entries[n].name]
  OBVIOUS
<1>7. DOMAIN core.entries = 1..k
  BY <1>4, <1>5, LenProperties
<1>8. /\ DOMAIN names = 1..k /\ \A n \in 1..k : names[n] = canonical[at[n]].name
  BY <1>5, <1>6, <1>7 DEF EntryTrue
<1>9. Len(names) = k
  <2>1. PICK S : S = {names[n] : n \in 1..k}
    OBVIOUS
  <2>2. names \in [1..k -> S]
    BY <1>6, <1>8, <2>1
  <2>3. names \in Seq(S)
    BY <2>2
  <2> QED BY <2>2, <2>3
<1>10. Range(names) = {canonical[at[n]].name : n \in 1..k}
  <2>1. Range(names) = {names[n] : n \in 1..k}
    BY <1>8 DEF Range
  <2> QED BY <1>8, <2>1
<1>11. /\ core.check.seen = k
       /\ core.check.mains = Mains \cap Range(names)
       /\ \A n \in 1..k : canonical[at[n]].name \in DOMAIN NameLen \ Signatures
       /\ k > 0 => canonical[at[1]].name = ContentTypes
  BY <1>5, <1>10 DEF CheckTrue
<1>12. k # 0 /\ IF core.check.expected = AnyKind THEN core.check.mains # {}
                ELSE core.check.expected \in core.check.mains
  <2>1. /\ core.check.seen # 0
        /\ core.check.expected = AnyKind => core.check.mains # {}
        /\ core.check.expected # AnyKind => core.check.expected \in core.check.mains
    BY <1>1 DEF CheckCloses
  <2> QED BY <1>11, <2>1
<1>13. Len(names) > 0 /\ names[1] = ContentTypes
  <2>1. k > 0 /\ 1 \in 1..k
    BY <1>12
  <2> QED BY <1>8, <1>9, <1>11, <2>1
<1>14. Range(names) \cap Signatures = {}
  BY <1>10, <1>11
<1>15. IF nth = 1 /\ asked # AnyKind THEN asked \in Range(names)
       ELSE Range(names) \cap Mains # {}
  BY <1>1, <1>11, <1>12
<1> QED BY <1>6, <1>13, <1>14, <1>15 DEF AcceptedIsOffice

(* DirectoryIsTrue for every number of members, every length of their       *)
(* content and every width of a field: the canonical package can be read by *)
(* its directory (writer.rs, canonical_offset in core.rs).                  *)
THEOREM DirectoryReads == CanonSpec => []DirectoryIsTrue
<1> QED BY CanonInvariant, DirectoryStands, PTL

(* ObserverHearsIt: the observer hears of every member where its header is  *)
(* and the content that is enqueued for it, of a refused member as well,    *)
(* and the length of those alone that got their entry (observer.rs).        *)
THEOREM ObserverHearsThePackage == CanonSpec => []ObserverHearsIt
<1> QED BY CanonInvariant, ObserverStands, PTL

(* SoundMembersPass: a member is refused for its content only if that is    *)
(* not what it claims to be, whatever the window holds back (inflate.rs).   *)
THEOREM SoundContentPasses == CanonSpec => []SoundMembersPass
<1>1. CanonInv => SoundMembersPass
  BY DEF CanonInv, SoundMembersPass
<1> QED BY <1>1, CanonInvariant, PTL

(* AcceptedIsOffice: what PackageCheck accepts is a package of the kind     *)
(* that was asked for (ber.rs).                                             *)
THEOREM AcceptedPackagesAreOffice == CanonSpec => []AcceptedIsOffice
<1> QED BY CanonInvariant, AcceptedStands, PTL
===============================================================================
