---------------------------- MODULE ChunkerProofs ----------------------------
(***************************************************************************)
(* The safety of the container drivers and of the pipeline around them.    *)
(*                                                                         *)
(* For every envelope, every set of profiles and streams of any length:    *)
(* whatever the walker reports and wherever the hash cuts, the chunks      *)
(* partition the stream, stay within the envelope, come out one at a time  *)
(* and align with the units; the driver refines the promise of the Chunker *)
(* trait.  For every length of its buffers and its reader, the pipeline    *)
(* loses, doubles and reorders no byte between the reader, the probe, the  *)
(* replay, the window, the chunker and the consumer.                       *)
(***************************************************************************)
EXTENDS AsyncChunker, SequenceTheorems, TLAPS

(***************************************************************************)
(* What each method of the BoundaryAssembler preserves, for any set of     *)
(* bytes and any envelope: no byte is lost, repeated or moved, the gear    *)
(* hash covers the chunk under construction, the two chunks in memory stay *)
(* within the envelope, and one byte completes at most one chunk.          *)
(***************************************************************************)

\* The bytes an assembler answers for, in stream order.
Whole(a) == a.sent \o a.held \o a.buffer

\* What a method may find: a chunk under construction of any length up to
\* the maximum and a hash in any state.
Bounded(a, Byte) ==
  /\ a \in Assemblers(Byte)
  /\ Len(a.held) <= ChunkMax
  /\ Len(a.buffer) <= ChunkMax
  /\ \A i \in DOMAIN a.out : Len(a.out[i]) \in 1..ChunkMax

\* What every method leaves behind.
Sound(a, Byte) ==
  /\ Bounded(a, Byte)
  /\ Len(a.buffer) < ChunkMax
  /\ a.hashed = a.buffer

\* At most one chunk went out, and then at most `n` bytes are gathered.
Quiet(a, n) == Len(a.out) <= 1 /\ (a.out # <<>> => Len(a.buffer) <= n)

(* Concatenation, with the sequences quantified.                            *)
LEMMA Associative ==
  \A S : \A x, y, w \in Seq(S) : (x \o y) \o w = x \o (y \o w)
BY ConcatAssociative

(* Sending the held chunk: its bytes move to what was sent.  *)
LEMMA EmitHeldFields ==
  ASSUME NEW Byte, NEW a, Bounded(a, Byte)
  PROVE  /\ EmitHeld(a) \in Assemblers(Byte)
         /\ EmitHeld(a).held = <<>>
         /\ EmitHeld(a).buffer = a.buffer
         /\ EmitHeld(a).hashed = a.hashed
         /\ EmitHeld(a).gate = a.gate
         /\ EmitHeld(a).unitMin = a.unitMin
         /\ EmitHeld(a).sent = a.sent \o a.held
         /\ \A i \in DOMAIN EmitHeld(a).out :
              Len(EmitHeld(a).out[i]) \in 1..ChunkMax
         /\ a.out = <<>> => Len(EmitHeld(a).out) <= 1
<1> USE DEF Bounded, Assemblers
<1>1. CASE a.held = <<>>
  <2>1. EmitHeld(a) = a
    BY <1>1 DEF EmitHeld
  <2>2. a.sent \o a.held = a.sent
    BY <1>1, ConcatEmptySeq
  <2> QED BY <1>1, <2>1, <2>2
<1>2. CASE a.held # <<>>
  <2>1. EmitHeld(a) = [a EXCEPT !.out = Append(a.out, a.held),
                                !.sent = a.sent \o a.held, !.held = <<>>]
    BY <1>2 DEF EmitHeld, Emit
  <2>2. Append(a.out, a.held) \in Seq(Seq(Byte)) /\ a.sent \o a.held \in Seq(Byte)
    BY ConcatProperties, AppendProperties
  <2>3. Len(a.held) \in 1..ChunkMax
    BY <1>2, EmptySeq, LenProperties, EnvelopeAssumption
  <2>4. \A i \in DOMAIN Append(a.out, a.held) :
          Len(Append(a.out, a.held)[i]) \in 1..ChunkMax
    <3> DEFINE o == Append(a.out, a.held)
    <3>1. /\ a.out \in Seq(Seq(Byte)) /\ a.held \in Seq(Byte)
          /\ \A i \in DOMAIN a.out : Len(a.out[i]) \in 1..ChunkMax
      OBVIOUS
    <3>2. /\ Len(o) = Len(a.out) + 1 /\ o[Len(a.out) + 1] = a.held
          /\ \A i \in 1..Len(a.out) : o[i] = a.out[i]
      BY <3>1, AppendProperties
    <3>3. /\ Len(a.out) \in Nat /\ DOMAIN a.out = 1..Len(a.out)
          /\ DOMAIN o = 1..Len(o)
      BY <2>2, <3>1, LenProperties
    <3> HIDE DEF o
    <3>4. ASSUME NEW i \in DOMAIN o PROVE Len(o[i]) \in 1..ChunkMax
      <4> DEFINE n == Len(a.out)
      <4>0. /\ n \in Nat /\ i \in 1..(n + 1)
            /\ DOMAIN a.out = 1..n
        BY ONLY <3>2, <3>3, i \in DOMAIN o
      <4> HIDE DEF n
      <4>1. i \in DOMAIN a.out \/ i = n + 1
        BY ONLY <4>0
      <4> USE DEF n
      <4>2. CASE i \in DOMAIN a.out
        <5>1. o[i] = a.out[i]
          BY <3>2, <3>3, <4>2
        <5> QED BY <3>1, <4>2, <5>1
      <4>3. CASE i = Len(a.out) + 1
        BY <2>3, <3>2, <4>3
      <4> QED BY <4>1, <4>2, <4>3
    <3> QED BY <3>4 DEF o
  <2>5. a.out = <<>> => Len(Append(a.out, a.held)) <= 1
    BY AppendProperties, EmptySeq
  <2> QED BY <2>1, <2>2, <2>4, <2>5, EmptySeq
<1> QED BY <1>1, <1>2

(* Closing a chunk: the held one goes out, the gathered bytes are held.  *)
LEMMA CloseChunkSound ==
  ASSUME NEW Byte, NEW a, Bounded(a, Byte)
  PROVE  /\ Sound(CloseChunk(a), Byte)
         /\ Whole(CloseChunk(a)) = Whole(a)
         /\ CloseChunk(a).buffer = <<>>
         /\ CloseChunk(a).unitMin = a.unitMin
         /\ a.out = <<>> => Len(CloseChunk(a).out) <= 1
<1> DEFINE e == EmitHeld(a)
           c == CloseChunk(a)
<1>1. c = [e EXCEPT !.held = a.buffer, !.buffer = <<>>, !.hashed = <<>>]
  BY DEF CloseChunk
<1>e. /\ e \in Assemblers(Byte)
      /\ e.sent = a.sent \o a.held /\ e.unitMin = a.unitMin
      /\ \A i \in DOMAIN e.out : Len(e.out[i]) \in 1..ChunkMax
      /\ a.out = <<>> => Len(e.out) <= 1
  BY EmitHeldFields
<1>b. a.buffer \in Seq(Byte) /\ Len(a.buffer) <= ChunkMax
  BY DEF Bounded, Assemblers
<1>n. <<>> \in Seq(Byte) /\ Len(<<>>) = 0
  BY EmptySeq
<1> HIDE DEF e
<1>2. /\ c \in Assemblers(Byte)
      /\ c.held = a.buffer /\ c.buffer = <<>> /\ c.hashed = <<>>
      /\ c.sent = a.sent \o a.held /\ c.out = e.out /\ c.unitMin = a.unitMin
  BY <1>1, <1>e, <1>b, <1>n DEF Assemblers
<1> HIDE DEF c
<1>3. Sound(c, Byte)
  BY <1>2, <1>e, <1>b, <1>n, EnvelopeAssumption DEF Sound, Bounded
<1>4. Whole(c) = Whole(a)
  <2>1. (a.sent \o a.held) \o a.buffer \in Seq(Byte)
    BY ConcatProperties DEF Bounded, Assemblers
  <2> QED BY <1>2, <2>1, ConcatEmptySeq DEF Whole
<1> QED BY <1>2, <1>3, <1>4, <1>e DEF c

(* Attaching backward moves the gathered bytes to the end of the held       *)
(* chunk, which stays within the maximum.                                   *)
LEMMA AttachBackwardSound ==
  ASSUME NEW Byte, NEW a, Bounded(a, Byte), JoinsHeld(a)
  PROVE  /\ Sound(AttachBackward(a), Byte)
         /\ Whole(AttachBackward(a)) = Whole(a)
         /\ AttachBackward(a).buffer = <<>>
         /\ AttachBackward(a).unitMin = a.unitMin
         /\ AttachBackward(a).out = a.out
<1> DEFINE c == AttachBackward(a)
<1>1. a.held \o a.buffer \in Seq(Byte) /\ Len(a.held \o a.buffer) <= ChunkMax
  BY ConcatProperties DEF Bounded, Assemblers, JoinsHeld
<1>2. /\ c \in Assemblers(Byte)
      /\ c.held = a.held \o a.buffer /\ c.buffer = <<>> /\ c.hashed = <<>>
      /\ c.sent = a.sent /\ c.out = a.out /\ c.unitMin = a.unitMin
  BY <1>1, EmptySeq DEF Assemblers, Bounded, AttachBackward
<1> HIDE DEF c
<1>3. Sound(c, Byte)
  <2>1. \A i \in DOMAIN a.out : Len(a.out[i]) \in 1..ChunkMax
    BY DEF Bounded
  <2>2. Len(c.buffer) = 0
    BY <1>2, EmptySeq
  <2>3. \A i \in DOMAIN c.out : Len(c.out[i]) \in 1..ChunkMax
    BY <1>2, <2>1
  <2>4. Len(c.held) <= ChunkMax
    BY <1>1, <1>2
  <2>5. c.hashed = c.buffer /\ Len(c.buffer) <= ChunkMax /\ Len(c.buffer) < ChunkMax
    BY <1>2, <2>2, EnvelopeAssumption
  <2> QED BY <1>2, <2>3, <2>4, <2>5 DEF Sound, Bounded
<1>4. Whole(c) = Whole(a)
  <2> DEFINE s == a.sent
             h == a.held
             b == a.buffer
  <2>1. s \in Seq(Byte) /\ h \in Seq(Byte) /\ b \in Seq(Byte)
    BY DEF Bounded, Assemblers
  <2>2. Whole(c) = (s \o (h \o b)) \o <<>> /\ Whole(a) = (s \o h) \o b
    BY <1>2 DEF Whole
  <2> HIDE DEF s, h, b
  <2>3. s \o (h \o b) = (s \o h) \o b
    BY <2>1, Associative
  <2>4. (s \o (h \o b)) \o <<>> = s \o (h \o b)
    BY <2>1, ConcatProperties, ConcatEmptySeq
  <2> QED BY <2>2, <2>3, <2>4
<1> QED BY <1>2, <1>3, <1>4 DEF c

(* A boundary closes or attaches or does nothing; when it emits a chunk it  *)
(* leaves nothing under construction.                                       *)
LEMMA BoundarySound ==
  ASSUME NEW Byte, NEW a, Sound(a, Byte), a.out = <<>>
  PROVE  /\ Sound(Boundary(a), Byte)
         /\ Whole(Boundary(a)) = Whole(a)
         /\ Boundary(a).unitMin = a.unitMin
         /\ Quiet(Boundary(a), 0)
<1>b. Bounded(a, Byte) /\ Len(<<>>) = 0
  BY EmptySeq DEF Sound
<1>1. CASE Len(a.buffer) >= a.unitMin
  <2>1. Boundary(a) = CloseChunk(a)
    BY <1>1 DEF Boundary
  <2> QED BY <1>b, <2>1, CloseChunkSound DEF Quiet
<1>2. CASE ~(Len(a.buffer) >= a.unitMin) /\ a.buffer # <<>> /\ JoinsHeld(a)
  <2>1. Boundary(a) = AttachBackward(a)
    BY <1>2 DEF Boundary
  <2> QED BY <1>b, <1>2, <2>1, AttachBackwardSound DEF Quiet
<1>3. CASE ~(Len(a.buffer) >= a.unitMin) /\ ~(a.buffer # <<>> /\ JoinsHeld(a))
  <2>1. Boundary(a) = a
    BY <1>3 DEF Boundary
  <2> QED BY <1>b, <2>1 DEF Quiet
<1> QED BY <1>1, <1>2, <1>3

(* Selecting the gate touches nothing else.  *)
LEMMA SetGateSound ==
  ASSUME NEW Byte, NEW a, Sound(a, Byte), NEW gate \in Gates
  PROVE  /\ Sound(SetGate(a, gate), Byte)
         /\ Whole(SetGate(a, gate)) = Whole(a)
         /\ SetGate(a, gate).held = a.held
         /\ SetGate(a, gate).buffer = a.buffer
         /\ SetGate(a, gate).unitMin = a.unitMin
         /\ SetGate(a, gate).out = a.out
         /\ SetGate(a, gate).sent = a.sent
<1> DEFINE g == SetGate(a, gate)
<1>1. /\ g \in Assemblers(Byte)
      /\ g.held = a.held /\ g.buffer = a.buffer /\ g.hashed = a.hashed
      /\ g.unitMin = a.unitMin /\ g.out = a.out /\ g.sent = a.sent
  BY DEF SetGate, Assemblers, Sound, Bounded
<1> HIDE DEF g
<1>2. Sound(g, Byte) /\ Whole(g) = Whole(a)
  BY <1>1 DEF Sound, Bounded, Whole
<1> QED BY <1>1, <1>2 DEF g

(* Absorbing a byte appends it to the chunk under construction and to the   *)
(* hash.                                                                    *)
LEMMA AbsorbFields ==
  ASSUME NEW Byte, NEW a, Sound(a, Byte), NEW byte \in Byte
  PROVE  /\ Bounded(Absorb(a, byte), Byte)
         /\ Absorb(a, byte).hashed = Absorb(a, byte).buffer
         /\ Whole(Absorb(a, byte)) = Append(Whole(a), byte)
         /\ Len(Absorb(a, byte).buffer) = Len(a.buffer) + 1
         /\ Absorb(a, byte).unitMin = a.unitMin
         /\ Absorb(a, byte).out = a.out
<1> DEFINE g == Absorb(a, byte)
<1>t. /\ a \in Assemblers(Byte) /\ a.hashed = a.buffer
      /\ a.sent \in Seq(Byte) /\ a.held \in Seq(Byte) /\ a.buffer \in Seq(Byte)
      /\ Len(a.buffer) < ChunkMax /\ Len(a.buffer) \in Nat
      /\ <<byte>> \in Seq(Byte)
  BY DEF Sound, Bounded, Assemblers
<1>1. /\ Append(a.buffer, byte) \in Seq(Byte)
      /\ Len(Append(a.buffer, byte)) = Len(a.buffer) + 1
  BY <1>t, AppendProperties
<1>2. /\ g \in Assemblers(Byte)
      /\ g.buffer = Append(a.buffer, byte) /\ g.hashed = Append(a.buffer, byte)
      /\ g.held = a.held /\ g.unitMin = a.unitMin /\ g.out = a.out
      /\ g.sent = a.sent
  BY <1>t, <1>1 DEF Absorb, Assemblers
<1> HIDE DEF g
<1>3. Len(g.buffer) <= ChunkMax
  BY <1>t, <1>1, <1>2, EnvelopeAssumption
<1>4. Bounded(g, Byte)
  BY <1>2, <1>3 DEF Sound, Bounded
<1>5. Whole(g) = Append(Whole(a), byte)
  <2> DEFINE s == a.sent \o a.held
             b == a.buffer
  <2>1. s \in Seq(Byte) /\ b \in Seq(Byte)
    BY <1>t, ConcatProperties
  <2>2. Whole(g) = s \o Append(b, byte) /\ Whole(a) = s \o b
    BY <1>2 DEF Whole
  <2> HIDE DEF s, b
  <2>3. Append(b, byte) = b \o <<byte>>
    BY <2>1, AppendIsConcat
  <2>4. s \o (b \o <<byte>>) = (s \o b) \o <<byte>>
    BY <1>t, <2>1, Associative
  <2>5. Append(s \o b, byte) = (s \o b) \o <<byte>>
    BY <2>1, ConcatProperties, AppendIsConcat
  <2> QED BY <2>2, <2>3, <2>4, <2>5
<1> QED BY <1>1, <1>2, <1>4, <1>5 DEF g

(* A pushed byte is appended to the stream; the cut it may cause is the     *)
(* only chunk of this byte, because a chunk that went out before left less  *)
(* than the minimum to cut.                                                 *)
LEMMA PushSound ==
  ASSUME NEW Byte, NEW a, Sound(a, Byte), Quiet(a, 0),
         NEW byte \in Byte, NEW seam \in Seams, NEW hit \in BOOLEAN
  PROVE  /\ Sound(Push(a, byte, seam, hit), Byte)
         /\ Whole(Push(a, byte, seam, hit)) = Append(Whole(a), byte)
         /\ Push(a, byte, seam, hit).unitMin = a.unitMin
         /\ Quiet(Push(a, byte, seam, hit), 1)
<1> DEFINE g == Absorb(a, byte)
<1>a. /\ a.out \in Seq(Seq(Byte)) /\ Len(a.buffer) \in Nat
      /\ Len(a.out) <= 1 /\ (a.out # <<>> => Len(a.buffer) = 0)
  BY LenProperties DEF Quiet, Sound, Bounded, Assemblers
<1>g. /\ Bounded(g, Byte) /\ g.hashed = g.buffer
      /\ Whole(g) = Append(Whole(a), byte)
      /\ Len(g.buffer) = Len(a.buffer) + 1
      /\ g.unitMin = a.unitMin /\ g.out = a.out
  BY AbsorbFields
<1>p. Push(a, byte, seam, hit) = IF CutHere(g, seam, hit) THEN CloseChunk(g) ELSE g
  BY DEF Push
<1> HIDE DEF g
<1>1. CASE CutHere(g, seam, hit)
  <2>1. Len(g.buffer) >= ChunkMin
    BY <1>1 DEF CutHere
  <2>2. a.out = <<>>
    BY <1>a, <1>g, <2>1, EnvelopeAssumption
  <2>3. /\ Sound(CloseChunk(g), Byte) /\ Whole(CloseChunk(g)) = Whole(g)
        /\ CloseChunk(g).unitMin = g.unitMin
        /\ CloseChunk(g).buffer = <<>> /\ Len(CloseChunk(g).out) <= 1
    BY <1>g, <2>2, CloseChunkSound
  <2>4. Quiet(CloseChunk(g), 1)
    BY <2>3, EmptySeq DEF Quiet
  <2> QED BY <1>1, <1>p, <1>g, <2>3, <2>4
<1>2. CASE ~CutHere(g, seam, hit)
  <2>1. Len(g.buffer) < ChunkMax
    BY <1>2, <1>g, <1>a, EnvelopeAssumption DEF CutHere
  <2>2. Sound(g, Byte)
    BY <1>g, <2>1 DEF Sound
  <2>3. Quiet(g, 1)
    BY <1>a, <1>g DEF Quiet
  <2> QED BY <1>2, <1>p, <1>g, <2>2, <2>3
<1> QED BY <1>1, <1>2

(* A sequence is what comes before a position and what comes after it: the  *)
(* split of the buffer in large_unit_starts loses nothing.                  *)
LEMMA SplitAt ==
  ASSUME NEW S, NEW seq \in Seq(S), NEW k \in 1..Len(seq)
  PROVE  SubSeq(seq, 1, k) \o SubSeq(seq, k + 1, Len(seq)) = seq
<1> DEFINE n == Len(seq)
<1>1. n \in Nat /\ 1 \in 1..n + 1 /\ k \in (1 - 1)..n /\ n \in k..n
  OBVIOUS
<1>2. SubSeq(seq, 1, k) \o SubSeq(seq, k + 1, n) = SubSeq(seq, 1, n)
  BY <1>1, ConcatAdjacentSubSeq
<1>3. SubSeq(seq, 1, n) = seq
  BY SubSeqFull
<1> QED BY <1>2, <1>3

(* The realignment splits the chunk under construction where the large unit *)
(* begins; the two parts are still the same bytes in the same place.        *)
LEMMA LargeUnitStartsSound ==
  ASSUME NEW Byte, NEW a, Sound(a, Byte), Quiet(a, 1),
         NEW header \in Nat, header >= 1
  PROVE  /\ Sound(LargeUnitStarts(a, header), Byte)
         /\ Whole(LargeUnitStarts(a, header)) = Whole(a)
         /\ LargeUnitStarts(a, header).unitMin = a.unitMin
         /\ Len(LargeUnitStarts(a, header).out) <= 1
<1>t. /\ a \in Assemblers(Byte) /\ Bounded(a, Byte)
      /\ a.sent \in Seq(Byte) /\ a.held \in Seq(Byte) /\ a.buffer \in Seq(Byte)
      /\ a.out \in Seq(Seq(Byte)) /\ Len(a.buffer) \in Nat
      /\ Len(a.buffer) < ChunkMax
      /\ Len(a.out) <= 1 /\ (a.out # <<>> => Len(a.buffer) <= 1)
  BY LenProperties DEF Sound, Bounded, Assemblers, Quiet
<1>1. CASE Len(a.buffer) <= header
  <2>1. LargeUnitStarts(a, header) = a
    BY <1>1 DEF LargeUnitStarts
  <2> QED BY <1>t, <2>1
<1>2. CASE ~(Len(a.buffer) <= header)
  <2> DEFINE buf == a.buffer
             start == Len(buf) - header
             tail == SubSeq(buf, 1, start)
             head == SubSeq(buf, start + 1, Len(buf))
             before == [a EXCEPT !.buffer = tail]
             r == IF JoinsHeld(before) THEN AttachBackward(before)
                                       ELSE CloseChunk(before)
             z == [r EXCEPT !.buffer = head, !.hashed = head]
  <2>z. LargeUnitStarts(a, header) = z
    BY <1>2 DEF LargeUnitStarts
  <2>s. /\ start \in 1..Len(buf) /\ Len(buf) < ChunkMax /\ Len(buf) \in Nat
        /\ start + header = Len(buf) /\ a.out = <<>>
    BY <1>t, <1>2
  <2> HIDE DEF start
  <2>1. /\ tail \in Seq(Byte) /\ Len(tail) = start
        /\ head \in Seq(Byte) /\ Len(head) = header
    <3>1. \A i \in 1..Len(buf) : buf[i] \in Byte
      BY <1>t, ElementOfSeq
    <3>2. \A i \in 1..start : buf[i] \in Byte
      BY <2>s, <3>1
    <3>3. \A i \in (start + 1)..Len(buf) : buf[i] \in Byte
      BY <2>s, <3>1
    <3> HIDE DEF buf
    <3>4. tail \in Seq(Byte) /\ Len(tail) = start
      BY <2>s, <3>2, SubSeqProperties
    <3>5. head \in Seq(Byte) /\ Len(head) = header
      BY <2>s, <3>3, SubSeqProperties
    <3> QED BY <3>4, <3>5
  <2>2. tail \o head = buf
    <3>1. buf \in Seq(Byte)
      BY <1>t
    <3> HIDE DEF buf
    <3> QED BY <2>s, <3>1, SplitAt
  <2> HIDE DEF tail, head, buf
  <2>3. /\ Bounded(before, Byte) /\ before.out = <<>>
        /\ before.sent = a.sent /\ before.held = a.held /\ before.buffer = tail
        /\ before.unitMin = a.unitMin
    <3>1. /\ before \in Assemblers(Byte) /\ before.out = a.out
          /\ before.sent = a.sent /\ before.held = a.held /\ before.buffer = tail
          /\ before.unitMin = a.unitMin
      BY <1>t, <2>1 DEF Assemblers
    <3> HIDE DEF before
    <3> QED BY <1>t, <2>s, <2>1, <3>1, EnvelopeAssumption DEF Bounded
  <2> HIDE DEF before
  <2>4. /\ Sound(r, Byte) /\ Whole(r) = Whole(before) /\ r.buffer = <<>>
        /\ r.unitMin = a.unitMin /\ Len(r.out) <= 1
    <3>1. Len(<<>>) = 0
      BY EmptySeq
    <3>2. CASE JoinsHeld(before)
      BY <2>3, <3>1, <3>2, AttachBackwardSound
    <3>3. CASE ~JoinsHeld(before)
      BY <2>3, <3>3, CloseChunkSound
    <3> QED BY <3>2, <3>3
  <2> HIDE DEF r
  <2>5. /\ z \in Assemblers(Byte) /\ z.buffer = head /\ z.hashed = head
        /\ z.held = r.held /\ z.sent = r.sent /\ z.out = r.out
        /\ z.unitMin = r.unitMin
    BY <2>1, <2>4 DEF Sound, Bounded, Assemblers
  <2> HIDE DEF z
  <2>6. Sound(z, Byte)
    BY <2>1, <2>s, <2>4, <2>5, EnvelopeAssumption DEF Sound, Bounded
  <2>7. Whole(z) = Whole(a)
    <3> DEFINE s == r.sent \o r.held
               p == a.sent \o a.held
    <3>1. s \in Seq(Byte) /\ p \in Seq(Byte)
      <4>1. /\ r.sent \in Seq(Byte) /\ r.held \in Seq(Byte)
        BY <2>4 DEF Sound, Bounded, Assemblers
      <4> QED BY <1>t, <4>1, ConcatProperties
    <3>2. /\ Whole(z) = s \o head /\ Whole(r) = s \o <<>>
          /\ Whole(before) = p \o tail /\ Whole(a) = p \o buf
      BY <2>3, <2>4, <2>5 DEF Whole, buf
    <3> HIDE DEF s, p
    <3>3. s = p \o tail
      BY <2>4, <3>1, <3>2, ConcatEmptySeq
    <3>4. (p \o tail) \o head = p \o (tail \o head)
      <4>1. p \in Seq(Byte) /\ tail \in Seq(Byte) /\ head \in Seq(Byte)
        BY <2>1, <3>1, Zenon
      <4> HIDE DEF tail, head, p, s
      <4> QED BY ONLY <4>1, Associative
    <3> QED BY <2>2, <3>2, <3>3, <3>4
  <2> QED BY <2>z, <2>4, <2>5, <2>6, <2>7
<1> QED BY <1>1, <1>2

(* The end of the stream sends what is left and empties the assembler.      *)
LEMMA FinishSound ==
  ASSUME NEW Byte, NEW a, Sound(a, Byte)
  PROVE  /\ Sound(Finish(a), Byte)
         /\ Finish(a).held = <<>> /\ Finish(a).buffer = <<>>
         /\ Finish(a).sent = Whole(a)
         /\ Finish(a).unitMin = a.unitMin
<1> DEFINE e == EmitHeld(a)
           f == Finish(a)
<1>e. /\ e \in Assemblers(Byte)
      /\ e.held = <<>> /\ e.buffer = a.buffer /\ e.unitMin = a.unitMin
      /\ e.sent = a.sent \o a.held
      /\ \A i \in DOMAIN e.out : Len(e.out[i]) \in 1..ChunkMax
  BY EmitHeldFields DEF Sound
<1>n. <<>> \in Seq(Byte) /\ Len(<<>>) = 0
  BY EmptySeq
<1>b. /\ a.buffer \in Seq(Byte) /\ a.sent \o a.held \in Seq(Byte)
      /\ Len(a.buffer) < ChunkMax /\ Whole(a) = e.sent \o a.buffer
  BY <1>e, ConcatProperties DEF Sound, Bounded, Assemblers, Whole
<1>f. f = [EmitBuffer(e) EXCEPT !.hashed = <<>>]
  BY DEF Finish
<1> HIDE DEF e, f
<1>1. /\ f \in Assemblers(Byte)
      /\ f.held = <<>> /\ f.buffer = <<>> /\ f.hashed = <<>>
      /\ f.unitMin = a.unitMin /\ f.sent = Whole(a)
      /\ \A i \in DOMAIN f.out : Len(f.out[i]) \in 1..ChunkMax
  <2>1. CASE a.buffer = <<>>
    <3>1. EmitBuffer(e) = e
      BY <1>e, <2>1 DEF EmitBuffer
    <3>2. Whole(a) = e.sent
      BY <1>b, <1>e, <2>1, ConcatEmptySeq
    <3> QED BY <1>e, <1>n, <1>f, <2>1, <3>1, <3>2 DEF Assemblers
  <2>2. CASE a.buffer # <<>>
    <3> DEFINE out == Append(e.out, a.buffer)
               sent == e.sent \o a.buffer
    <3>1. EmitBuffer(e) = [e EXCEPT !.out = out, !.sent = sent, !.buffer = <<>>]
      BY <1>e, <2>2 DEF EmitBuffer, Emit
    <3>2. e.out \in Seq(Seq(Byte)) /\ e.sent \in Seq(Byte)
      BY <1>e DEF Assemblers
    <3>3. out \in Seq(Seq(Byte)) /\ sent \in Seq(Byte)
      BY <1>b, <3>2, AppendProperties, ConcatProperties
    <3>4. Len(a.buffer) \in 1..ChunkMax
      BY <1>b, <2>2, EmptySeq, EnvelopeAssumption
    <3>5. \A i \in DOMAIN out : Len(out[i]) \in 1..ChunkMax
      BY <1>b, <1>e, <3>2, <3>4, AppendProperties, LenProperties
    <3> HIDE DEF out, sent
    <3>6. /\ f \in Assemblers(Byte)
          /\ f.held = <<>> /\ f.buffer = <<>> /\ f.hashed = <<>>
          /\ f.unitMin = a.unitMin /\ f.sent = sent /\ f.out = out
      BY <1>e, <1>n, <1>f, <3>1, <3>3 DEF Assemblers
    <3>7. sent = Whole(a)
      BY <1>b DEF sent
    <3>8. \A i \in DOMAIN f.out : Len(f.out[i]) \in 1..ChunkMax
      BY <3>5, <3>6
    <3> QED BY <3>6, <3>7, <3>8
  <2> QED BY <2>1, <2>2
<1>2. Sound(f, Byte)
  BY <1>1, <1>n, EnvelopeAssumption DEF Sound, Bounded
<1> QED BY <1>1, <1>2 DEF f

(* A rejection empties the assembler and sends nothing.                     *)
LEMMA ClearSound ==
  ASSUME NEW Byte, NEW a, Sound(a, Byte)
  PROVE  /\ Sound(Clear(a), Byte)
         /\ Clear(a).held = <<>> /\ Clear(a).buffer = <<>>
         /\ Clear(a).sent = a.sent /\ Clear(a).out = a.out
<1> DEFINE c == Clear(a)
<1>1. /\ c \in Assemblers(Byte)
      /\ c.held = <<>> /\ c.buffer = <<>> /\ c.hashed = <<>>
      /\ c.sent = a.sent /\ c.out = a.out
  BY EmptySeq DEF Clear, Sound, Bounded, Assemblers
<1> HIDE DEF c
<1>2. Sound(c, Byte)
  BY <1>1, EmptySeq, EnvelopeAssumption DEF Sound, Bounded
<1> QED BY <1>1, <1>2 DEF c

(***************************************************************************)
(* What a method sends: a chunk is emitted exactly when it is added to     *)
(* what was sent.                                                          *)
(***************************************************************************)
\* From `a` to `b` nothing was sent, or one more chunk.
SendsOnce(a, b, Byte) ==
  \/ b.out = a.out /\ b.sent = a.sent
  \/ \E chunk \in Seq(Byte) :
       b.out = Append(a.out, chunk) /\ b.sent = a.sent \o chunk

\* What was sent since `base` is what the call emitted, for one or two chunks.
Accounted(base, a, Byte) ==
  \/ a.out = <<>> /\ a.sent = base
  \/ \E c \in Seq(Byte) : a.out = <<c>> /\ a.sent = base \o c
  \/ \E c, d \in Seq(Byte) : a.out = <<c, d>> /\ a.sent = (base \o c) \o d
  \/ Len(a.out) > 2

(* A method that sends once keeps the account.                              *)
LEMMA AccountStep ==
  ASSUME NEW Byte, NEW a, NEW b, NEW base,
         a.out \in Seq(Seq(Byte)), Accounted(base, a, Byte), SendsOnce(a, b, Byte)
  PROVE  Accounted(base, b, Byte)
<1>1. CASE b.out = a.out /\ b.sent = a.sent
  BY <1>1 DEF Accounted
<1>2. ASSUME NEW chunk \in Seq(Byte), b.out = Append(a.out, chunk),
             b.sent = a.sent \o chunk
      PROVE  Accounted(base, b, Byte)
  <2>1. CASE a.out = <<>> /\ a.sent = base
    <3>1. b.out = <<chunk>> /\ b.sent = base \o chunk
      BY <1>2, <2>1
    <3> QED BY <3>1 DEF Accounted
  <2>2. ASSUME NEW c \in Seq(Byte), a.out = <<c>>, a.sent = base \o c
        PROVE  Accounted(base, b, Byte)
    <3>1. Append(<<c>>, chunk) = <<c, chunk>>
      <4>1. <<c>> \in Seq(Seq(Byte)) /\ <<c, chunk>> \in Seq(Seq(Byte))
        OBVIOUS
      <4>2. /\ Len(Append(<<c>>, chunk)) = 2 /\ Append(<<c>>, chunk)[1] = c
            /\ Append(<<c>>, chunk)[2] = chunk
            /\ Append(<<c>>, chunk) \in Seq(Seq(Byte))
        BY <4>1, AppendProperties
      <4>3. \A i \in 1..2 : Append(<<c>>, chunk)[i] = <<c, chunk>>[i]
        BY <4>2
      <4> QED BY <4>1, <4>2, <4>3, SeqEqual
    <3>2. b.out = <<c, chunk>> /\ b.sent = (base \o c) \o chunk
      BY <1>2, <2>2, <3>1
    <3> QED BY <3>2 DEF Accounted
  <2>3. CASE Len(a.out) >= 2
    <3>1. Len(b.out) = Len(a.out) + 1 /\ Len(a.out) \in Nat
      BY <1>2, AppendProperties, LenProperties
    <3>2. Len(b.out) > 2
      BY <2>3, <3>1
    <3> QED BY <3>2 DEF Accounted
  <2>4. ASSUME NEW c \in Seq(Byte), NEW d \in Seq(Byte), a.out = <<c, d>>
        PROVE  Len(a.out) >= 2
    BY <2>4
  <2>5. Len(a.out) > 2 => Len(a.out) >= 2
    BY LenProperties
  <2> QED BY <2>1, <2>2, <2>3, <2>4, <2>5 DEF Accounted
<1> QED BY <1>1, <1>2 DEF SendsOnce

(* Closing a chunk sends at most the held one.                              *)
LEMMA EmitHeldSends ==
  ASSUME NEW Byte, NEW a \in Assemblers(Byte)
  PROVE  EmitHeld(a) \in Assemblers(Byte) /\ SendsOnce(a, EmitHeld(a), Byte)
<1> DEFINE e == EmitHeld(a)
<1>1. CASE a.held = <<>>
  BY <1>1 DEF EmitHeld, SendsOnce
<1>2. CASE a.held # <<>>
  <2>1. e = [a EXCEPT !.out = Append(a.out, a.held),
                      !.sent = a.sent \o a.held, !.held = <<>>]
    BY <1>2 DEF EmitHeld, Emit
  <2>2. /\ Append(a.out, a.held) \in Seq(Seq(Byte))
        /\ a.sent \o a.held \in Seq(Byte) /\ <<>> \in Seq(Byte)
    BY AppendProperties, ConcatProperties, EmptySeq DEF Assemblers
  <2> HIDE DEF e
  <2>3. /\ e.out = Append(a.out, a.held) /\ e.sent = a.sent \o a.held
        /\ e \in Assemblers(Byte) /\ a.held \in Seq(Byte)
    BY <2>1, <2>2 DEF Assemblers
  <2> QED BY <2>3 DEF SendsOnce, e
<1> QED BY <1>1, <1>2

(* Closing a chunk: the one held before it is sent, or nothing is.          *)
LEMMA CloseChunkSends ==
  ASSUME NEW Byte, NEW a \in Assemblers(Byte)
  PROVE  /\ CloseChunk(a) \in Assemblers(Byte)
         /\ SendsOnce(a, CloseChunk(a), Byte)
<1> DEFINE e == EmitHeld(a)
<1>1. e \in Assemblers(Byte) /\ SendsOnce(a, e, Byte)
  BY EmitHeldSends
<1>2. CloseChunk(a) = [e EXCEPT !.held = a.buffer, !.buffer = <<>>, !.hashed = <<>>]
  BY DEF CloseChunk
<1> HIDE DEF e
<1>3. /\ CloseChunk(a).out = e.out /\ CloseChunk(a).sent = e.sent
      /\ CloseChunk(a) \in Assemblers(Byte)
  BY <1>1, <1>2, EmptySeq DEF Assemblers
<1> QED BY <1>1, <1>3 DEF SendsOnce

(* A boundary sends at most the held chunk, an attachment nothing.          *)
LEMMA AttachBackwardSends ==
  ASSUME NEW Byte, NEW a \in Assemblers(Byte)
  PROVE  /\ AttachBackward(a) \in Assemblers(Byte)
         /\ AttachBackward(a).out = a.out /\ AttachBackward(a).sent = a.sent
BY ConcatProperties, EmptySeq DEF AttachBackward, Assemblers

(* A unit boundary sends once.                                              *)
LEMMA BoundarySends ==
  ASSUME NEW Byte, NEW a \in Assemblers(Byte)
  PROVE  SendsOnce(a, Boundary(a), Byte)
<1>1. SendsOnce(a, CloseChunk(a), Byte)
  BY CloseChunkSends
<1>2. SendsOnce(a, AttachBackward(a), Byte)
  BY AttachBackwardSends DEF SendsOnce
<1>3. SendsOnce(a, a, Byte)
  BY DEF SendsOnce
<1> QED BY <1>1, <1>2, <1>3 DEF Boundary

(* So does a pushed byte.                                                   *)
LEMMA PushSends ==
  ASSUME NEW Byte, NEW a \in Assemblers(Byte), NEW byte \in Byte,
         NEW seam \in Seams, NEW hit \in BOOLEAN
  PROVE  SendsOnce(a, Push(a, byte, seam, hit), Byte)
<1> DEFINE g == Absorb(a, byte)
<1>1. g \in Assemblers(Byte) /\ g.out = a.out /\ g.sent = a.sent
  BY AppendProperties DEF Absorb, Assemblers
<1>2. Push(a, byte, seam, hit) = IF CutHere(g, seam, hit) THEN CloseChunk(g) ELSE g
  BY DEF Push
<1> HIDE DEF g
<1>3. SendsOnce(g, CloseChunk(g), Byte) /\ SendsOnce(g, g, Byte)
  BY <1>1, CloseChunkSends DEF SendsOnce
<1>4. \/ Push(a, byte, seam, hit) = g
      \/ Push(a, byte, seam, hit) = CloseChunk(g)
  BY <1>2
<1> QED BY <1>1, <1>3, <1>4 DEF SendsOnce

(* Realigning to a large unit sends once.                                   *)
LEMMA LargeUnitStartsSends ==
  ASSUME NEW Byte, NEW a \in Assemblers(Byte), NEW header \in Nat
  PROVE  SendsOnce(a, LargeUnitStarts(a, header), Byte)
<1>1. CASE Len(a.buffer) <= header
  BY <1>1 DEF LargeUnitStarts, SendsOnce
<1>2. CASE ~(Len(a.buffer) <= header)
  <2> DEFINE buf == a.buffer
             start == Len(buf) - header
             tail == SubSeq(buf, 1, start)
             head == SubSeq(buf, start + 1, Len(buf))
             before == [a EXCEPT !.buffer = tail]
             r == IF JoinsHeld(before) THEN AttachBackward(before)
                                       ELSE CloseChunk(before)
             z == [r EXCEPT !.buffer = head, !.hashed = head]
  <2>z. LargeUnitStarts(a, header) = z
    BY <1>2 DEF LargeUnitStarts
  <2>1. tail \in Seq(Byte)
    <3>1. buf \in Seq(Byte) /\ Len(buf) \in Nat
      BY LenProperties DEF Assemblers
    <3>2. \A i \in 1..start : buf[i] \in Byte
      BY <3>1, ElementOfSeq
    <3> HIDE DEF buf
    <3> QED BY <3>1, <3>2, SubSeqProperties
  <2> HIDE DEF tail, head
  <2>2. before \in Assemblers(Byte) /\ before.out = a.out /\ before.sent = a.sent
    BY <2>1 DEF Assemblers
  <2> HIDE DEF before
  <2>3. /\ SendsOnce(before, CloseChunk(before), Byte)
        /\ SendsOnce(before, AttachBackward(before), Byte)
    BY <2>2, CloseChunkSends, AttachBackwardSends DEF SendsOnce
  <2>4. SendsOnce(before, r, Byte)
    BY <2>3
  <2>5. r \in Assemblers(Byte)
    BY <2>2, CloseChunkSends, AttachBackwardSends
  <2> HIDE DEF r
  <2>6. z.out = r.out /\ z.sent = r.sent
    BY <2>5 DEF Assemblers
  <2> HIDE DEF z
  <2> QED BY <2>z, <2>2, <2>4, <2>6 DEF SendsOnce
<1> QED BY <1>1, <1>2

(* The end of the stream sends the held chunk, then the last one.           *)
LEMMA FinishSends ==
  ASSUME NEW Byte, NEW a \in Assemblers(Byte), a.out = <<>>
  PROVE  Accounted(a.sent, Finish(a), Byte)
<1> DEFINE e == EmitHeld(a)
           m == EmitBuffer(e)
<1>0. Accounted(a.sent, a, Byte) /\ a.out \in Seq(Seq(Byte))
  BY DEF Accounted, Assemblers
<1>1. SendsOnce(a, e, Byte) /\ e \in Assemblers(Byte)
  BY EmitHeldSends
<1>2. Accounted(a.sent, e, Byte)
  BY <1>0, <1>1, AccountStep
<1>3. e.out \in Seq(Seq(Byte)) /\ e.buffer \in Seq(Byte)
  BY <1>1 DEF Assemblers
<1> HIDE DEF e
<1>4. SendsOnce(e, m, Byte)
  <2>1. CASE e.buffer = <<>>
    BY <2>1 DEF EmitBuffer, SendsOnce
  <2>2. CASE e.buffer # <<>>
    <3>1. m = [e EXCEPT !.out = Append(e.out, e.buffer),
                        !.sent = e.sent \o e.buffer, !.buffer = <<>>]
      BY <2>2 DEF EmitBuffer, Emit
    <3>2. m.out = Append(e.out, e.buffer) /\ m.sent = e.sent \o e.buffer
      BY <1>1, <3>1 DEF Assemblers
    <3> QED BY <1>3, <3>2 DEF SendsOnce
  <2> QED BY <2>1, <2>2
<1>5. Accounted(a.sent, m, Byte)
  BY <1>2, <1>3, <1>4, AccountStep
<1>6. Finish(a) = [m EXCEPT !.hashed = <<>>]
  BY DEF Finish, e
<1>7. DOMAIN m = DOMAIN e
  BY <1>1 DEF EmitBuffer, Emit
<1>8. {"out", "sent"} \subseteq DOMAIN m
  BY <1>1, <1>7 DEF Assemblers
<1> HIDE DEF m
<1>9. Finish(a).out = m.out /\ Finish(a).sent = m.sent
  BY <1>6, <1>8
<1> QED BY <1>5, <1>9 DEF Accounted

(***************************************************************************)
(* The driver: the invariant of the chunks.                                *)
(***************************************************************************)

\* The invariant: the assembler is sound, answers for the bytes accepted and
\* is empty when no stream is open; a header under collection is part of the
\* stream, and a finished walker is a new one; a call that gives the
\* assembler one byte emits at most one chunk.
Inv ==
  /\ TypeOK
  /\ Sound(asm, Bytes)
  /\ Len(fed) <= MaxBytes /\ walker.header <= Len(fed)
  /\ phase = "open" => Whole(asm) = fed
  /\ phase = "ended" => asm.sent = fed /\ walker = NewWalker
  /\ phase # "open" => asm.held = <<>> /\ asm.buffer = <<>>
  /\ phase # "ended" => Len(asm.out) <= 1
  /\ phase # "ended" /\ ~profile.canonical => emitted <= 1

(* The chunks of the step count to those of its call.                       *)
LEMMA CountsSound ==
  ASSUME emitted \in Nat, asm' \in Assemblers(Bytes), NEW begins \in BOOLEAN,
         Counts(begins)
  PROVE  emitted' \in Nat /\ (begins => emitted' = Len(asm'.out))
<1>1. Len(asm'.out) \in Nat
  BY LenProperties DEF Assemblers
<1>2. CASE begins
  BY <1>1, <1>2 DEF Counts
<1>3. CASE ~begins
  BY <1>1, <1>3 DEF Counts
<1> QED BY <1>2, <1>3

(* A call begins with the same assembler and nothing emitted.               *)
LEMMA CalledSound ==
  ASSUME NEW a, Sound(a, Bytes)
  PROVE  /\ Sound(Called(a), Bytes)
         /\ Called(a).out = <<>> /\ Called(a).sent = a.sent
         /\ Called(a).held = a.held /\ Called(a).buffer = a.buffer
         /\ Whole(Called(a)) = Whole(a) /\ Len(Called(a).out) = 0
<1> DEFINE c == Called(a)
<1>n. <<>> \in Seq(Seq(Bytes)) /\ Len(<<>>) = 0 /\ DOMAIN <<>> = {}
  BY EmptySeq, LenProperties
<1>1. /\ c \in Assemblers(Bytes) /\ c.out = <<>> /\ c.sent = a.sent
      /\ c.held = a.held /\ c.buffer = a.buffer /\ c.hashed = a.hashed
  BY <1>n DEF Called, Sound, Bounded, Assemblers
<1> HIDE DEF c
<1>2. Sound(c, Bytes) /\ Whole(c) = Whole(a)
  BY <1>1, <1>n DEF Sound, Bounded, Whole
<1> QED BY <1>1, <1>2, <1>n DEF c

(* What the driver does before it pushes the byte.                          *)
LEMMA AnnouncedSound ==
  ASSUME NEW a, Sound(a, Bytes), NEW isUnit \in BOOLEAN, NEW gate \in Gates
  PROVE  /\ Sound(Announced(a, isUnit, gate), Bytes)
         /\ Whole(Announced(a, isUnit, gate)) = Whole(a)
         /\ Quiet(Announced(a, isUnit, gate), 0)
<1> DEFINE c == Called(a)
           b == Boundary(c)
<1>1. Sound(c, Bytes) /\ Whole(c) = Whole(a) /\ c.out = <<>> /\ Len(c.out) = 0
  BY CalledSound
<1>a. Announced(a, isUnit, gate) = IF isUnit THEN SetGate(b, gate) ELSE c
  BY DEF Announced
<1>2. CASE isUnit
  <2> HIDE DEF c
  <2>1. Sound(b, Bytes) /\ Whole(b) = Whole(c) /\ Quiet(b, 0)
    BY <1>1, BoundarySound
  <2> HIDE DEF b
  <2>2. /\ Sound(SetGate(b, gate), Bytes) /\ Whole(SetGate(b, gate)) = Whole(b)
        /\ SetGate(b, gate).buffer = b.buffer /\ SetGate(b, gate).out = b.out
    BY <2>1, SetGateSound
  <2> QED BY <1>1, <1>a, <1>2, <2>1, <2>2 DEF Quiet
<1>3. CASE ~isUnit
  <2> HIDE DEF c
  <2> QED BY <1>1, <1>a, <1>3 DEF Quiet
<1> QED BY <1>2, <1>3

(* The walker stays in its type, and a large unit it reports began with the *)
(* header it collected.                                                     *)
LEMMA WalkerSteps ==
  ASSUME profile \in Profiles, walker \in Walkers,
         NEW seen \in HeaderBytes(profile, walker) \cup PayloadBytes(profile, walker)
                        \cup BlankBytes(profile, walker)
  PROVE  /\ seen.next \in Walkers
         /\ seen.large \in 0..(walker.header + 1) /\ seen.large <= HeaderMax
         /\ seen.next.header <= walker.header + 1
<1>p. profile.unitMin \in 0..ChunkMin
  BY ProfilesAssumption, EnvelopeAssumption
<1>w. /\ walker.header \in 0..HeaderMax /\ walker.owed \in 0..ChunkMin
      /\ walker.open \in BOOLEAN /\ walker.at \in BOOLEAN
      /\ HeaderMax \in Nat /\ ChunkMin \in Nat
  BY EnvelopeAssumption, BoundsAssumption DEF Walkers
<1> DEFINE len == walker.header + 1
<1>s. ASSUME NEW at \in BOOLEAN, NEW header \in 0..HeaderMax,
             NEW owed \in 0..ChunkMin, NEW open \in BOOLEAN,
             NEW large \in 0..HeaderMax, header <= len, large <= len,
             seen = Seen(at, header, owed, open, large)
      PROVE  /\ seen.next \in Walkers
             /\ seen.large \in 0..len /\ seen.large <= HeaderMax
             /\ seen.next.header <= len
  <2>1. /\ seen.next = [at |-> at, header |-> header, owed |-> owed, open |-> open]
        /\ seen.large = large
    BY <1>s DEF Seen
  <2>2. seen.next.header = header /\ seen.next \in Walkers
    BY <2>1 DEF Walkers
  <2>3. len \in Nat /\ large \in Nat
    BY <1>w
  <2> QED BY <1>s, <1>w, <2>1, <2>2, <2>3
<1>z. 0 \in 0..HeaderMax /\ 0 \in 0..ChunkMin /\ 0 <= len
  BY <1>w
<1>1. CASE seen \in HeaderBytes(profile, walker)
  <2>1. len \in 0..HeaderMax /\ len <= len
    <3>1. ~(len > HeaderMax)
      BY <1>1 DEF HeaderBytes
    <3> QED BY <1>w, <3>1
  <2>2. \/ seen = Seen(FALSE, len, 0, walker.open, 0)
        \/ \E at \in BOOLEAN : seen = Seen(at, 0, 0, FALSE, 0)
        \/ seen = Seen(FALSE, 0, 0, TRUE, 0)
        \/ seen = Seen(FALSE, 0, profile.unitMin, FALSE, len)
        \/ seen = Seen(FALSE, 0, 0, TRUE, len)
    <3> DEFINE grow == Seen(FALSE, len, 0, walker.open, 0)
               small == {Seen(at, 0, 0, FALSE, 0) : at \in BOOLEAN}
               within == Seen(FALSE, 0, 0, TRUE, 0)
               big == Seen(FALSE, 0, profile.unitMin, FALSE, len)
               opened == Seen(FALSE, 0, 0, TRUE, len)
    <3>1. seen \in {grow} \cup small \cup {within} \cup {big} \cup {opened}
      <4> HIDE DEF grow, small, within, big, opened
      <4> QED BY <1>1 DEF HeaderBytes, grow, small, within, big, opened
    <3> QED BY <3>1
  <2> QED BY <2>1, <2>2, <1>p, <1>w, <1>s, <1>z
<1>2. CASE seen \in PayloadBytes(profile, walker)
  <2>1. \/ walker.owed > 1 /\ seen = Seen(FALSE, 0, walker.owed - 1, FALSE, 0)
        \/ seen = Seen(TRUE, 0, 0, FALSE, 0)
        \/ seen = Seen(FALSE, 0, 0, walker.open, 0)
    BY <1>2, Zenon DEF PayloadBytes
  <2>2. walker.owed > 1 => walker.owed - 1 \in 0..ChunkMin
    BY <1>w
  <2> QED BY <2>1, <2>2, <1>w, <1>s, <1>z
<1>3. CASE seen \in BlankBytes(profile, walker)
  <2>1. seen = Seen(TRUE, 0, 0, FALSE, 0)
    BY <1>3, Zenon DEF BlankBytes
  <2> QED BY <2>1, <1>s, <1>z
<1> QED BY <1>1, <1>2, <1>3

LEMMA InitInv == Init => Inv
<1> SUFFICES ASSUME Init PROVE Inv
  OBVIOUS
<1>n. /\ <<>> \in Seq(Bytes) /\ <<>> \in Seq(Seq(Bytes)) /\ Len(<<>>) = 0
      /\ DOMAIN <<>> = {}
  BY EmptySeq, LenProperties
<1>p. profile.unitMin \in 1..ChunkMin /\ profile \in Profiles
  BY ProfilesAssumption DEF Init
<1>1. /\ asm \in Assemblers(Bytes)
      /\ asm.held = <<>> /\ asm.buffer = <<>> /\ asm.hashed = <<>>
      /\ asm.out = <<>> /\ asm.sent = <<>>
  BY <1>n, <1>p DEF Init, Fresh, Assemblers, Gates
<1>2. Sound(asm, Bytes)
  BY <1>1, <1>n, EnvelopeAssumption DEF Sound, Bounded
<1>3. walker \in Walkers /\ walker.header = 0
  BY BoundsAssumption, EnvelopeAssumption DEF Init, NewWalker, Walkers
<1>4. Whole(asm) = fed
  BY <1>1, <1>n, ConcatEmptySeq DEF Whole, Init
<1>5. emitted = 0 /\ emitted \in Nat /\ emitted <= 1
  BY DEF Init
<1> QED BY <1>1, <1>2, <1>3, <1>4, <1>5, <1>n, <1>p, BoundsAssumption
        DEF Init, Inv, TypeOK

(* An accepted byte.                                                        *)
LEMMA AcceptInv ==
  ASSUME Inv, phase = "open", Len(fed) < MaxBytes,
         NEW isUnit \in BOOLEAN,
         NEW seen \in HeaderBytes(profile, walker) \cup PayloadBytes(profile, walker)
                        \cup BlankBytes(profile, walker),
         Accept(Len(fed) + 1, isUnit, seen)
  PROVE  Inv'
<1> DEFINE byte == Len(fed) + 1
<1>t. /\ profile \in Profiles /\ walker \in Walkers /\ fed \in Seq(Bytes)
      /\ Sound(asm, Bytes) /\ Whole(asm) = fed /\ Len(fed) \in Nat
      /\ walker.header <= Len(fed) /\ walker.header \in Nat
      /\ larges \in SUBSET [at : Bytes, header : 1..HeaderMax,
                            known : BOOLEAN]
  BY LenProperties DEF Inv, TypeOK, Walkers
<1>w. /\ seen.next \in Walkers
      /\ seen.large \in 0..(walker.header + 1) /\ seen.large <= HeaderMax
      /\ seen.next.header <= walker.header + 1
  BY <1>t, WalkerSteps
<1>b. byte \in Bytes
  BY <1>t, BoundsAssumption DEF Bytes
<1>f. /\ fed' = Append(fed, byte) /\ fed' \in Seq(Bytes) /\ Len(fed') = Len(fed) + 1
  BY <1>t, <1>b, AppendProperties DEF Accept
<1>1. Sound(asm', Bytes) /\ Whole(asm') = fed' /\ Len(asm'.out) <= 1
  <2>1. PICK gate \in Gates, seam \in Seams, hit \in BOOLEAN :
          asm' = IF seen.large > 0
                 THEN LargeUnitStarts(Push(Announced(asm, isUnit, gate), byte,
                                           seam, hit), seen.large)
                 ELSE Push(Announced(asm, isUnit, gate), byte, seam, hit)
    BY DEF Accept, Gates
  <2> DEFINE a == Announced(asm, isUnit, gate)
             p == Push(a, byte, seam, hit)
  <2>2. Sound(a, Bytes) /\ Whole(a) = fed /\ Quiet(a, 0)
    BY <1>t, AnnouncedSound
  <2> HIDE DEF a
  <2>3. Sound(p, Bytes) /\ Whole(p) = fed' /\ Quiet(p, 1)
    BY <1>b, <1>f, <2>2, PushSound
  <2>4. asm' = IF seen.large > 0 THEN LargeUnitStarts(p, seen.large) ELSE p
    BY <2>1 DEF a
  <2> HIDE DEF p
  <2>5. CASE seen.large > 0
    <3>1. seen.large \in Nat /\ seen.large >= 1
      BY <1>w, <1>t, <2>5
    <3> QED BY <2>3, <2>4, <2>5, <3>1, LargeUnitStartsSound
  <2>6. CASE ~(seen.large > 0)
    BY <2>3, <2>4, <2>6 DEF Quiet
  <2> QED BY <2>5, <2>6
<1>2. larges' \in SUBSET [at : Bytes, header : 1..HeaderMax,
                          known : BOOLEAN]
  <2>1. CASE seen.large > 0
    <3> DEFINE l == [at |-> Len(fed) + 2 - seen.large, header |-> seen.large,
                     known |-> ~seen.next.open]
    <3>1. /\ Len(fed) + 2 - seen.large \in Bytes /\ seen.large \in 1..HeaderMax
      BY <1>t, <1>w, <2>1, BoundsAssumption DEF Bytes
    <3>2. seen.next.open \in BOOLEAN /\ walker.open \in BOOLEAN
      BY <1>t, <1>w DEF Walkers
    <3>3. l \in [at : Bytes, header : 1..HeaderMax, known : BOOLEAN]
      BY <3>1, <3>2
    <3>4. larges' \subseteq larges \cup {l}
      BY <2>1 DEF Accept
    <3> QED BY <1>t, <3>3, <3>4
  <2>2. CASE ~(seen.large > 0)
    <3>1. larges' \subseteq larges
      BY <2>2 DEF Accept
    <3> QED BY <1>t, <3>1
  <2> QED BY <2>1, <2>2
<1>3. /\ walker' = seen.next /\ result' = "ok" /\ phase' = "open"
      /\ profile' = profile
  BY DEF Accept
<1>e. emitted' \in Nat /\ (~profile'.canonical => emitted' <= 1)
  <2>1. PICK begins \in CallBegins : Counts(begins)
    BY DEF Accept
  <2>2. begins \in BOOLEAN /\ (~profile.canonical => begins)
    BY <2>1 DEF CallBegins
  <2>3. emitted \in Nat /\ asm' \in Assemblers(Bytes)
    BY <1>1 DEF Inv, TypeOK, Sound, Bounded
  <2>4. emitted' \in Nat /\ (begins => emitted' = Len(asm'.out))
    BY <2>1, <2>2, <2>3, CountsSound
  <2> QED BY <1>1, <1>3, <2>2, <2>4
<1>4. TypeOK'
  BY <1>1, <1>2, <1>3, <1>t, <1>w, <1>f, <1>e DEF TypeOK, Sound, Bounded
<1>5. Len(fed') <= MaxBytes /\ walker'.header <= Len(fed')
  BY <1>t, <1>w, <1>f, <1>3, BoundsAssumption DEF Walkers
<1> QED BY <1>1, <1>3, <1>4, <1>5, <1>e DEF Inv

(* Every step of the driver, and of its caller, preserves the invariant.    *)
LEMMA NextInv == Inv /\ [Next]_vars => Inv'
<1> SUFFICES ASSUME Inv, [Next]_vars PROVE Inv'
  OBVIOUS
<1>t. /\ TypeOK /\ Sound(asm, Bytes) /\ asm.gate \in Gates
      /\ walker.header <= Len(fed) /\ Len(fed) <= MaxBytes
      /\ asm.sent \in Seq(Bytes) /\ Len(asm.out) \in Nat
  BY LenProperties DEF Inv, TypeOK, Assemblers
<1>n. /\ <<>> \in Seq(Bytes) /\ <<>> \in Seq(Seq(Bytes)) /\ Len(<<>>) = 0
      /\ DOMAIN <<>> = {}
  BY EmptySeq, LenProperties
<1>w. NewWalker \in Walkers /\ NewWalker.header = 0
  BY BoundsAssumption, EnvelopeAssumption DEF NewWalker, Walkers
<1>c. ASSUME Sound(asm', Bytes), Counts(TRUE)
      PROVE  emitted' \in Nat /\ (Len(asm'.out) <= 1 => emitted' <= 1)
  <2>1. emitted \in Nat /\ asm' \in Assemblers(Bytes)
    BY <1>c, <1>t DEF TypeOK, Sound, Bounded
  <2>2. TRUE \in BOOLEAN
    OBVIOUS
  <2>3. emitted' \in Nat /\ emitted' = Len(asm'.out)
    BY <1>c, <2>1, <2>2, CountsSound
  <2> QED BY <2>3
<1>1. ASSUME PushByte(Len(fed) + 1) PROVE Inv'
  <2>1. phase = "open" /\ Len(fed) < MaxBytes /\ walker.at \in BOOLEAN
    BY <1>1, <1>t DEF PushByte, TypeOK, Walkers
  <2>2. PICK isUnit \in BOOLEAN, seen \in HeaderBytes(profile, walker) \cup PayloadBytes(profile, walker)
                                            \cup BlankBytes(profile, walker) :
          Accept(Len(fed) + 1, isUnit, seen)
    BY <1>1, <2>1 DEF PushByte
  <2> QED BY <2>1, <2>2, AcceptInv
<1>2. ASSUME PushFault PROVE Inv'
  <2> DEFINE isUnit == walker.at /\ ~profile.canonical
             a == Announced(asm, isUnit, asm.gate)
  <2>1. isUnit \in BOOLEAN
    OBVIOUS
  <2>2. Sound(a, Bytes) /\ Len(a.out) <= 1
    BY <1>t, <2>1, AnnouncedSound DEF Quiet
  <2>3. asm' = Clear(a)
    BY <1>2 DEF PushFault
  <2> HIDE DEF a
  <2>4. /\ Sound(asm', Bytes) /\ asm'.held = <<>> /\ asm'.buffer = <<>>
        /\ Len(asm'.out) <= 1
    BY <2>2, <2>3, ClearSound
  <2>5. emitted' \in Nat /\ emitted' <= 1
    BY <1>2, <1>c, <2>4 DEF PushFault
  <2> QED BY <1>2, <1>t, <2>4, <2>5 DEF PushFault, Inv, TypeOK, Sound, Bounded
<1>3. ASSUME FinishOk PROVE Inv'
  <2> DEFINE c == Called(asm)
             f == Finish(c)
  <2>1. Sound(c, Bytes) /\ Whole(c) = fed
    BY <1>3, CalledSound DEF FinishOk, Inv
  <2>2. asm' = SetGate(f, "PerByte") /\ "PerByte" \in Gates
    BY <1>3 DEF FinishOk, Gates
  <2> HIDE DEF c
  <2>3. Sound(f, Bytes) /\ f.held = <<>> /\ f.buffer = <<>> /\ f.sent = fed
    BY <2>1, FinishSound
  <2> HIDE DEF f
  <2>4. /\ Sound(asm', Bytes) /\ asm'.held = <<>> /\ asm'.buffer = <<>>
        /\ asm'.sent = fed
    BY <2>2, <2>3, SetGateSound
  <2>5. /\ walker' = NewWalker /\ phase' = "ended" /\ result' = "ok"
        /\ profile' = profile /\ fed' = fed /\ larges' = larges
    BY <1>3 DEF FinishOk
  <2>6. walker'.header <= Len(fed')
    BY <1>w, <1>t, <2>5, LenProperties DEF TypeOK
  <2>7. emitted' \in Nat
    <3>1. PICK begins \in CallBegins : Counts(begins)
      BY <1>3 DEF FinishOk
    <3>2. begins \in BOOLEAN
      BY <3>1 DEF CallBegins
    <3>3. emitted \in Nat /\ asm' \in Assemblers(Bytes)
      BY <1>t, <2>4 DEF TypeOK, Sound, Bounded
    <3> QED BY <3>1, <3>2, <3>3, CountsSound
  <2> QED BY <1>t, <1>w, <2>4, <2>5, <2>6, <2>7 DEF Inv, TypeOK, Sound, Bounded
<1>4. ASSUME FinishTruncated PROVE Inv'
  <2>1. Sound(Called(asm), Bytes) /\ Len(Called(asm).out) = 0
    BY <1>t, CalledSound
  <2>2. asm' = Clear(Called(asm))
    BY <1>4 DEF FinishTruncated
  <2>3. /\ Sound(asm', Bytes) /\ asm'.held = <<>> /\ asm'.buffer = <<>>
        /\ Len(asm'.out) <= 1
    BY <2>1, <2>2, ClearSound
  <2>4. emitted' \in Nat /\ emitted' <= 1
    BY <1>4, <1>c, <2>3 DEF FinishTruncated
  <2> QED BY <1>4, <1>t, <2>3, <2>4 DEF FinishTruncated, Inv, TypeOK, Sound, Bounded
<1>5. ASSUME NextStream PROVE Inv'
  <2>1. /\ asm' = [asm EXCEPT !.out = <<>>, !.sent = <<>>] /\ phase' = "open"
        /\ fed' = <<>> /\ larges' = {} /\ walker' = walker
        /\ walker = NewWalker /\ profile' = profile /\ result' = result
        /\ emitted' = 0
        /\ asm.held = <<>> /\ asm.buffer = <<>> /\ asm.hashed = <<>>
    BY <1>5, <1>t DEF NextStream, Inv, Sound
  <2>2. /\ asm' \in Assemblers(Bytes) /\ asm'.held = <<>> /\ asm'.buffer = <<>>
        /\ asm'.hashed = <<>> /\ asm'.out = <<>> /\ asm'.sent = <<>>
    BY <1>t, <1>n, <2>1 DEF TypeOK, Assemblers
  <2>3. Sound(asm', Bytes)
    BY <2>2, <1>n, EnvelopeAssumption DEF Sound, Bounded
  <2>4. Whole(asm') = fed'
    BY <2>1, <2>2, <1>n, ConcatEmptySeq DEF Whole
  <2>5. walker'.header <= Len(fed') /\ Len(fed') <= MaxBytes
    BY <1>n, <1>w, <2>1, BoundsAssumption
  <2>6. (Whole(asm) = fed)' /\ Len(asm'.out) <= 1
    BY <1>n, <2>2, <2>4 DEF Whole
  <2>7. TypeOK'
    BY <1>t, <1>n, <1>w, <2>1, <2>2 DEF TypeOK
  <2> QED BY <2>1, <2>2, <2>3, <2>5, <2>6, <2>7 DEF Inv, Sound, Bounded
<1>6. ASSUME Refuse PROVE Inv'
  <2>1. /\ asm' = Called(asm) /\ phase = "rejected" /\ phase' = "rejected"
        /\ result' = "refused" /\ walker' = walker /\ fed' = fed
        /\ larges' = larges /\ profile' = profile
        /\ asm.held = <<>> /\ asm.buffer = <<>>
    BY <1>6 DEF Refuse, Inv
  <2>2. /\ Sound(asm', Bytes) /\ asm'.held = <<>> /\ asm'.buffer = <<>>
        /\ Len(asm'.out) <= 1
    BY <1>t, <2>1, CalledSound
  <2>3. emitted' \in Nat /\ emitted' <= 1
    BY <1>6, <1>c, <2>2 DEF Refuse
  <2> QED BY <1>t, <2>1, <2>2, <2>3 DEF Inv, TypeOK, Sound, Bounded
<1>7. ASSUME UNCHANGED vars PROVE Inv'
  BY <1>7 DEF vars, Inv, TypeOK, Sound, Bounded, Whole
<1> QED BY <1>1, <1>2, <1>3, <1>4, <1>5, <1>6, <1>7 DEF Next

LEMMA Invariance == Spec => []Inv
<1>1. Init => Inv
  BY InitInv
<1>2. Inv /\ [Next]_vars => Inv'
  BY NextInv
<1> QED BY <1>1, <1>2, PTL DEF Spec

(* Every variable keeps its type, for every envelope and set of profiles.   *)
THEOREM TypeCorrect == Spec => []TypeOK
<1>1. Inv => TypeOK
  BY DEF Inv
<1> QED BY <1>1, Invariance, PTL

(* No byte of an open stream is lost, repeated or moved, and a finished     *)
(* stream has been emitted to its last byte.                                *)
THEOREM ChunksPartitionTheStream == Spec => []Partition
<1>1. Inv => Partition
  BY DEF Inv, Partition, Whole
<1> QED BY <1>1, Invariance, PTL

(* No chunk is empty or exceeds the maximum, and memory stays below two     *)
(* maximum chunks.                                                          *)
THEOREM ChunksWithinEnvelope == Spec => []Envelope
<1>1. Inv => Envelope
  BY DEF Inv, Envelope, Sound, Bounded
<1> QED BY <1>1, Invariance, PTL

(* The gear hash covers exactly the chunk under construction.               *)
THEOREM CutsAreLocal == Spec => []HashIsLocal
<1>1. Inv => HashIsLocal
  BY DEF Inv, HashIsLocal, Sound
<1> QED BY <1>1, Invariance, PTL

(* An accepted byte completes at most one chunk, however the boundary, the  *)
(* content cut and the realignment of that byte fall; a call of push that   *)
(* gives the assembler one byte, for every profile but the canonical one,   *)
(* emits at most that chunk.                                                *)
THEOREM PushEmitsOneChunk == Spec => []OneChunkPerByte
<1>1. Inv => OneChunkPerByte
  BY DEF Inv, OneChunkPerByte
<1> QED BY <1>1, Invariance, PTL

(* A rejected stream stays rejected and emits nothing more.                 *)
THEOREM RejectionIsFinal == Spec => RejectedForGood
<1>1. Inv /\ [Next]_vars =>
        [phase = "rejected" =>
           /\ phase' = "rejected" /\ result' = "refused"
           /\ asm'.out = <<>> /\ asm'.sent = asm.sent
           /\ asm'.held = <<>> /\ asm'.buffer = <<>>]_vars
  <2> SUFFICES ASSUME Inv, Next, phase = "rejected"
               PROVE  /\ phase' = "rejected" /\ result' = "refused"
                      /\ asm'.out = <<>> /\ asm'.sent = asm.sent
                      /\ asm'.held = <<>> /\ asm'.buffer = <<>>
    BY DEF vars
  <2>1. Refuse
    BY DEF Next, PushByte, PushFault, FinishOk, FinishTruncated, NextStream
  <2>2. Sound(asm, Bytes) /\ asm.held = <<>> /\ asm.buffer = <<>>
    BY DEF Inv
  <2> QED BY <2>1, <2>2, CalledSound DEF Refuse
<1> QED BY <1>1, Invariance, PTL DEF Spec, RejectedForGood

(* The account of one call: what it emitted is what it sent.                *)
LEMMA AnnouncedAccount ==
  ASSUME NEW a, Sound(a, Bytes), NEW isUnit \in BOOLEAN, NEW gate \in Gates
  PROVE  Accounted(a.sent, Announced(a, isUnit, gate), Bytes)
<1> DEFINE c == Called(a)
           b == Boundary(c)
<1>1. Sound(c, Bytes) /\ c.out = <<>> /\ c.sent = a.sent
  BY CalledSound
<1>a. Announced(a, isUnit, gate) = IF isUnit THEN SetGate(b, gate) ELSE c
  BY DEF Announced
<1> HIDE DEF c
<1>2. Accounted(a.sent, c, Bytes)
  BY <1>1 DEF Accounted
<1>t. c \in Assemblers(Bytes) /\ c.out \in Seq(Seq(Bytes))
  BY <1>1 DEF Sound, Bounded, Assemblers
<1>3. Accounted(a.sent, b, Bytes)
  BY <1>2, <1>t, BoundarySends, AccountStep
<1>4. Sound(b, Bytes)
  BY <1>1, BoundarySound
<1> HIDE DEF b
<1>5. SetGate(b, gate).out = b.out /\ SetGate(b, gate).sent = b.sent
  BY <1>4, SetGateSound
<1> QED BY <1>a, <1>2, <1>3, <1>5 DEF Accounted

(* A byte that is accepted.                                                 *)
LEMMA AcceptAccount ==
  ASSUME Inv, NEW isUnit \in BOOLEAN, Len(fed) < MaxBytes,
         NEW seen \in HeaderBytes(profile, walker) \cup PayloadBytes(profile, walker)
                        \cup BlankBytes(profile, walker),
         Accept(Len(fed) + 1, isUnit, seen)
  PROVE  Accounted(asm.sent, asm', Bytes)
<1> DEFINE byte == Len(fed) + 1
<1>t. /\ profile \in Profiles /\ walker \in Walkers /\ fed \in Seq(Bytes)
      /\ Sound(asm, Bytes) /\ Len(fed) \in Nat
  BY LenProperties DEF Inv, TypeOK, Walkers
<1>w. seen.large \in 0..(walker.header + 1) /\ walker.header \in Nat
  BY <1>t, WalkerSteps DEF Walkers
<1>b. byte \in Bytes
  BY <1>t, BoundsAssumption DEF Bytes
<1>1. PICK gate \in Gates, seam \in Seams, hit \in BOOLEAN :
        asm' = IF seen.large > 0
               THEN LargeUnitStarts(Push(Announced(asm, isUnit, gate), byte,
                                         seam, hit), seen.large)
               ELSE Push(Announced(asm, isUnit, gate), byte, seam, hit)
  BY DEF Accept, Gates
<1> DEFINE a == Announced(asm, isUnit, gate)
           p == Push(a, byte, seam, hit)
<1>2. Accounted(asm.sent, a, Bytes) /\ Sound(a, Bytes) /\ Quiet(a, 0)
  BY <1>t, AnnouncedAccount, AnnouncedSound
<1>3. asm' = IF seen.large > 0 THEN LargeUnitStarts(p, seen.large) ELSE p
  BY <1>1
<1> HIDE DEF a
<1>4. a \in Assemblers(Bytes) /\ a.out \in Seq(Seq(Bytes))
  BY <1>2 DEF Sound, Bounded, Assemblers
<1>5. Sound(p, Bytes)
  BY <1>b, <1>2, PushSound
<1>6. SendsOnce(a, p, Bytes)
  BY <1>b, <1>4, PushSends
<1>7. Accounted(asm.sent, p, Bytes)
  BY <1>2, <1>4, <1>6, AccountStep
<1> HIDE DEF p
<1>8. p \in Assemblers(Bytes) /\ p.out \in Seq(Seq(Bytes))
  BY <1>5 DEF Sound, Bounded, Assemblers
<1>9. CASE seen.large > 0
  <2>1. seen.large \in Nat
    BY <1>w
  <2>2. SendsOnce(p, LargeUnitStarts(p, seen.large), Bytes)
    BY <1>8, <2>1, LargeUnitStartsSends
  <2> QED BY <1>3, <1>7, <1>8, <1>9, <2>2, AccountStep
<1>10. CASE ~(seen.large > 0)
  BY <1>3, <1>7, <1>10
<1> QED BY <1>9, <1>10

(* A call that pushes a byte emits what it sends.                           *)
LEMMA PushByteAccount ==
  ASSUME Inv, PushByte(Len(fed) + 1)
  PROVE  Accounted(asm.sent, asm', Bytes)
<1>1. Len(fed) < MaxBytes /\ walker.at \in BOOLEAN
  BY DEF PushByte, Inv, TypeOK, Walkers
<1>2. PICK isUnit \in BOOLEAN, seen \in HeaderBytes(profile, walker) \cup PayloadBytes(profile, walker)
                                          \cup BlankBytes(profile, walker) :
        Accept(Len(fed) + 1, isUnit, seen)
  BY <1>1 DEF PushByte
<1> QED BY <1>1, <1>2, AcceptAccount

(* The call that refuses a byte emits at most what its boundary sent.       *)
LEMMA PushFaultAccount ==
  ASSUME Inv, PushFault
  PROVE  Accounted(asm.sent, asm', Bytes)
<1> DEFINE isUnit == walker.at /\ ~profile.canonical
           a == Announced(asm, isUnit, asm.gate)
<1>1. isUnit \in BOOLEAN /\ asm.gate \in Gates /\ Sound(asm, Bytes)
  BY DEF Inv, TypeOK, Assemblers
<1>2. Accounted(asm.sent, a, Bytes) /\ Sound(a, Bytes)
  BY <1>1, AnnouncedAccount, AnnouncedSound
<1>3. asm' = Clear(a)
  BY DEF PushFault
<1> HIDE DEF a
<1>4. asm'.out = a.out /\ asm'.sent = a.sent
  BY <1>2, <1>3, ClearSound
<1> QED BY <1>2, <1>4 DEF Accounted

(* The call that ends a stream emits what it sends.                         *)
LEMMA FinishOkAccount ==
  ASSUME Inv, FinishOk
  PROVE  Accounted(asm.sent, asm', Bytes)
<1> DEFINE c == Called(asm)
           f == Finish(c)
<1>1. Sound(c, Bytes) /\ c.out = <<>> /\ c.sent = asm.sent
  BY CalledSound DEF Inv
<1>2. asm' = SetGate(f, "PerByte") /\ "PerByte" \in Gates
  BY DEF FinishOk, Gates
<1> HIDE DEF c
<1>3. Sound(f, Bytes) /\ Accounted(c.sent, f, Bytes)
  BY <1>1, FinishSound, FinishSends DEF Sound, Bounded
<1> HIDE DEF f
<1>4. asm'.out = f.out /\ asm'.sent = f.sent
  BY <1>2, <1>3, SetGateSound
<1> QED BY <1>1, <1>3, <1>4 DEF Accounted

(* A stream that ends too early sends nothing.                              *)
LEMMA FinishTruncatedSends ==
  ASSUME Inv, FinishTruncated
  PROVE  asm'.out = <<>> /\ asm'.sent = asm.sent
<1>1. Sound(Called(asm), Bytes) /\ Called(asm).out = <<>> /\ Called(asm).sent = asm.sent
  BY CalledSound DEF Inv
<1>2. asm' = Clear(Called(asm))
  BY DEF FinishTruncated
<1> QED BY <1>1, <1>2, ClearSound

(***************************************************************************)
(* Units and chunks.  The bytes of a stream are its positions, so that the *)
(* chunk held and the one under construction are known by their lengths.   *)
(***************************************************************************)
\* Where the chunk under construction begins, less one.
Cut(a) == Len(a.sent) + Len(a.held)

Placed(a) ==
  /\ \A i \in DOMAIN a.held : a.held[i] = Len(a.sent) + i
  /\ \A i \in DOMAIN a.buffer : a.buffer[i] = Cut(a) + i

\* The chunk under construction begins at the unit or behind.
Begun(a, l) == Cut(a) + 1 >= l.at

\* So does the held chunk, which may therefore grow.
HeldBehind(a, l) == Len(a.sent) + 1 >= l.at \/ a.held = <<>>

\* Neither the held chunk nor one that leaves spans the beginning of the unit.
Clean(a, l) == ~Spans(a.held, l) /\ \A i \in DOMAIN a.out : ~Spans(a.out[i], l)

\* No chunk held or sent is short of the unit minimum.
Coalesced(a) ==
  /\ a.held # <<>> => Len(a.held) >= a.unitMin
  /\ \A i \in DOMAIN a.out : Len(a.out[i]) >= a.unitMin

(* Sums.                                                                    *)
LEMMA NatSum == \A x, y \in Nat : x + y \in Nat
OBVIOUS

(* The lengths and the ends of the chunks.                                  *)
LEMMA ChunkEnds ==
  ASSUME NEW Byte, NEW a \in Assemblers(Byte), Placed(a)
  PROVE  /\ Len(a.sent) \in Nat /\ Len(a.held) \in Nat /\ Len(a.buffer) \in Nat
         /\ Cut(a) = Len(a.sent) + Len(a.held) /\ Cut(a) \in Nat
         /\ a.held = <<>> <=> Len(a.held) = 0
         /\ a.held # <<>> => /\ a.held[1] = Len(a.sent) + 1
                             /\ a.held[Len(a.held)] = Cut(a)
         /\ a.buffer # <<>> => /\ a.buffer[1] = Cut(a) + 1
                               /\ a.buffer[Len(a.buffer)] = Cut(a) + Len(a.buffer)
<1>1. a.sent \in Seq(Byte) /\ a.held \in Seq(Byte) /\ a.buffer \in Seq(Byte)
  BY DEF Assemblers
<1>2. /\ Len(a.sent) \in Nat /\ Len(a.held) \in Nat /\ Len(a.buffer) \in Nat
      /\ DOMAIN a.held = 1..Len(a.held) /\ DOMAIN a.buffer = 1..Len(a.buffer)
      /\ a.held = <<>> <=> Len(a.held) = 0
      /\ a.buffer = <<>> <=> Len(a.buffer) = 0
  BY <1>1, EmptySeq, LenProperties
<1>3. ASSUME a.held # <<>>
      PROVE  a.held[1] = Len(a.sent) + 1 /\ a.held[Len(a.held)] = Cut(a)
  <2>1. 1 \in DOMAIN a.held /\ Len(a.held) \in DOMAIN a.held
    BY <1>2, <1>3
  <2> QED BY <2>1 DEF Placed, Cut
<1>4. ASSUME a.buffer # <<>>
      PROVE  /\ a.buffer[1] = Cut(a) + 1
             /\ a.buffer[Len(a.buffer)] = Cut(a) + Len(a.buffer)
  <2>1. 1 \in DOMAIN a.buffer /\ Len(a.buffer) \in DOMAIN a.buffer
    BY <1>2, <1>4
  <2> QED BY <2>1 DEF Placed
<1>5. Cut(a) = Len(a.sent) + Len(a.held) /\ Cut(a) \in Nat
  <2>1. Len(a.sent) \in Nat /\ Len(a.held) \in Nat
    BY <1>2
  <2> QED BY <2>1, NatSum DEF Cut
<1> QED BY <1>2, <1>3, <1>4, <1>5

(* A sequence of positions is in its place wherever it is cut.              *)
LEMMA WholePlaced ==
  ASSUME NEW Byte, NEW a \in Assemblers(Byte),
         \A i \in 1..Len(Whole(a)) : Whole(a)[i] = i
  PROVE  /\ Placed(a) /\ Len(Whole(a)) = Cut(a) + Len(a.buffer)
         /\ \A i \in DOMAIN a.sent : a.sent[i] = i
<1> DEFINE p == a.sent \o a.held
<1>1. a.sent \in Seq(Byte) /\ a.held \in Seq(Byte) /\ a.buffer \in Seq(Byte)
  BY DEF Assemblers
<1>2. /\ p \in Seq(Byte) /\ Len(p) = Len(a.sent) + Len(a.held)
      /\ \A i \in 1..Len(p) :
           p[i] = IF i <= Len(a.sent) THEN a.sent[i] ELSE a.held[i - Len(a.sent)]
  BY <1>1, ConcatProperties
<1>w. Whole(a) = p \o a.buffer
  BY DEF Whole
<1> HIDE DEF p
<1>3. /\ Len(Whole(a)) = Len(p) + Len(a.buffer)
      /\ \A i \in 1..Len(p) + Len(a.buffer) :
           Whole(a)[i] = IF i <= Len(p) THEN p[i] ELSE a.buffer[i - Len(p)]
  <2>1. p \in Seq(Byte) /\ a.buffer \in Seq(Byte)
    BY <1>1, <1>2
  <2> QED BY <1>w, <2>1, ConcatProperties
<1>4. /\ DOMAIN a.sent = 1..Len(a.sent)
      /\ DOMAIN a.held = 1..Len(a.held) /\ DOMAIN a.buffer = 1..Len(a.buffer)
      /\ Len(a.sent) \in Nat /\ Len(a.held) \in Nat /\ Len(a.buffer) \in Nat
  BY <1>1, LenProperties
<1>5. PICK s \in Nat, h \in Nat, b \in Nat :
        s = Len(a.sent) /\ h = Len(a.held) /\ b = Len(a.buffer)
  BY <1>4
<1>c. Len(p) = s + h /\ Cut(a) = s + h /\ s + h \in Nat
  BY <1>2, <1>5, NatSum DEF Cut
<1>6. \A i \in 1..s + h : p[i] = i
  <2> TAKE i \in 1..s + h
  <2>1. i \in 1..(s + h) + b /\ i <= s + h
    OBVIOUS
  <2> QED BY <1>3, <1>5, <1>c, <2>1
<1>7. ASSUME NEW i \in DOMAIN a.sent PROVE a.sent[i] = i
  <2>1. i \in 1..s
    BY <1>4, <1>5
  <2>2. i \in 1..s + h /\ i <= s
    BY <2>1
  <2> QED BY <1>2, <1>5, <1>6, <1>c, <2>2
<1>8. ASSUME NEW i \in DOMAIN a.held PROVE a.held[i] = Len(a.sent) + i
  <2>1. i \in 1..h
    BY <1>4, <1>5
  <2>2. s + i \in 1..s + h /\ ~(s + i <= s) /\ (s + i) - s = i
    BY <2>1
  <2>3. p[s + i] = a.held[i] /\ p[s + i] = s + i
    BY <1>2, <1>5, <1>6, <1>c, <2>2
  <2> QED BY <1>5, <2>3
<1>9. ASSUME NEW i \in DOMAIN a.buffer PROVE a.buffer[i] = Cut(a) + i
  <2>1. i \in 1..b
    BY <1>4, <1>5
  <2> DEFINE j == (s + h) + i
  <2>2. j \in 1..(s + h) + b /\ ~(j <= s + h) /\ j - (s + h) = i
    BY <2>1
  <2> HIDE DEF j
  <2>3. Whole(a)[j] = a.buffer[i]
    BY <1>3, <1>5, <1>c, <2>2
  <2>4. j \in 1..Len(Whole(a))
    BY <1>3, <1>5, <1>c, <2>2
  <2> QED BY <1>c, <2>3, <2>4 DEF j
<1>x. Len(Whole(a)) = Cut(a) + Len(a.buffer)
  BY <1>3, <1>c
<1> QED BY <1>7, <1>8, <1>9, <1>x DEF Placed

(* What closing and attaching do to the chunks.                             *)
LEMMA CloseChunkFields ==
  ASSUME NEW Byte, NEW a \in Assemblers(Byte)
  PROVE  /\ CloseChunk(a).held = a.buffer /\ CloseChunk(a).buffer = <<>>
         /\ CloseChunk(a).sent = a.sent \o a.held
         /\ CloseChunk(a).unitMin = a.unitMin
         /\ \/ CloseChunk(a).out = a.out
            \/ CloseChunk(a).out = Append(a.out, a.held) /\ a.held # <<>>
<1> DEFINE e == EmitHeld(a)
<1>1. /\ e \in Assemblers(Byte) /\ e.sent = a.sent \o a.held /\ e.unitMin = a.unitMin
      /\ \/ e.out = a.out
         \/ e.out = Append(a.out, a.held) /\ a.held # <<>>
  <2>1. CASE a.held = <<>>
    <3>1. e = a
      BY <2>1 DEF EmitHeld
    <3>2. a.sent \o <<>> = a.sent
      BY ConcatEmptySeq DEF Assemblers
    <3> QED BY <2>1, <3>1, <3>2
  <2>2. CASE a.held # <<>>
    <3>1. e = [a EXCEPT !.out = Append(a.out, a.held),
                        !.sent = a.sent \o a.held, !.held = <<>>]
      BY <2>2 DEF EmitHeld, Emit
    <3>2. e \in Assemblers(Byte)
      BY EmitHeldSends
    <3> QED BY <2>2, <3>1, <3>2 DEF Assemblers
  <2> QED BY <2>1, <2>2
<1>2. CloseChunk(a) = [e EXCEPT !.held = a.buffer, !.buffer = <<>>, !.hashed = <<>>]
  BY DEF CloseChunk
<1> HIDE DEF e
<1> QED BY <1>1, <1>2 DEF Assemblers

LEMMA AttachBackwardFields ==
  ASSUME NEW Byte, NEW a \in Assemblers(Byte)
  PROVE  /\ AttachBackward(a).held = a.held \o a.buffer
         /\ AttachBackward(a).buffer = <<>>
         /\ AttachBackward(a).sent = a.sent /\ AttachBackward(a).out = a.out
         /\ AttachBackward(a).unitMin = a.unitMin
BY DEF AttachBackward, Assemblers

(* A chunk that goes out behind others.                                     *)
LEMMA OneMoreOut ==
  ASSUME NEW Byte, NEW out \in Seq(Seq(Byte)), NEW chunk \in Seq(Byte),
         NEW i \in DOMAIN Append(out, chunk)
  PROVE  \/ i \in DOMAIN out /\ Append(out, chunk)[i] = out[i]
         \/ Append(out, chunk)[i] = chunk
<1> DEFINE n == Len(out)
           o == Append(out, chunk)
<1>1. /\ n \in Nat /\ DOMAIN out = 1..n /\ Len(o) = n + 1
      /\ o \in Seq(Seq(Byte)) /\ o[n + 1] = chunk /\ \A j \in 1..n : o[j] = out[j]
  BY AppendProperties, LenProperties
<1>2. i \in 1..(n + 1)
  <2>1. DOMAIN o = 1..Len(o)
    BY <1>1, LenProperties
  <2> QED BY <1>1, <2>1
<1> HIDE DEF n, o
<1>3. i \in 1..n \/ i = n + 1
  BY <1>1, <1>2
<1>4. (i \in DOMAIN out /\ o[i] = out[i]) \/ o[i] = chunk
  BY <1>1, <1>3
<1> QED BY <1>4 DEF o

(* When the held chunk spans the beginning of a unit, by the lengths.       *)
LEMMA HeldSpans ==
  ASSUME NEW Byte, NEW a \in Assemblers(Byte), Placed(a), NEW l
  PROVE  Spans(a.held, l) <=> /\ a.held # <<>> /\ Len(a.sent) + 1 < l.at
                              /\ Cut(a) >= l.at + l.header
BY ChunkEnds DEF Spans

(* Closing: the held chunk goes out as it was, the next begins behind the   *)
(* beginning of the unit.                                                   *)
LEMMA CloseAligned ==
  ASSUME NEW Byte, NEW a \in Assemblers(Byte), Placed(a),
         NEW l, l.at \in Int, Begun(a, l), Clean(a, l)
  PROVE  /\ Begun(CloseChunk(a), l) /\ Clean(CloseChunk(a), l)
         /\ HeldBehind(CloseChunk(a), l)
<1> DEFINE c == CloseChunk(a)
<1>1. /\ c.held = a.buffer /\ c.sent = a.sent \o a.held
      /\ \/ c.out = a.out
         \/ c.out = Append(a.out, a.held) /\ a.held # <<>>
  BY CloseChunkFields
<1>2. /\ a.sent \in Seq(Byte) /\ a.held \in Seq(Byte) /\ a.buffer \in Seq(Byte)
      /\ a.out \in Seq(Seq(Byte))
  BY DEF Assemblers
<1> HIDE DEF c
<1>3. PICK s \in Nat, h \in Nat, b \in Nat :
        s = Len(a.sent) /\ h = Len(a.held) /\ b = Len(a.buffer)
  BY <1>2, LenProperties
<1>4. Cut(a) = s + h /\ Len(c.sent) = s + h /\ Cut(c) = (s + h) + b
  <2>1. Len(a.sent \o a.held) = Len(a.sent) + Len(a.held)
    BY <1>2, ConcatProperties
  <2> QED BY <1>1, <1>3, <2>1 DEF Cut
<1>5. PICK at \in Int : at = l.at
  OBVIOUS
<1>6. (s + h) + 1 >= at
  BY <1>4, <1>5 DEF Begun
<1>7. Begun(c, l) /\ HeldBehind(c, l)
  <2>1. ((s + h) + b) + 1 >= at
    BY <1>6
  <2> QED BY <1>4, <1>5, <1>6, <2>1 DEF Begun, HeldBehind
<1>8. ~Spans(c.held, l)
  <2>1. CASE a.buffer = <<>>
    BY <1>1, <2>1 DEF Spans
  <2>2. CASE a.buffer # <<>>
    <3>1. a.buffer[1] = (s + h) + 1
      BY <1>4, <2>2, ChunkEnds
    <3>2. ~((s + h) + 1 < at)
      BY <1>6
    <3> QED BY <1>1, <1>5, <3>1, <3>2 DEF Spans
  <2> QED BY <2>1, <2>2
<1>9. ASSUME NEW i \in DOMAIN c.out PROVE ~Spans(c.out[i], l)
  <2>1. CASE c.out = a.out
    BY <1>9, <2>1 DEF Clean
  <2>2. CASE c.out = Append(a.out, a.held)
    <3>1. (i \in DOMAIN a.out /\ c.out[i] = a.out[i]) \/ c.out[i] = a.held
      BY <1>2, <1>9, <2>2, OneMoreOut
    <3> QED BY <3>1 DEF Clean
  <2> QED BY <1>1, <2>1, <2>2
<1> QED BY <1>7, <1>8, <1>9 DEF Clean, c

(* Attaching to a held chunk that begins at the unit or behind.             *)
LEMMA AttachAligned ==
  ASSUME NEW Byte, NEW a \in Assemblers(Byte), Placed(a), a.held # <<>>,
         NEW l, l.at \in Int, Begun(a, l), Clean(a, l), HeldBehind(a, l)
  PROVE  /\ Begun(AttachBackward(a), l) /\ Clean(AttachBackward(a), l)
         /\ HeldBehind(AttachBackward(a), l)
<1> DEFINE c == AttachBackward(a)
<1>1. c.held = a.held \o a.buffer /\ c.sent = a.sent /\ c.out = a.out
  BY AttachBackwardFields
<1>2. a.held \in Seq(Byte) /\ a.buffer \in Seq(Byte) /\ a.sent \in Seq(Byte)
  BY DEF Assemblers
<1> HIDE DEF c
<1>3. PICK s \in Nat, h \in Nat, b \in Nat :
        s = Len(a.sent) /\ h = Len(a.held) /\ b = Len(a.buffer)
  BY <1>2, LenProperties
<1>4. Cut(a) = s + h /\ Len(c.sent) = s /\ Cut(c) = s + (h + b)
  <2>1. Len(a.held \o a.buffer) = Len(a.held) + Len(a.buffer)
    BY <1>2, ConcatProperties
  <2> QED BY <1>1, <1>3, <2>1 DEF Cut
<1>5. PICK at \in Int : at = l.at
  OBVIOUS
<1>6. s + 1 >= at
  BY <1>3, <1>5 DEF HeldBehind
<1>7. Begun(c, l) /\ HeldBehind(c, l)
  <2>1. (s + (h + b)) + 1 >= at
    BY <1>6
  <2> QED BY <1>4, <1>5, <1>6, <2>1 DEF Begun, HeldBehind
<1>8. ~Spans(c.held, l)
  <2>1. h \in Nat \ {0} /\ h = Len(a.held)
    BY <1>2, <1>3, EmptySeq
  <2>2. c.held[1] = a.held[1]
    <3>1. 1 \in 1..h + b /\ 1 <= h
      BY <2>1
    <3> QED BY <1>1, <1>2, <1>3, <3>1, ConcatProperties
  <2>3. a.held[1] = s + 1
    BY <1>3, ChunkEnds
  <2>4. ~(s + 1 < at)
    BY <1>6
  <2> QED BY <1>5, <2>2, <2>3, <2>4 DEF Spans
<1> QED BY <1>1, <1>7, <1>8 DEF Clean, c

(* A boundary: the held chunk may grow, unless it begins before the unit;   *)
(* then what the unit has put in the chunk under construction closes it.    *)
LEMMA BoundaryAligned ==
  ASSUME NEW Byte, NEW a \in Assemblers(Byte), Placed(a),
         NEW l, l.at \in Int, Begun(a, l), Clean(a, l),
         HeldBehind(a, l) \/ Len(a.buffer) >= a.unitMin
  PROVE  /\ Begun(Boundary(a), l) /\ Clean(Boundary(a), l)
         /\ HeldBehind(Boundary(a), l)
<1>1. CASE Len(a.buffer) >= a.unitMin
  <2>1. Boundary(a) = CloseChunk(a)
    BY <1>1 DEF Boundary
  <2> QED BY <2>1, CloseAligned
<1>2. CASE ~(Len(a.buffer) >= a.unitMin) /\ a.buffer # <<>> /\ JoinsHeld(a)
  <2>1. Boundary(a) = AttachBackward(a) /\ a.held # <<>> /\ HeldBehind(a, l)
    BY <1>2 DEF Boundary, JoinsHeld
  <2> QED BY <2>1, AttachAligned
<1>3. CASE ~(Len(a.buffer) >= a.unitMin) /\ ~(a.buffer # <<>> /\ JoinsHeld(a))
  <2>1. Boundary(a) = a
    BY <1>3 DEF Boundary
  <2> QED BY <1>3, <2>1
<1> QED BY <1>1, <1>2, <1>3

(* A pushed byte, at the end of the stream.                                 *)
LEMMA PushAligned ==
  ASSUME NEW Byte, NEW a \in Assemblers(Byte), Placed(a), NEW byte \in Byte,
         byte = Cut(a) + Len(a.buffer) + 1, NEW seam, NEW hit,
         NEW l, l.at \in Int, Begun(a, l), Clean(a, l)
  PROVE  /\ Begun(Push(a, byte, seam, hit), l) /\ Clean(Push(a, byte, seam, hit), l)
         /\ HeldBehind(a, l) => HeldBehind(Push(a, byte, seam, hit), l)
<1> DEFINE g == Absorb(a, byte)
<1>1. /\ a.buffer \in Seq(Byte) /\ DOMAIN a.buffer = 1..Len(a.buffer)
      /\ Len(a.buffer) \in Nat
  BY LenProperties DEF Assemblers
<1>2. /\ g \in Assemblers(Byte) /\ g.out = a.out /\ g.sent = a.sent /\ g.held = a.held
      /\ g.buffer = Append(a.buffer, byte)
  BY AppendProperties DEF Absorb, Assemblers
<1>3. Push(a, byte, seam, hit) = IF CutHere(g, seam, hit) THEN CloseChunk(g) ELSE g
  BY DEF Push
<1> HIDE DEF g
<1>4. Cut(g) = Cut(a)
  BY <1>2 DEF Cut
<1>5. Placed(g)
  <2>1. \A i \in DOMAIN g.held : g.held[i] = Len(g.sent) + i
    BY <1>2 DEF Placed
  <2>2. ASSUME NEW i \in DOMAIN g.buffer PROVE g.buffer[i] = Cut(g) + i
    <3>1. PICK b \in Nat : b = Len(a.buffer)
      BY <1>1
    <3>2. DOMAIN g.buffer = 1..b + 1 /\ g.buffer[b + 1] = byte
          /\ \A j \in 1..b : g.buffer[j] = a.buffer[j]
      BY <1>1, <1>2, <3>1, AppendProperties, LenProperties
    <3>3. i \in 1..b \/ i = b + 1
      BY <2>2, <3>1, <3>2
    <3>4. CASE i \in 1..b
      BY <1>1, <1>4, <3>1, <3>2, <3>4 DEF Placed
    <3>5. CASE i = b + 1
      <4>1. Cut(a) \in Nat
        BY ChunkEnds
      <4>2. byte = Cut(a) + (b + 1)
        BY <3>1, <4>1
      <4> QED BY <1>4, <3>2, <3>5, <4>2
    <3> QED BY <3>3, <3>4, <3>5
  <2> QED BY <2>1, <2>2 DEF Placed
<1>6. Begun(g, l) /\ Clean(g, l)
  BY <1>2, <1>4 DEF Begun, Clean
<1>7. /\ Begun(CloseChunk(g), l) /\ Clean(CloseChunk(g), l)
      /\ HeldBehind(CloseChunk(g), l)
  BY <1>2, <1>5, <1>6, CloseAligned
<1> QED BY <1>2, <1>3, <1>6, <1>7 DEF HeldBehind

(* The unit minimum is set once.                                            *)
LEMMA BoundaryKeepsMinimum ==
  ASSUME NEW Byte, NEW a \in Assemblers(Byte)
  PROVE  Boundary(a).unitMin = a.unitMin
BY CloseChunkFields, AttachBackwardFields DEF Boundary

LEMMA PushKeepsMinimum ==
  ASSUME NEW Byte, NEW a \in Assemblers(Byte), NEW byte \in Byte, NEW seam, NEW hit
  PROVE  Push(a, byte, seam, hit).unitMin = a.unitMin
<1> DEFINE g == Absorb(a, byte)
<1>1. g \in Assemblers(Byte) /\ g.unitMin = a.unitMin
  BY AppendProperties DEF Absorb, Assemblers
<1>2. Push(a, byte, seam, hit) = IF CutHere(g, seam, hit) THEN CloseChunk(g) ELSE g
  BY DEF Push
<1> HIDE DEF g
<1> QED BY <1>1, <1>2, CloseChunkFields

LEMMA LargeUnitKeepsMinimum ==
  ASSUME NEW Byte, NEW a \in Assemblers(Byte), NEW header \in Nat
  PROVE  LargeUnitStarts(a, header).unitMin = a.unitMin
<1>1. CASE Len(a.buffer) <= header
  BY <1>1 DEF LargeUnitStarts
<1>2. CASE ~(Len(a.buffer) <= header)
  <2> DEFINE buf == a.buffer
             start == Len(buf) - header
             tail == SubSeq(buf, 1, start)
             head == SubSeq(buf, start + 1, Len(buf))
             before == [a EXCEPT !.buffer = tail]
             r == IF JoinsHeld(before) THEN AttachBackward(before)
                                       ELSE CloseChunk(before)
  <2>1. LargeUnitStarts(a, header) = [r EXCEPT !.buffer = head, !.hashed = head]
    BY <1>2 DEF LargeUnitStarts
  <2>2. tail \in Seq(Byte)
    <3>1. buf \in Seq(Byte) /\ Len(buf) \in Nat /\ start \in 1..Len(buf)
      BY <1>2, LenProperties DEF Assemblers
    <3>2. \A i \in 1..start : buf[i] \in Byte
      BY <3>1, ElementOfSeq
    <3> HIDE DEF buf, start
    <3> QED BY <3>1, <3>2, SubSeqProperties
  <2> HIDE DEF tail, head
  <2>3. before \in Assemblers(Byte) /\ before.unitMin = a.unitMin
    BY <2>2 DEF Assemblers
  <2> HIDE DEF before
  <2>4. r \in Assemblers(Byte) /\ r.unitMin = a.unitMin
    BY <2>3, CloseChunkSends, AttachBackwardSends, CloseChunkFields, AttachBackwardFields
  <2> HIDE DEF r
  <2> QED BY <2>1, <2>4 DEF Assemblers
<1> QED BY <1>1, <1>2

(* Realigning to a large unit keeps the units before it in their chunks, if *)
(* the held chunk begins behind their beginnings; and the chunk under       *)
(* construction has nothing but the header of the large one.                *)
LEMMA LargeUnitAligned ==
  ASSUME NEW Byte, NEW a \in Assemblers(Byte), Placed(a), NEW header \in Nat
  PROVE  /\ Len(LargeUnitStarts(a, header).buffer) <= header
         /\ \A l : l.at \in Int /\ Begun(a, l) /\ Clean(a, l) /\ HeldBehind(a, l) =>
              /\ Begun(LargeUnitStarts(a, header), l)
              /\ Clean(LargeUnitStarts(a, header), l)
              /\ HeldBehind(LargeUnitStarts(a, header), l)
<1>1. CASE Len(a.buffer) <= header
  BY <1>1 DEF LargeUnitStarts
<1>2. CASE ~(Len(a.buffer) <= header)
  <2> DEFINE buf == a.buffer
             start == Len(buf) - header
             tail == SubSeq(buf, 1, start)
             head == SubSeq(buf, start + 1, Len(buf))
             before == [a EXCEPT !.buffer = tail]
             r == IF JoinsHeld(before) THEN AttachBackward(before)
                                       ELSE CloseChunk(before)
             z == [r EXCEPT !.buffer = head, !.hashed = head]
  <2>z. LargeUnitStarts(a, header) = z
    BY <1>2 DEF LargeUnitStarts
  <2>b. buf \in Seq(Byte) /\ Len(buf) \in Nat /\ DOMAIN buf = 1..Len(buf)
    BY LenProperties DEF Assemblers
  <2>s. start \in 1..Len(buf) /\ Len(buf) - start = header
    BY <1>2, <2>b
  <2> HIDE DEF start
  <2>1. /\ tail \in Seq(Byte) /\ DOMAIN tail = 1..start
        /\ \A i \in 1..start : tail[i] = buf[i]
        /\ head \in Seq(Byte) /\ Len(head) = header
    <3>1. \A i \in 1..Len(buf) : buf[i] \in Byte
      BY <2>b, ElementOfSeq
    <3>2. \A i \in 1..start : buf[i] \in Byte
      BY <2>b, <2>s, <3>1
    <3>3. \A i \in (start + 1)..Len(buf) : buf[i] \in Byte
      BY <2>b, <2>s, <3>1
    <3> HIDE DEF buf
    <3>4. /\ tail \in Seq(Byte) /\ Len(tail) = start
          /\ \A i \in 1..start : tail[i] = buf[i]
      BY <2>s, <2>b, <3>2, SubSeqProperties
    <3>5. head \in Seq(Byte) /\ Len(head) = header
      BY <2>s, <2>b, <3>3, SubSeqProperties
    <3> HIDE DEF tail, head
    <3> QED BY <3>4, <3>5, LenProperties
  <2> HIDE DEF tail, head
  <2>2. /\ before \in Assemblers(Byte) /\ before.buffer = tail
        /\ before.sent = a.sent /\ before.held = a.held /\ before.out = a.out
    BY <2>1 DEF Assemblers
  <2>3. Placed(before)
    <3>1. Cut(before) = Cut(a)
      BY <2>2 DEF Cut
    <3>2. ASSUME NEW i \in DOMAIN before.buffer
          PROVE  before.buffer[i] = Cut(before) + i
      <4>1. i \in 1..start /\ i \in DOMAIN buf
        BY <2>1, <2>2, <2>b, <2>s, <3>2
      <4>2. buf[i] = Cut(a) + i
        BY <4>1 DEF Placed
      <4> QED BY <2>1, <2>2, <3>1, <4>1, <4>2
    <3> QED BY <2>2, <3>2 DEF Placed
  <2>4. \A l : Begun(a, l) /\ Clean(a, l) /\ HeldBehind(a, l) =>
                 Begun(before, l) /\ Clean(before, l) /\ HeldBehind(before, l)
    <3> HIDE DEF before
    <3> QED BY <2>2 DEF Begun, Clean, HeldBehind, Cut
  <2> HIDE DEF before
  <2>5. r \in Assemblers(Byte)
    BY <2>2, CloseChunkSends, AttachBackwardSends
  <2>6. ASSUME NEW l, l.at \in Int, Begun(a, l), Clean(a, l), HeldBehind(a, l)
        PROVE  Begun(r, l) /\ Clean(r, l) /\ HeldBehind(r, l)
    <3>1. Begun(before, l) /\ Clean(before, l) /\ HeldBehind(before, l)
      BY <2>4, <2>6
    <3>2. CASE JoinsHeld(before)
      <4>1. before.held # <<>> /\ r = AttachBackward(before)
        BY <3>2 DEF JoinsHeld
      <4> HIDE DEF r
      <4> QED BY <2>2, <2>3, <2>6, <3>1, <4>1, AttachAligned
    <3>3. CASE ~JoinsHeld(before)
      <4>1. r = CloseChunk(before)
        BY <3>3
      <4> HIDE DEF r
      <4> QED BY <2>2, <2>3, <2>6, <3>1, <4>1, CloseAligned
    <3> QED BY <3>2, <3>3
  <2> HIDE DEF r
  <2>7. /\ z.buffer = head /\ z.held = r.held /\ z.sent = r.sent /\ z.out = r.out
    BY <2>5 DEF Assemblers
  <2> HIDE DEF z
  <2>8. ASSUME NEW l, l.at \in Int, Begun(a, l), Clean(a, l), HeldBehind(a, l)
        PROVE  Begun(z, l) /\ Clean(z, l) /\ HeldBehind(z, l)
    BY <2>6, <2>7, <2>8 DEF Begun, Clean, HeldBehind, Cut
  <2>9. Len(z.buffer) <= header
    BY <2>1, <2>7
  <2> QED BY <2>z, <2>8, <2>9
<1> QED BY <1>1, <1>2

(* The end of the stream sends both chunks as they are.                     *)
LEMMA FinishAligned ==
  ASSUME NEW Byte, NEW a \in Assemblers(Byte), Placed(a),
         NEW l, l.at \in Int, Begun(a, l), Clean(a, l)
  PROVE  \A i \in DOMAIN Finish(a).out : ~Spans(Finish(a).out[i], l)
<1> DEFINE e == EmitHeld(a)
           m == EmitBuffer(e)
<1>1. /\ a.held \in Seq(Byte) /\ a.buffer \in Seq(Byte) /\ a.out \in Seq(Seq(Byte))
  BY DEF Assemblers
<1>2. /\ e \in Assemblers(Byte) /\ e.buffer = a.buffer
      /\ e.out = a.out \/ e.out = Append(a.out, a.held)
  <2>1. CASE a.held = <<>>
    BY <2>1 DEF EmitHeld
  <2>2. CASE a.held # <<>>
    <3>1. e = [a EXCEPT !.out = Append(a.out, a.held),
                        !.sent = a.sent \o a.held, !.held = <<>>]
      BY <2>2 DEF EmitHeld, Emit
    <3>2. e \in Assemblers(Byte)
      BY EmitHeldSends
    <3> QED BY <3>1, <3>2 DEF Assemblers
  <2> QED BY <2>1, <2>2
<1>3. e.out \in Seq(Seq(Byte))
  BY <1>2 DEF Assemblers
<1> HIDE DEF e
<1>4. m.out = e.out \/ m.out = Append(e.out, a.buffer)
  <2>1. CASE e.buffer = <<>>
    BY <2>1 DEF EmitBuffer
  <2>2. CASE e.buffer # <<>>
    <3>1. m = [e EXCEPT !.out = Append(e.out, e.buffer),
                        !.sent = e.sent \o e.buffer, !.buffer = <<>>]
      BY <2>2 DEF EmitBuffer, Emit
    <3> QED BY <1>2, <3>1 DEF Assemblers
  <2> QED BY <2>1, <2>2
<1>5. Finish(a).out = m.out
  <2>1. Finish(a) = [m EXCEPT !.hashed = <<>>]
    BY DEF Finish, e
  <2>2. "out" \in DOMAIN m
    BY <1>2 DEF EmitBuffer, Emit, Assemblers
  <2> HIDE DEF m
  <2> QED BY <2>1, <2>2
<1> HIDE DEF m
<1>6. ~Spans(a.held, l) /\ ~Spans(a.buffer, l)
  <2>1. CASE a.buffer = <<>>
    BY <2>1 DEF Spans, Clean
  <2>2. CASE a.buffer # <<>>
    <3>1. a.buffer[1] = Cut(a) + 1 /\ Cut(a) \in Nat
      BY <2>2, ChunkEnds
    <3>2. ~(a.buffer[1] < l.at)
      BY <3>1 DEF Begun
    <3> QED BY <3>2 DEF Spans, Clean
  <2> QED BY <2>1, <2>2
<1>7. ASSUME NEW i \in DOMAIN e.out PROVE ~Spans(e.out[i], l)
  <2>1. CASE e.out = a.out
    BY <1>7, <2>1 DEF Clean
  <2>2. CASE e.out = Append(a.out, a.held)
    <3>1. (i \in DOMAIN a.out /\ e.out[i] = a.out[i]) \/ e.out[i] = a.held
      BY <1>1, <1>7, <2>2, OneMoreOut
    <3> QED BY <1>6, <3>1 DEF Clean
  <2> QED BY <1>2, <2>1, <2>2
<1>8. ASSUME NEW i \in DOMAIN m.out PROVE ~Spans(m.out[i], l)
  <2>1. CASE m.out = e.out
    BY <1>7, <1>8, <2>1
  <2>2. CASE m.out = Append(e.out, a.buffer)
    <3>1. (i \in DOMAIN e.out /\ m.out[i] = e.out[i]) \/ m.out[i] = a.buffer
      BY <1>1, <1>3, <1>8, <2>2, OneMoreOut
    <3> QED BY <1>6, <1>7, <3>1
  <2> QED BY <1>4, <2>1, <2>2
<1> QED BY <1>5, <1>8

(* Small units: a chunk is closed at the unit minimum or behind it.         *)
LEMMA CloseCoalesced ==
  ASSUME NEW Byte, NEW a \in Assemblers(Byte), Coalesced(a),
         Len(a.buffer) >= a.unitMin
  PROVE  Coalesced(CloseChunk(a))
<1> DEFINE c == CloseChunk(a)
<1>1. /\ c.held = a.buffer /\ c.unitMin = a.unitMin
      /\ \/ c.out = a.out
         \/ c.out = Append(a.out, a.held) /\ a.held # <<>>
  BY CloseChunkFields
<1>2. a.held \in Seq(Byte) /\ a.out \in Seq(Seq(Byte))
  BY DEF Assemblers
<1> HIDE DEF c
<1>3. ASSUME NEW i \in DOMAIN c.out PROVE Len(c.out[i]) >= c.unitMin
  <2>1. CASE c.out = a.out
    BY <1>1, <1>3, <2>1 DEF Coalesced
  <2>2. CASE c.out = Append(a.out, a.held) /\ a.held # <<>>
    <3>1. (i \in DOMAIN a.out /\ c.out[i] = a.out[i]) \/ c.out[i] = a.held
      BY <1>2, <1>3, <2>2, OneMoreOut
    <3> QED BY <1>1, <2>2, <3>1 DEF Coalesced
  <2> QED BY <1>1, <2>1, <2>2
<1> QED BY <1>1, <1>3 DEF Coalesced, c

LEMMA BoundaryCoalesced ==
  ASSUME NEW Byte, NEW a \in Assemblers(Byte), Coalesced(a)
  PROVE  Coalesced(Boundary(a))
<1>1. CASE Len(a.buffer) >= a.unitMin
  <2>1. Boundary(a) = CloseChunk(a)
    BY <1>1 DEF Boundary
  <2> QED BY <1>1, <2>1, CloseCoalesced
<1>2. CASE ~(Len(a.buffer) >= a.unitMin) /\ a.buffer # <<>> /\ JoinsHeld(a)
  <2> DEFINE c == AttachBackward(a)
  <2>1. Boundary(a) = c /\ a.held # <<>>
    BY <1>2 DEF Boundary, JoinsHeld
  <2>2. /\ c.held = a.held \o a.buffer /\ c.out = a.out /\ c.unitMin = a.unitMin
    BY AttachBackwardFields
  <2>3. /\ Len(a.held \o a.buffer) = Len(a.held) + Len(a.buffer)
        /\ Len(a.held) \in Nat /\ Len(a.buffer) \in Nat
    BY ConcatProperties, LenProperties DEF Assemblers
  <2> HIDE DEF c
  <2>4. Len(a.held) >= a.unitMin /\ a.unitMin \in Nat
    BY <2>1, EnvelopeAssumption DEF Coalesced, Assemblers
  <2>5. Len(c.held) >= c.unitMin
    <3>1. \A x, y, z \in Nat : x >= z => x + y >= z
      OBVIOUS
    <3>2. Len(a.held) + Len(a.buffer) >= a.unitMin
      BY <2>3, <2>4, <3>1
    <3> QED BY <2>2, <2>3, <3>2
  <2> QED BY <2>1, <2>2, <2>5 DEF Coalesced
<1>3. CASE ~(Len(a.buffer) >= a.unitMin) /\ ~(a.buffer # <<>> /\ JoinsHeld(a))
  <2>1. Boundary(a) = a
    BY <1>3 DEF Boundary
  <2> QED BY <2>1
<1> QED BY <1>1, <1>2, <1>3

LEMMA PushCoalesced ==
  ASSUME NEW Byte, NEW a \in Assemblers(Byte), Coalesced(a), NEW byte \in Byte,
         NEW seam, NEW hit
  PROVE  Coalesced(Push(a, byte, seam, hit))
<1> DEFINE g == Absorb(a, byte)
<1>2. /\ g \in Assemblers(Byte) /\ g.out = a.out /\ g.held = a.held
      /\ g.unitMin = a.unitMin
  BY AppendProperties DEF Absorb, Assemblers
<1>3. Push(a, byte, seam, hit) = IF CutHere(g, seam, hit) THEN CloseChunk(g) ELSE g
  BY DEF Push
<1> HIDE DEF g
<1>4. Coalesced(g)
  BY <1>2 DEF Coalesced
<1>5. ASSUME CutHere(g, seam, hit) PROVE Coalesced(CloseChunk(g))
  <2>1. Len(g.buffer) >= ChunkMin /\ Len(g.buffer) \in Nat /\ g.unitMin \in 1..ChunkMin
    BY <1>2, <1>5, LenProperties DEF CutHere, Assemblers
  <2>2. Len(g.buffer) >= g.unitMin
    BY <2>1, EnvelopeAssumption
  <2> QED BY <1>2, <1>4, <2>2, CloseCoalesced
<1> QED BY <1>3, <1>4, <1>5

(* What counts for the alignment are the bytes and the unit minimum.        *)
LEMMA SameChunks ==
  ASSUME NEW a, NEW b, b.sent = a.sent, b.held = a.held, b.buffer = a.buffer,
         b.out = a.out \/ b.out = <<>>, b.unitMin = a.unitMin
  PROVE  /\ Cut(b) = Cut(a)
         /\ \A l : Begun(a, l) <=> Begun(b, l)
         /\ \A l : HeldBehind(a, l) <=> HeldBehind(b, l)
         /\ \A l : Clean(a, l) => Clean(b, l)
         /\ Coalesced(a) => Coalesced(b)
         /\ Placed(a) <=> Placed(b)
<1>1. DOMAIN <<>> = {}
  BY EmptySeq, LenProperties
<1>2. Cut(b) = Cut(a)
  BY DEF Cut
<1>3. ASSUME NEW l PROVE Begun(a, l) <=> Begun(b, l)
  BY <1>2 DEF Begun
<1>4. ASSUME NEW l PROVE HeldBehind(a, l) <=> HeldBehind(b, l)
  BY DEF HeldBehind
<1>5. ASSUME NEW l PROVE Clean(a, l) => Clean(b, l)
  BY <1>1 DEF Clean
<1>6. Coalesced(a) => Coalesced(b)
  BY <1>1 DEF Coalesced
<1>7. Placed(a) <=> Placed(b)
  BY <1>2 DEF Placed
<1> QED BY <1>2, <1>3, <1>4, <1>5, <1>6, <1>7

(* What the driver does before it pushes the byte.                          *)
LEMMA AnnouncedAligned ==
  ASSUME NEW a, a \in Assemblers(Bytes), Placed(a), NEW isUnit \in BOOLEAN,
         NEW gate \in Gates
  PROVE  /\ Announced(a, isUnit, gate).unitMin = a.unitMin
         /\ Coalesced(a) => Coalesced(Announced(a, isUnit, gate))
         /\ \A l : /\ l.at \in Int /\ Begun(a, l) /\ Clean(a, l)
                   /\ isUnit => HeldBehind(a, l) \/ Len(a.buffer) >= a.unitMin
                   => /\ Begun(Announced(a, isUnit, gate), l)
                      /\ Clean(Announced(a, isUnit, gate), l)
                      /\ (isUnit \/ HeldBehind(a, l)) =>
                           HeldBehind(Announced(a, isUnit, gate), l)
<1> DEFINE c == Called(a)
           b == Boundary(c)
           g == SetGate(b, gate)
<1>1. /\ c \in Assemblers(Bytes) /\ c.out = <<>> /\ c.sent = a.sent
      /\ c.held = a.held /\ c.buffer = a.buffer /\ c.unitMin = a.unitMin
  BY EmptySeq DEF Called, Assemblers
<1>2. /\ Placed(c)
      /\ Coalesced(a) => Coalesced(c)
      /\ \A l : Begun(a, l) <=> Begun(c, l)
      /\ \A l : HeldBehind(a, l) <=> HeldBehind(c, l)
      /\ \A l : Clean(a, l) => Clean(c, l)
  BY <1>1, SameChunks
<1>a. Announced(a, isUnit, gate) = IF isUnit THEN g ELSE c
  BY DEF Announced
<1>b. b = Boundary(c)
  OBVIOUS
<1> HIDE DEF c
<1>3. b \in Assemblers(Bytes) /\ b.unitMin = a.unitMin
  <2>1. b \in Assemblers(Bytes)
    BY <1>1, CloseChunkSends, AttachBackwardSends DEF Boundary
  <2> QED BY <2>1, <1>1, BoundaryKeepsMinimum
<1> HIDE DEF b
<1>4. /\ g.sent = b.sent /\ g.held = b.held /\ g.buffer = b.buffer /\ g.out = b.out
      /\ g.unitMin = b.unitMin
  BY <1>3 DEF SetGate, Assemblers
<1>5. /\ Coalesced(b) => Coalesced(g)
      /\ \A l : Begun(b, l) <=> Begun(g, l)
      /\ \A l : HeldBehind(b, l) <=> HeldBehind(g, l)
      /\ \A l : Clean(b, l) => Clean(g, l)
  <2> HIDE DEF g
  <2> QED BY <1>4, SameChunks
<1> HIDE DEF g
<1>6. Coalesced(a) => Coalesced(g)
  <2>1. Coalesced(c) => Coalesced(Boundary(c))
    BY <1>1, BoundaryCoalesced
  <2> QED BY <1>2, <1>5, <1>b, <2>1
<1>7. ASSUME NEW l, l.at \in Int, Begun(a, l), Clean(a, l),
             isUnit => HeldBehind(a, l) \/ Len(a.buffer) >= a.unitMin, isUnit
      PROVE  Begun(g, l) /\ Clean(g, l) /\ HeldBehind(g, l)
  <2>1. Begun(c, l) /\ Clean(c, l) /\ (HeldBehind(c, l) \/ Len(c.buffer) >= c.unitMin)
    BY <1>1, <1>2, <1>7
  <2>2. Begun(b, l) /\ Clean(b, l) /\ HeldBehind(b, l)
    <3>1. Placed(c) /\ c \in Assemblers(Bytes) /\ l.at \in Int
      BY <1>1, <1>2, <1>7
    <3>2. /\ Begun(Boundary(c), l) /\ Clean(Boundary(c), l)
          /\ HeldBehind(Boundary(c), l)
      BY <2>1, <3>1, BoundaryAligned
    <3> QED BY <1>b, <3>2
  <2> QED BY <1>5, <2>2
<1>8. CASE isUnit
  <2>1. Announced(a, isUnit, gate) = g
    BY <1>8, <1>a
  <2>2. g.unitMin = a.unitMin
    BY <1>3, <1>4
  <2>3. \A l : /\ l.at \in Int /\ Begun(a, l) /\ Clean(a, l)
               /\ isUnit => HeldBehind(a, l) \/ Len(a.buffer) >= a.unitMin
               => Begun(g, l) /\ Clean(g, l) /\ HeldBehind(g, l)
    BY <1>7, <1>8
  <2> QED BY <1>6, <2>1, <2>2, <2>3
<1>9. CASE ~isUnit
  <2>1. ASSUME NEW l, Begun(a, l), Clean(a, l)
        PROVE  Begun(c, l) /\ Clean(c, l) /\ (HeldBehind(a, l) => HeldBehind(c, l))
    BY <1>2, <2>1
  <2>2. Announced(a, isUnit, gate) = c
    BY <1>9, <1>a
  <2>3. \A l : Begun(a, l) /\ Clean(a, l) =>
                Begun(c, l) /\ Clean(c, l) /\ (HeldBehind(a, l) => HeldBehind(c, l))
    BY <2>1
  <2> QED BY <1>1, <1>2, <1>9, <2>2, <2>3
<1> QED BY <1>8, <1>9

\* What a walker owes: the rest of the unit minimum, of the payload of a
\* large unit of known size.
WalkerOwes ==
  walker.owed > 0 => ~walker.at /\ walker.header = 0 /\ ~walker.open

\* How a byte comes to be accepted: a blank begins no unit.
Report(isUnit, seen) ==
  \/ /\ isUnit = walker.at
     /\ seen \in HeaderBytes(profile, walker) \cup PayloadBytes(profile, walker)
  \/ isUnit = FALSE /\ seen \in BlankBytes(profile, walker)

(* A walker pays what it owes byte by byte; it reports a large unit, or     *)
(* collects a header, only at a unit or behind one under collection.        *)
LEMMA WalkerPays ==
  ASSUME profile \in Profiles, walker \in Walkers, WalkerOwes,
         NEW isUnit \in BOOLEAN, NEW seen, Report(isUnit, seen)
  PROVE  /\ seen.next.owed >= walker.owed - 1
         /\ seen.next.owed > 0 =>
              ~seen.next.at /\ seen.next.header = 0 /\ ~seen.next.open
         /\ isUnit => walker.owed = 0
         /\ seen.large > 0 \/ seen.next.header > 0 \/ seen.next.open =>
              isUnit \/ walker.header > 0 \/ walker.open
         /\ seen.large > 0 => profile.large
         /\ seen.large > 0 /\ ~seen.next.open =>
              seen.next.owed = profile.unitMin /\ seen.next.header = 0
<1> DEFINE Remains(s) ==
      /\ s.next.owed >= walker.owed - 1
      /\ s.next.owed > 0 => ~s.next.at /\ s.next.header = 0 /\ ~s.next.open
      /\ s.large > 0 \/ s.next.header > 0 \/ s.next.open =>
           isUnit \/ walker.header > 0 \/ walker.open
      /\ s.large > 0 => profile.large
      /\ s.large > 0 /\ ~s.next.open =>
           s.next.owed = profile.unitMin /\ s.next.header = 0
<1>w. /\ walker.header \in Nat /\ walker.owed \in Nat /\ HeaderMax \in Nat
      /\ walker.open \in BOOLEAN /\ walker.at \in BOOLEAN
      /\ profile.unitMin \in Nat /\ profile.large \in BOOLEAN
      /\ profile.unknown # "none" => profile.large
  BY EnvelopeAssumption, BoundsAssumption, ProfilesAssumption DEF Walkers
<1>a. ~(0 > 0) /\ 0 \in Nat
  OBVIOUS
<1>s. ASSUME NEW at, NEW header \in Nat, NEW owed \in Nat, NEW open, NEW large \in Nat
      PROVE  /\ Seen(at, header, owed, open, large).next.at = at
             /\ Seen(at, header, owed, open, large).next.header = header
             /\ Seen(at, header, owed, open, large).next.owed = owed
             /\ Seen(at, header, owed, open, large).next.open = open
             /\ Seen(at, header, owed, open, large).large = large
  BY DEF Seen
<1>k. ASSUME NEW at, NEW header \in Nat, NEW owed \in Nat, NEW open, NEW large \in Nat,
             seen = Seen(at, header, owed, open, large),
             owed >= walker.owed - 1,
             owed > 0 => ~at /\ header = 0 /\ ~open,
             large > 0 \/ header > 0 \/ open =>
               isUnit \/ walker.header > 0 \/ walker.open,
             large > 0 => profile.large,
             large > 0 /\ ~open => owed = profile.unitMin /\ header = 0
      PROVE  Remains(seen)
  <2>1. /\ seen.next.at = at /\ seen.next.header = header /\ seen.next.owed = owed
        /\ seen.next.open = open /\ seen.large = large
    BY <1>k, <1>s
  <2> QED BY <1>k, <2>1
<1> HIDE DEF Remains
<1>1. ASSUME seen \in HeaderBytes(profile, walker), isUnit = walker.at PROVE Remains(seen)
  <2> DEFINE len == walker.header + 1
  <2>g. isUnit \/ walker.header > 0 \/ walker.open
    <3>1. walker.at \/ walker.header > 0 \/ walker.open
      BY <1>1, Zenon DEF HeaderBytes
    <3> QED BY <1>1, <3>1
  <2>l. len \in Nat
    BY <1>w
  <2>o. walker.owed = 0 /\ 0 >= walker.owed - 1 /\ profile.unitMin >= walker.owed - 1
    <3>0. walker.header = 0 => ~(walker.header > 0)
      BY <1>w
    <3>1. ~(walker.owed > 0)
      BY <1>1, <2>g, <3>0, Zenon DEF WalkerOwes
    <3> QED BY <1>w, <3>1
  <2>2. \/ seen = Seen(FALSE, len, 0, walker.open, 0)
        \/ \E at \in BOOLEAN : seen = Seen(at, 0, 0, FALSE, 0)
        \/ seen = Seen(FALSE, 0, 0, TRUE, 0)
        \/ profile.large /\ seen = Seen(FALSE, 0, profile.unitMin, FALSE, len)
        \/ profile.unknown # "none" /\ seen = Seen(FALSE, 0, 0, TRUE, len)
    <3> DEFINE grow == Seen(FALSE, len, 0, walker.open, 0)
               small == {Seen(at, 0, 0, FALSE, 0) : at \in BOOLEAN}
               within == Seen(FALSE, 0, 0, TRUE, 0)
               big == Seen(FALSE, 0, profile.unitMin, FALSE, len)
               opened == Seen(FALSE, 0, 0, TRUE, len)
    <3>1. \/ seen = grow \/ seen \in small \/ seen = within
          \/ profile.large /\ seen = big
          \/ profile.unknown # "none" /\ seen = opened
      <4> HIDE DEF grow, small, within, big, opened
      <4> QED BY <1>1 DEF HeaderBytes, grow, small, within, big, opened
    <3> QED BY <3>1
  <2> HIDE DEF len
  <2>3. CASE seen = Seen(FALSE, len, 0, walker.open, 0)
    BY <1>a, <1>k, <1>w, <2>3, <2>g, <2>l, <2>o, Zenon
  <2>4. ASSUME NEW at \in BOOLEAN, seen = Seen(at, 0, 0, FALSE, 0) PROVE Remains(seen)
    BY <1>a, <1>k, <2>4, <2>o, Zenon
  <2>5. CASE seen = Seen(FALSE, 0, 0, TRUE, 0)
    BY <1>a, <1>k, <2>5, <2>g, <2>o, Zenon
  <2>6. CASE profile.large /\ seen = Seen(FALSE, 0, profile.unitMin, FALSE, len)
    BY <1>a, <1>k, <1>w, <2>6, <2>g, <2>l, <2>o, Zenon
  <2>7. CASE profile.unknown # "none" /\ seen = Seen(FALSE, 0, 0, TRUE, len)
    BY <1>a, <1>k, <1>w, <2>7, <2>g, <2>l, <2>o, Zenon
  <2> QED BY <2>2, <2>3, <2>4, <2>5, <2>6, <2>7
<1>2. ASSUME seen \in PayloadBytes(profile, walker) PROVE Remains(seen)
  <2>1. \/ walker.owed > 1 /\ seen = Seen(FALSE, 0, walker.owed - 1, FALSE, 0)
        \/ ~(walker.owed > 1) /\ seen = Seen(TRUE, 0, 0, FALSE, 0)
        \/ ~(walker.owed > 1) /\ seen = Seen(FALSE, 0, 0, walker.open, 0)
    BY <1>2, Zenon DEF PayloadBytes
  <2>2. /\ walker.owed > 1 => walker.owed - 1 \in Nat /\ walker.owed - 1 >= walker.owed - 1
        /\ ~(walker.owed > 1) => 0 >= walker.owed - 1
    BY <1>w
  <2>3. CASE walker.owed > 1 /\ seen = Seen(FALSE, 0, walker.owed - 1, FALSE, 0)
    BY <1>a, <1>k, <2>2, <2>3, Zenon
  <2>4. CASE ~(walker.owed > 1) /\ seen = Seen(TRUE, 0, 0, FALSE, 0)
    BY <1>a, <1>k, <2>2, <2>4, Zenon
  <2>5. CASE ~(walker.owed > 1) /\ seen = Seen(FALSE, 0, 0, walker.open, 0)
    BY <1>a, <1>k, <2>2, <2>5, Zenon
  <2> QED BY <2>1, <2>3, <2>4, <2>5
<1>3. ASSUME seen \in BlankBytes(profile, walker) PROVE Remains(seen)
  <2>1. seen = Seen(TRUE, 0, 0, FALSE, 0) /\ walker.at
    BY <1>3, Zenon DEF BlankBytes
  <2>2. 0 >= walker.owed - 1
    <3>1. ~(walker.owed > 0)
      BY <2>1, Zenon DEF WalkerOwes
    <3> QED BY <1>w, <3>1
  <2> QED BY <1>a, <1>k, <2>1, <2>2, Zenon
<1>4. isUnit => walker.owed = 0
  <2>1. isUnit => walker.at
    BY Zenon DEF Report
  <2>2. isUnit => ~(walker.owed > 0)
    BY <2>1, Zenon DEF WalkerOwes
  <2> QED BY <1>w, <2>2
<1>5. Remains(seen)
  BY <1>1, <1>2, <1>3 DEF Report
<1> QED BY <1>4, <1>5 DEF Remains

\* The payload of a large unit paid for so far, and what the walker still
\* owes, are the unit minimum.
Paid(l) == (Len(fed) + 1 + walker.owed) - (l.at + l.header) >= profile.unitMin

\* A large unit of known size while its stream is open: the held chunk begins
\* at the unit or behind, unless the unit is still the one under way; when
\* the unit after it begins, its payload closes that chunk.
Apart(l) ==
  /\ Begun(asm, l) /\ Paid(l)
  /\ HeldBehind(asm, l) \/ (walker.header = 0 /\ ~walker.open)

AlignInv ==
  /\ asm.unitMin = profile.unitMin
  /\ \A l \in larges : l.known => Clean(asm, l)
  /\ phase = "open" =>
       /\ \A i \in 1..Len(fed) : fed[i] = i
       /\ WalkerOwes
       /\ \A l \in larges : l.known => Apart(l)
       /\ ~profile.large => Coalesced(asm)

(* At a boundary, either the held chunk begins at the large unit or behind, *)
(* or the chunk under construction has the unit minimum.                    *)
LEMMA BoundaryIsPaid ==
  ASSUME Inv, AlignInv, phase = "open", walker.owed = 0,
         NEW l \in larges, l.known
  PROVE  HeldBehind(asm, l) \/ Len(asm.buffer) >= asm.unitMin
<1>1. /\ asm \in Assemblers(Bytes) /\ Whole(asm) = fed /\ Paid(l) /\ Clean(asm, l)
      /\ asm.unitMin = profile.unitMin /\ \A i \in 1..Len(fed) : fed[i] = i
      /\ fed \in Seq(Bytes) /\ l.at \in Bytes /\ l.header \in 1..HeaderMax
      /\ profile.unitMin \in 1..ChunkMin
  BY ProfilesAssumption DEF Inv, AlignInv, Apart, TypeOK
<1>2. Placed(asm) /\ Len(fed) = Cut(asm) + Len(asm.buffer)
  BY <1>1, WholePlaced
<1>3. PICK n \in Nat, c \in Nat, b \in Nat, at \in Nat, h \in Nat, u \in Nat :
        /\ n = Len(fed) /\ c = Cut(asm) /\ b = Len(asm.buffer)
        /\ at = l.at /\ h = l.header /\ u = profile.unitMin
  <2>1. Len(fed) \in Nat /\ Cut(asm) \in Nat /\ Len(asm.buffer) \in Nat
    BY <1>1, <1>2, ChunkEnds, LenProperties
  <2>2. l.at \in Nat /\ l.header \in Nat /\ profile.unitMin \in Nat
    BY <1>1, EnvelopeAssumption, BoundsAssumption DEF Bytes
  <2> QED BY <2>1, <2>2
<1>4. n = c + b /\ (n + 1 + 0) - (at + h) >= u
  BY <1>1, <1>2, <1>3 DEF Paid
<1>5. CASE c >= at + h
  BY <1>1, <1>2, <1>3, <1>5, HeldSpans, ChunkEnds DEF Clean, HeldBehind
<1>6. CASE ~(c >= at + h)
  <2>1. b >= u
    BY <1>4, <1>6
  <2> QED BY <1>1, <1>3, <2>1
<1> QED BY <1>5, <1>6

(* The bytes of a stream are its positions.                                 *)
LEMMA PositionsGrow ==
  ASSUME NEW s \in Seq(Bytes), \A i \in 1..Len(s) : s[i] = i, Len(s) < MaxBytes
  PROVE  \A i \in 1..Len(Append(s, Len(s) + 1)) : Append(s, Len(s) + 1)[i] = i
<1>1. PICK n \in Nat : n = Len(s)
  BY LenProperties
<1>2. n + 1 \in Bytes
  BY <1>1, BoundsAssumption DEF Bytes
<1> DEFINE t == Append(s, n + 1)
<1>3. Len(t) = n + 1 /\ t[n + 1] = n + 1 /\ \A i \in 1..n : t[i] = s[i]
  BY <1>1, <1>2, AppendProperties
<1> HIDE DEF t
<1>4. ASSUME NEW i \in 1..(n + 1) PROVE t[i] = i
  <2>1. i \in 1..n \/ i = n + 1
    OBVIOUS
  <2> QED BY <1>1, <1>3, <2>1
<1> QED BY <1>1, <1>3, <1>4 DEF t

(* Every chunk a call emits ends with a byte of the stream so far.          *)
LEMMA EmittedSoFar ==
  ASSUME NEW a, a \in Assemblers(Bytes), NEW base \in Seq(Bytes),
         Accounted(base, a, Bytes), Len(a.out) <= 1,
         \A i \in DOMAIN a.sent : a.sent[i] = i,
         NEW i \in DOMAIN a.out, a.out[i] # <<>>
  PROVE  a.out[i][Len(a.out[i])] <= Len(a.sent)
<1>0. a.out \in Seq(Seq(Bytes)) /\ DOMAIN a.out = 1..Len(a.out) /\ Len(a.out) \in Nat
      /\ a.sent \in Seq(Bytes) /\ DOMAIN a.sent = 1..Len(a.sent) /\ Len(a.sent) \in Nat
  BY LenProperties DEF Assemblers
<1>1. Len(a.out) = 1 /\ i = 1
  <2>1. \A n \in Nat : \A j \in 1..n : n <= 1 => n = 1 /\ j = 1
    OBVIOUS
  <2> QED BY <1>0, <2>1
<1>2. PICK c \in Seq(Bytes) : a.out = <<c>> /\ a.sent = base \o c
  <2>1. ASSUME NEW c, NEW d, a.out = <<c, d>> PROVE FALSE
    <3>1. Len(a.out) = 2
      BY <2>1
    <3> QED BY <1>1, <3>1
  <2>2. a.out # <<>> /\ ~(Len(a.out) > 2)
    BY <1>1, <1>0, EmptySeq
  <2> QED BY <2>1, <2>2 DEF Accounted
<1>3. a.out[i] = c /\ c # <<>>
  BY <1>1, <1>2
<1>4. PICK s \in Nat, k \in Nat : s = Len(base) /\ k = Len(c)
  BY LenProperties
<1>5. k # 0
  BY <1>3, <1>4, EmptySeq
<1>6. Len(base \o c) = s + k /\ \A j \in 1..s + k :
        (base \o c)[j] = IF j <= s THEN base[j] ELSE c[j - s]
  BY <1>4, ConcatProperties
<1>7. s + k \in 1..s + k /\ ~(s + k <= s) /\ (s + k) - s = k
  BY <1>5
<1>8. c[k] = s + k
  BY <1>0, <1>2, <1>6, <1>7
<1> QED BY <1>2, <1>3, <1>4, <1>6, <1>8

(* An accepted byte.                                                        *)
LEMMA AcceptAligned ==
  ASSUME Inv, AlignInv, phase = "open", Len(fed) < MaxBytes,
         NEW isUnit \in BOOLEAN, NEW seen, Report(isUnit, seen),
         Accept(Len(fed) + 1, isUnit, seen)
  PROVE  AlignInv'
<1> DEFINE byte == Len(fed) + 1
           Deep == isUnit \/ walker.header > 0 \/ walker.open
<1>r. seen \in HeaderBytes(profile, walker) \cup PayloadBytes(profile, walker)
                 \cup BlankBytes(profile, walker)
  BY DEF Report
<1>t. /\ profile \in Profiles /\ walker \in Walkers /\ fed \in Seq(Bytes)
      /\ Sound(asm, Bytes) /\ asm \in Assemblers(Bytes) /\ Whole(asm) = fed
      /\ Len(fed) \in Nat /\ walker.header \in Nat
      /\ \A l \in larges : l.at \in Bytes /\ l.header \in Nat
  BY LenProperties, BoundsAssumption DEF Inv, TypeOK, Walkers
<1>i. /\ asm.unitMin = profile.unitMin /\ \A i \in 1..Len(fed) : fed[i] = i
      /\ WalkerOwes
      /\ ~profile.large => Coalesced(asm)
  BY DEF AlignInv
<1>w. /\ seen.next.owed >= walker.owed - 1
      /\ seen.next.owed > 0 =>
           ~seen.next.at /\ seen.next.header = 0 /\ ~seen.next.open
      /\ isUnit => walker.owed = 0
      /\ seen.large > 0 \/ seen.next.header > 0 \/ seen.next.open => Deep
      /\ seen.large > 0 => profile.large
      /\ seen.large > 0 /\ ~seen.next.open =>
           seen.next.owed = profile.unitMin /\ seen.next.header = 0
      /\ seen.large \in Nat /\ seen.next \in Walkers
  <2>1. seen.large \in Nat /\ seen.next \in Walkers
    BY <1>t, <1>r, WalkerSteps
  <2> QED BY <1>t, <1>i, <2>1, WalkerPays
<1>b. byte \in Bytes
  BY <1>t, BoundsAssumption DEF Bytes
<1>f. /\ fed' = Append(fed, byte) /\ fed' \in Seq(Bytes) /\ Len(fed') = Len(fed) + 1
      /\ \A i \in 1..Len(fed') : fed'[i] = i
  BY <1>t, <1>b, <1>i, AppendProperties, PositionsGrow DEF Accept
<1>c. /\ walker' = seen.next /\ phase' = "open" /\ profile' = profile
  BY DEF Accept
<1>1. PICK gate \in Gates, seam \in Seams, hit \in BOOLEAN :
        asm' = IF seen.large > 0
               THEN LargeUnitStarts(Push(Announced(asm, isUnit, gate), byte,
                                         seam, hit), seen.large)
               ELSE Push(Announced(asm, isUnit, gate), byte, seam, hit)
  BY DEF Accept, Gates
<1> DEFINE a == Announced(asm, isUnit, gate)
           p == Push(a, byte, seam, hit)
<1>p. p = Push(a, byte, seam, hit)
  OBVIOUS
<1>2. Placed(asm) /\ Len(fed) = Cut(asm) + Len(asm.buffer)
  BY <1>t, <1>i, WholePlaced
<1>3. /\ Sound(a, Bytes) /\ a \in Assemblers(Bytes) /\ Whole(a) = fed /\ Quiet(a, 0)
      /\ Placed(a) /\ byte = Cut(a) + Len(a.buffer) + 1
  <2>1. Sound(a, Bytes) /\ Whole(a) = fed /\ Quiet(a, 0)
    BY <1>t, AnnouncedSound
  <2> HIDE DEF a
  <2>2. a \in Assemblers(Bytes)
    BY <2>1 DEF Sound, Bounded
  <2> QED BY <1>i, <2>1, <2>2, WholePlaced
<1>4. /\ a.unitMin = asm.unitMin
      /\ Coalesced(asm) => Coalesced(a)
      /\ \A l : /\ l.at \in Int /\ Begun(asm, l) /\ Clean(asm, l)
                /\ isUnit => HeldBehind(asm, l) \/ Len(asm.buffer) >= asm.unitMin
                => /\ Begun(a, l) /\ Clean(a, l)
                   /\ (isUnit \/ HeldBehind(asm, l)) => HeldBehind(a, l)
  BY <1>t, <1>2, AnnouncedAligned
<1>5. asm' = IF seen.large > 0 THEN LargeUnitStarts(p, seen.large) ELSE p
  BY <1>1
<1> HIDE DEF a, p
<1>6. /\ p \in Assemblers(Bytes) /\ Placed(p)
      /\ p.unitMin = asm.unitMin
      /\ Coalesced(asm) => Coalesced(p)
  <2>1. Sound(p, Bytes) /\ Whole(p) = fed'
    BY <1>b, <1>f, <1>3, <1>p, PushSound
  <2>2. p \in Assemblers(Bytes)
    BY <2>1 DEF Sound, Bounded
  <2>3. Placed(p)
    BY <1>f, <2>1, <2>2, WholePlaced
  <2>4. p.unitMin = asm.unitMin
    BY <1>b, <1>3, <1>4, <1>p, PushKeepsMinimum
  <2>5. Coalesced(a) => Coalesced(p)
    BY <1>b, <1>3, <1>p, PushCoalesced
  <2> QED BY <1>4, <2>2, <2>3, <2>4, <2>5
<1>7. /\ asm' \in Assemblers(Bytes) /\ Placed(asm')
      /\ Len(fed) + 1 = Cut(asm') + Len(asm'.buffer)
      /\ \A i \in DOMAIN asm'.sent : asm'.sent[i] = i
      /\ Len(asm'.out) <= 1
      /\ asm'.unitMin = asm.unitMin
  <2>1. Inv'
    BY <1>r, AcceptInv
  <2>2. /\ asm' \in Assemblers(Bytes) /\ Whole(asm') = fed' /\ Len(asm'.out) <= 1
    BY <1>c, <2>1 DEF Inv, TypeOK, Whole
  <2>3. asm'.unitMin = asm.unitMin
    BY <1>5, <1>6, <1>w, LargeUnitKeepsMinimum
  <2> QED BY <1>f, <2>2, <2>3, WholePlaced
\* The large units reported before.
<1>8. ASSUME NEW l \in larges, l.known
      PROVE  /\ Begun(asm', l) /\ Clean(asm', l)
             /\ HeldBehind(asm', l) \/ (seen.next.header = 0 /\ ~seen.next.open)
             /\ (Len(fed) + 2 + seen.next.owed) - (l.at + l.header) >= profile.unitMin
  <2>1. /\ Begun(asm, l) /\ Clean(asm, l) /\ l.at \in Int /\ Paid(l)
        /\ HeldBehind(asm, l) \/ (walker.header = 0 /\ ~walker.open)
    BY <1>8, <1>t DEF AlignInv, Apart, Bytes
  <2>2. isUnit => HeldBehind(asm, l) \/ Len(asm.buffer) >= asm.unitMin
    BY <1>8, <1>w, BoundaryIsPaid
  <2>3. /\ Begun(a, l) /\ Clean(a, l)
        /\ (isUnit \/ HeldBehind(asm, l)) => HeldBehind(a, l)
    BY <1>4, <2>1, <2>2
  <2>4. /\ Begun(p, l) /\ Clean(p, l)
        /\ HeldBehind(a, l) => HeldBehind(p, l)
    BY <1>b, <1>3, <1>p, <2>1, <2>3, PushAligned
  <2>5. Deep => HeldBehind(p, l)
    <3>1. walker.header = 0 => ~(walker.header > 0)
      BY <1>t
    <3> QED BY <2>1, <2>3, <2>4, <3>1
  <2>6. /\ Begun(asm', l) /\ Clean(asm', l)
        /\ Deep => HeldBehind(asm', l)
    <3>1. CASE seen.large > 0
      <4>1. HeldBehind(p, l)
        BY <1>w, <2>5, <3>1
      <4>2. asm' = LargeUnitStarts(p, seen.large)
        BY <1>5, <3>1
      <4> QED BY <1>6, <1>w, <2>1, <2>4, <4>1, <4>2, LargeUnitAligned
    <3>2. CASE ~(seen.large > 0)
      BY <1>5, <2>4, <2>5, <3>2
    <3> QED BY <3>1, <3>2
  <2>7. Deep \/ (seen.next.header = 0 /\ ~seen.next.open)
    <3>1. seen.next.header \in Nat
      BY <1>w DEF Walkers
    <3>2. ~(seen.next.header > 0) => seen.next.header = 0
      BY <3>1
    <3> QED BY <1>w, <3>2
  <2>8. (Len(fed) + 2 + seen.next.owed) - (l.at + l.header) >= profile.unitMin
    <3>1. \A n, o, o2, at, h, u \in Int :
            (n + 1 + o) - (at + h) >= u /\ o2 >= o - 1 => (n + 2 + o2) - (at + h) >= u
      OBVIOUS
    <3>2. /\ Len(fed) \in Int /\ walker.owed \in Int /\ seen.next.owed \in Int
          /\ l.at \in Int /\ l.header \in Int /\ profile.unitMin \in Int
      BY <1>t, <1>w, EnvelopeAssumption, ProfilesAssumption DEF Walkers, Bytes
    <3>3. (Len(fed) + 1 + walker.owed) - (l.at + l.header) >= profile.unitMin
      BY <2>1 DEF Paid
    <3> QED BY <1>w, <3>1, <3>2, <3>3
  <2> QED BY <2>6, <2>7, <2>8
\* The one reported with this byte.
<1>9. ASSUME seen.large > 0, ~seen.next.open, NEW l,
             l.at = Len(fed) + 2 - seen.large, l.header = seen.large
      PROVE  /\ Begun(asm', l) /\ Clean(asm', l)
             /\ seen.next.header = 0
             /\ (Len(fed) + 2 + seen.next.owed) - (l.at + l.header) >= profile.unitMin
  <2>1. Len(asm'.buffer) <= seen.large
    BY <1>5, <1>6, <1>9, <1>w, LargeUnitAligned
  <2>2. PICK n \in Nat, c \in Nat, b \in Nat, h \in Nat :
          n = Len(fed) /\ c = Cut(asm') /\ b = Len(asm'.buffer) /\ h = seen.large
    BY <1>7, <1>t, <1>w, ChunkEnds
  <2>3. n + 1 = c + b /\ b <= h
    BY <1>7, <2>1, <2>2
  <2>4. c + 1 >= (n + 2) - h /\ ~(c >= ((n + 2) - h) + h)
    BY <2>3
  <2>5. l.at = (n + 2) - h /\ l.header = h
    BY <1>9, <2>2
  <2>6. Begun(asm', l)
    BY <2>2, <2>4, <2>5 DEF Begun
  <2>7. ~Spans(asm'.held, l)
    BY <1>7, <2>2, <2>4, <2>5, HeldSpans
  <2>8. ASSUME NEW i \in DOMAIN asm'.out PROVE ~Spans(asm'.out[i], l)
    <3>1. CASE asm'.out[i] = <<>>
      BY <3>1 DEF Spans
    <3>2. CASE asm'.out[i] # <<>>
      <4>1. asm.sent \in Seq(Bytes) /\ Accounted(asm.sent, asm', Bytes)
        BY <1>r, <1>t, AcceptAccount DEF Assemblers
      <4>2. asm'.out[i][Len(asm'.out[i])] <= Len(asm'.sent)
        BY <1>7, <2>8, <3>2, <4>1, EmittedSoFar
      <4>3. PICK s \in Nat, k \in Nat : s = Len(asm'.sent) /\ k = Len(asm'.held)
        BY <1>7, ChunkEnds
      <4>4. c = s + k
        BY <1>7, <2>2, <4>3, ChunkEnds
      <4>5. PICK e \in Nat : e = asm'.out[i][Len(asm'.out[i])]
        <5>1. asm'.out[i] \in Seq(Bytes)
          BY <1>7, ElementOfSeq, LenProperties DEF Assemblers
        <5>2. asm'.out[i][Len(asm'.out[i])] \in Bytes
          BY <3>2, <5>1, ElementOfSeq, LenProperties, EmptySeq
        <5> QED BY <5>2 DEF Bytes
      <4>6. ~(e >= ((n + 2) - h) + h)
        <5>1. e <= s
          BY <4>2, <4>3, <4>5
        <5>2. e <= c
          BY <4>4, <5>1
        <5> QED BY <2>4, <5>2
      <4> QED BY <2>5, <4>5, <4>6 DEF Spans
    <3> QED BY <3>1, <3>2
  <2>9. (Len(fed) + 2 + seen.next.owed) - (l.at + l.header) >= profile.unitMin
    <3>1. PICK u \in Nat : u = profile.unitMin /\ u = seen.next.owed
      BY <1>9, <1>t, <1>w, EnvelopeAssumption, ProfilesAssumption
    <3>2. (n + 2 + u) - (((n + 2) - h) + h) >= u
      OBVIOUS
    <3> QED BY <2>2, <2>5, <3>1, <3>2
  <2> QED BY <1>9, <1>w, <2>6, <2>7, <2>8, <2>9 DEF Clean
<1>10. ASSUME NEW l \in larges', l.known
       PROVE  /\ Begun(asm', l) /\ Clean(asm', l)
              /\ HeldBehind(asm', l) \/ (seen.next.header = 0 /\ ~seen.next.open)
              /\ (Len(fed) + 2 + seen.next.owed) - (l.at + l.header) >= profile.unitMin
  <2> DEFINE new == [at |-> Len(fed) + 2 - seen.large, header |-> seen.large,
                     known |-> ~seen.next.open]
  <2>1. l \in larges \/ (seen.large > 0 /\ l = new)
    BY <1>10 DEF Accept
  <2>2. CASE l \in larges
    BY <1>8, <1>10, <2>2
  <2>3. CASE seen.large > 0 /\ l = new
    <3>1. l.at = Len(fed) + 2 - seen.large /\ l.header = seen.large /\ ~seen.next.open
      BY <1>10, <2>3
    <3> HIDE DEF new
    <3> QED BY <1>9, <2>3, <3>1
  <2> QED BY <2>1, <2>2, <2>3
<1>11. ASSUME ~profile.large PROVE Coalesced(asm')
  <2>1. asm' = p
    BY <1>5, <1>11, <1>w
  <2> QED BY <1>11, <1>6, <1>i, <2>1
<1>12. WalkerOwes'
  BY <1>c, <1>w DEF WalkerOwes
<1>13. ASSUME NEW l \in larges', l.known PROVE Clean(asm', l) /\ Apart(l)'
  <2>1. Paid(l)'
    <3>1. (Len(fed) + 2 + seen.next.owed) - (l.at + l.header) >= profile.unitMin
      BY <1>13, <1>10
    <3>2. Len(fed') + 1 + seen.next.owed = Len(fed) + 2 + seen.next.owed
      <4>1. \A n, o \in Int : (n + 1) + 1 + o = n + 2 + o
        OBVIOUS
      <4>2. seen.next.owed \in Int
        BY <1>w, EnvelopeAssumption DEF Walkers
      <4> QED BY <1>f, <1>t, <4>1, <4>2
    <3> QED BY <1>c, <3>1, <3>2 DEF Paid
  <2>2. /\ Begun(asm', l) /\ Clean(asm', l)
        /\ HeldBehind(asm', l) \/ (seen.next.header = 0 /\ ~seen.next.open)
    BY <1>10, <1>13
  <2> QED BY <1>c, <2>1, <2>2 DEF Apart, Begun, HeldBehind, Cut
<1> QED BY <1>7, <1>11, <1>12, <1>13, <1>c, <1>f, <1>i DEF AlignInv, Clean, Coalesced

LEMMA InitAligned == Init => AlignInv
<1> SUFFICES ASSUME Init PROVE AlignInv
  OBVIOUS
<1>n. Len(<<>>) = 0 /\ DOMAIN <<>> = {}
  BY EmptySeq, LenProperties
<1>1. /\ asm.unitMin = profile.unitMin /\ asm.held = <<>> /\ asm.out = <<>>
      /\ larges = {} /\ fed = <<>>
  BY DEF Init, Fresh
<1>2. WalkerOwes
  BY DEF Init, NewWalker, WalkerOwes
<1>3. \A i \in 1..Len(fed) : fed[i] = i
  BY <1>n, <1>1
<1> QED BY <1>n, <1>1, <1>2, <1>3 DEF AlignInv, Coalesced

(* Nothing is held and nothing new goes out.                                *)
LEMMA EmptyIsClean ==
  ASSUME NEW a, a.held = <<>>, NEW l, \A i \in DOMAIN a.out : ~Spans(a.out[i], l)
  PROVE  Clean(a, l)
BY DEF Clean, Spans

LEMMA NextAligned == Inv /\ AlignInv /\ [Next]_vars => AlignInv'
<1> SUFFICES ASSUME Inv, AlignInv, [Next]_vars PROVE AlignInv'
  OBVIOUS
<1>n. Len(<<>>) = 0 /\ DOMAIN <<>> = {}
  BY EmptySeq, LenProperties
<1>t. /\ Sound(asm, Bytes) /\ asm \in Assemblers(Bytes) /\ asm.gate \in Gates
      /\ fed \in Seq(Bytes) /\ asm.unitMin = profile.unitMin
      /\ \A l \in larges : l.known => Clean(asm, l)
      /\ \A l \in larges : l.at \in Int
  BY DEF Inv, AlignInv, TypeOK, Assemblers, Bytes
<1>o. phase = "open" =>
        /\ Whole(asm) = fed /\ Placed(asm)
        /\ \A l \in larges : l.known => Begun(asm, l)
        /\ walker.owed = 0 \/ ~walker.at
  <2> SUFFICES ASSUME phase = "open"
               PROVE  /\ Whole(asm) = fed /\ Placed(asm)
                      /\ \A l \in larges : l.known => Begun(asm, l)
                      /\ walker.owed = 0 \/ ~walker.at
    OBVIOUS
  <2>1. Whole(asm) = fed /\ \A i \in 1..Len(fed) : fed[i] = i
    BY DEF Inv, AlignInv
  <2>2. Placed(asm)
    BY <1>t, <2>1, WholePlaced
  <2>3. walker.owed = 0 \/ ~walker.at
    <3>1. walker.owed \in Nat
      BY EnvelopeAssumption DEF Inv, TypeOK, Walkers
    <3>2. walker.owed = 0 \/ walker.owed > 0
      BY <3>1
    <3> QED BY <3>2 DEF AlignInv, WalkerOwes
  <2> QED BY <2>1, <2>2, <2>3 DEF AlignInv, Apart
<1>c. /\ Called(asm) \in Assemblers(Bytes) /\ Called(asm).unitMin = asm.unitMin
      /\ Called(asm).sent = asm.sent /\ Called(asm).held = asm.held
      /\ Called(asm).buffer = asm.buffer /\ Called(asm).out = <<>>
  BY <1>t, EmptySeq DEF Called, Assemblers
<1>e. ASSUME phase' # "open", asm'.unitMin = asm.unitMin, profile' = profile,
             larges' = larges, asm'.held = <<>>,
             \A l \in larges : l.known => \A i \in DOMAIN asm'.out : ~Spans(asm'.out[i], l)
      PROVE  AlignInv'
  <2>1. ASSUME NEW l \in larges', l.known PROVE Clean(asm', l)
    BY <1>e, <2>1, EmptyIsClean
  <2> QED BY <1>e, <1>t, <2>1 DEF AlignInv, Clean
<1>1. ASSUME PushByte(Len(fed) + 1) PROVE AlignInv'
  <2>1. phase = "open" /\ Len(fed) < MaxBytes /\ walker.at \in BOOLEAN
    BY <1>1 DEF PushByte, Inv, TypeOK, Walkers
  <2>2. PICK isUnit \in BOOLEAN,
             seen \in HeaderBytes(profile, walker) \cup PayloadBytes(profile, walker)
                        \cup BlankBytes(profile, walker) :
          Report(isUnit, seen) /\ Accept(Len(fed) + 1, isUnit, seen)
    BY <1>1, <2>1 DEF PushByte, Report
  <2> QED BY <2>1, <2>2, AcceptAligned
<1>2. ASSUME PushFault PROVE AlignInv'
  <2> DEFINE isUnit == walker.at /\ ~profile.canonical
             a == Announced(asm, isUnit, asm.gate)
  <2>1. /\ asm' = Clear(a) /\ phase = "open" /\ phase' = "rejected"
        /\ profile' = profile /\ larges' = larges
    BY <1>2 DEF PushFault
  <2>2. isUnit \in BOOLEAN
    OBVIOUS
  <2>3. /\ a.unitMin = asm.unitMin /\ Sound(a, Bytes)
        /\ \A l \in larges : l.known => Clean(a, l)
    <3>1. ASSUME NEW l \in larges, l.known PROVE Clean(a, l)
      <4>1. isUnit => HeldBehind(asm, l) \/ Len(asm.buffer) >= asm.unitMin
        BY <1>o, <2>1, <3>1, BoundaryIsPaid
      <4>2. l.at \in Int /\ Begun(asm, l) /\ Clean(asm, l)
        BY <1>o, <1>t, <2>1, <3>1
      <4> HIDE DEF isUnit
      <4> QED BY <1>o, <1>t, <2>1, <2>2, <4>1, <4>2, AnnouncedAligned
    <3>2. a.unitMin = asm.unitMin /\ Sound(a, Bytes)
      <4> HIDE DEF isUnit
      <4> QED BY <1>o, <1>t, <2>1, <2>2, AnnouncedAligned, AnnouncedSound
    <3> QED BY <3>1, <3>2
  <2> HIDE DEF a
  <2>4. asm'.held = <<>> /\ asm'.out = a.out /\ asm'.unitMin = a.unitMin
    BY <2>1, <2>3 DEF Clear, Sound, Bounded, Assemblers
  <2> QED BY <1>e, <2>1, <2>3, <2>4 DEF Clean
<1>3. ASSUME FinishOk PROVE AlignInv'
  <2> DEFINE c == Called(asm)
             f == Finish(c)
  <2>1. /\ asm' = SetGate(f, "PerByte") /\ phase = "open" /\ phase' = "ended"
        /\ profile' = profile /\ larges' = larges
    BY <1>3 DEF FinishOk
  <2>2. /\ Placed(c)
        /\ \A l : Begun(asm, l) => Begun(c, l)
        /\ \A l : Clean(asm, l) => Clean(c, l)
    <3> HIDE DEF c
    <3>1. /\ c.sent = asm.sent /\ c.held = asm.held /\ c.buffer = asm.buffer
          /\ c.out = <<>> /\ c.unitMin = asm.unitMin
      BY <1>c DEF c
    <3> QED BY <1>o, <2>1, <3>1, SameChunks
  <2>3. Sound(c, Bytes)
    BY <1>t, CalledSound
  <2>c. c \in Assemblers(Bytes) /\ c.unitMin = asm.unitMin
    BY <1>c
  <2> HIDE DEF c
  <2>4. Sound(f, Bytes) /\ f.held = <<>> /\ f.unitMin = asm.unitMin
    <3>1. Sound(f, Bytes) /\ f.held = <<>>
      BY <2>3, FinishSound
    <3>2. f.unitMin = c.unitMin
      BY <2>c DEF Finish, EmitHeld, EmitBuffer, Emit, Assemblers
    <3> QED BY <2>c, <3>1, <3>2
  <2>5. ASSUME NEW l \in larges, l.known
        PROVE  \A i \in DOMAIN f.out : ~Spans(f.out[i], l)
    BY <1>o, <1>t, <2>1, <2>2, <2>5, <2>c, FinishAligned
  <2> HIDE DEF f
  <2>6. asm'.held = <<>> /\ asm'.out = f.out /\ asm'.unitMin = f.unitMin
    BY <2>1, <2>4 DEF SetGate, Sound, Bounded, Assemblers
  <2> QED BY <1>e, <2>1, <2>4, <2>5, <2>6
<1>4. ASSUME FinishTruncated PROVE AlignInv'
  <2>1. /\ asm' = Clear(Called(asm)) /\ phase' = "rejected"
        /\ profile' = profile /\ larges' = larges
    BY <1>4 DEF FinishTruncated
  <2>2. asm'.held = <<>> /\ asm'.out = <<>> /\ asm'.unitMin = asm.unitMin
    BY <1>c, <2>1 DEF Clear, Assemblers
  <2> QED BY <1>e, <1>n, <2>1, <2>2
<1>5. ASSUME NextStream PROVE AlignInv'
  <2>1. /\ larges' = {} /\ fed' = <<>> /\ profile' = profile /\ walker' = walker
        /\ walker = NewWalker /\ asm.held = <<>>
        /\ asm' = [asm EXCEPT !.out = <<>>, !.sent = <<>>]
    BY <1>5 DEF NextStream, Inv
  <2>2. asm'.held = <<>> /\ asm'.out = <<>> /\ asm'.unitMin = asm.unitMin
    BY <1>t, <2>1 DEF Assemblers
  <2>3. WalkerOwes'
    BY <2>1 DEF WalkerOwes, NewWalker
  <2>4. \A i \in 1..Len(fed') : fed'[i] = i
    BY <1>n, <2>1
  <2> QED BY <1>n, <1>t, <2>1, <2>2, <2>3, <2>4 DEF AlignInv, Coalesced
<1>6. ASSUME Refuse PROVE AlignInv'
  <2>1. /\ asm' = Called(asm) /\ phase' = "rejected" /\ asm.held = <<>>
        /\ profile' = profile /\ larges' = larges
    BY <1>6 DEF Refuse, Inv
  <2> QED BY <1>c, <1>e, <1>n, <2>1
<1>7. ASSUME UNCHANGED vars PROVE AlignInv'
  BY <1>7 DEF vars, AlignInv, Clean, Coalesced, Apart, Paid, Begun, HeldBehind, Cut,
              WalkerOwes
<1> QED BY <1>1, <1>2, <1>3, <1>4, <1>5, <1>6, <1>7 DEF Next

(* Units align with chunks both ways: large ones begin a chunk, unless a    *)
(* cut fell inside their header, and small ones do not become one.          *)
THEOREM UnitsAlignWithChunks == Spec => []UnitsAlign
<1>1. Inv /\ AlignInv => UnitsAlign
  BY DEF Inv, AlignInv, Clean, Coalesced, UnitsAlign, LargeUnitBeginsChunk,
         SmallUnitsCoalesce
<1>2. Init => AlignInv
  BY InitAligned
<1>3. Inv /\ AlignInv /\ [Next]_vars => AlignInv'
  BY NextAligned
<1> QED BY <1>1, <1>2, <1>3, Invariance, PTL DEF Spec

(***************************************************************************)
(* The refinement of the promise of the Chunker trait.                     *)
(***************************************************************************)
(* The chunks of one call, end to end.                                      *)
LEMMA FlattenNone == Promise!FlattenSeq(<<>>) = <<>>
BY EmptySeq, LenProperties DEF Promise!FlattenSeq

LEMMA FlattenOne ==
  ASSUME NEW c
  PROVE  Promise!FlattenSeq(<<c>>) = c
<1> DEFINE s == <<c>>
           f == CHOOSE f : f = [i \in 1..Len(s) |-> IF i = 1 THEN s[i] ELSE f[i - 1] \o s[i]]
           w == [i \in 1..1 |-> c]
<1>1. Len(s) = 1 /\ s[1] = c
  OBVIOUS
<1>2. Promise!FlattenSeq(s) = f[Len(s)]
  BY <1>1 DEF Promise!FlattenSeq
<1> HIDE DEF s
<1>3. w = [i \in 1..Len(s) |-> IF i = 1 THEN s[i] ELSE w[i - 1] \o s[i]]
  BY <1>1
<1>4. f = [i \in 1..Len(s) |-> IF i = 1 THEN s[i] ELSE f[i - 1] \o s[i]]
  <2> HIDE DEF w
  <2> QED BY <1>3
<1> HIDE DEF f
<1>5. f[1] = s[1]
  BY <1>1, <1>4
<1> QED BY <1>1, <1>2, <1>5 DEF s

LEMMA FlattenTwo ==
  ASSUME NEW c, NEW d
  PROVE  Promise!FlattenSeq(<<c, d>>) = c \o d
<1> DEFINE s == <<c, d>>
           f == CHOOSE f : f = [i \in 1..Len(s) |-> IF i = 1 THEN s[i] ELSE f[i - 1] \o s[i]]
           w == [i \in 1..2 |-> IF i = 1 THEN c ELSE c \o d]
<1>1. Len(s) = 2 /\ s[1] = c /\ s[2] = d
  OBVIOUS
<1>2. Promise!FlattenSeq(s) = f[Len(s)]
  BY <1>1 DEF Promise!FlattenSeq
<1> HIDE DEF s
<1>3. w = [i \in 1..Len(s) |-> IF i = 1 THEN s[i] ELSE w[i - 1] \o s[i]]
  <2>1. \A i \in 1..2 : i = 1 \/ (i = 2 /\ i - 1 = 1)
    OBVIOUS
  <2> QED BY <1>1, <2>1
<1>4. f = [i \in 1..Len(s) |-> IF i = 1 THEN s[i] ELSE f[i - 1] \o s[i]]
  <2> HIDE DEF w
  <2> QED BY <1>3
<1> HIDE DEF f
<1>5. f[1] = c /\ f[2] = f[1] \o d
  BY <1>1, <1>4
<1> QED BY <1>1, <1>2, <1>5 DEF s

(* What came before what follows.                                           *)
LEMMA PrefixOfConcat ==
  ASSUME NEW S, NEW s \in Seq(S), NEW t \in Seq(S)
  PROVE  Promise!IsPrefix(s, s \o t) /\ Promise!IsPrefix(s, s)
<1>1. /\ s \o t \in Seq(S) /\ Len(s) \in Nat /\ Len(t) \in Nat
      /\ Len(s \o t) = Len(s) + Len(t)
      /\ \A i \in 1..Len(s) + Len(t) :
           (s \o t)[i] = IF i <= Len(s) THEN s[i] ELSE t[i - Len(s)]
  BY ConcatProperties, LenProperties
<1>2. PICK n \in Nat, m \in Nat : n = Len(s) /\ m = Len(t)
  BY <1>1
<1> DEFINE u == s \o t
<1>u. u \in Seq(S) /\ Len(u) = n + m /\ \A i \in 1..n : u[i] = s[i]
  <2>1. \A i \in 1..n : i \in 1..n + m /\ i <= n
    OBVIOUS
  <2> QED BY <1>1, <1>2, <2>1
<1> HIDE DEF u
<1>3. \A i \in 1..n : s[i] \in S
  BY <1>2, ElementOfSeq
<1>4. ASSUME NEW v \in Seq(S), Len(v) >= n, \A i \in 1..n : v[i] = s[i]
      PROVE  SubSeq(v, 1, n) = s
  <2> DEFINE w == SubSeq(v, 1, n)
  <2>1. \A i \in 1..n : v[i] \in S
    BY <1>3, <1>4
  <2>2. w \in Seq(S) /\ Len(w) = n /\ \A i \in 1..n : w[i] = v[i]
    BY <1>2, <2>1, SubSeqProperties
  <2> HIDE DEF w
  <2>3. w = s
    BY <1>2, <1>4, <2>2, SeqEqual
  <2> QED BY <2>3 DEF w
<1>5. SubSeq(u, 1, n) = s
  <2>1. n + m >= n
    OBVIOUS
  <2> QED BY <1>4, <1>u, <2>1
<1>6. SubSeq(s, 1, n) = s
  BY <1>2, <1>4
<1>7. n <= n + m
  OBVIOUS
<1> QED BY <1>2, <1>5, <1>6, <1>7, <1>u DEF Promise!IsPrefix, u

(* A call delivers what it sends.                                           *)
LEMMA AccountDelivers ==
  ASSUME NEW base \in Seq(Bytes), NEW a, a \in Assemblers(Bytes), Accounted(base, a, Bytes),
         Len(a.out) <= 2
  PROVE  a.sent = base \o Promise!FlattenSeq(a.out)
<1>1. ~(Len(a.out) > 2)
  BY LenProperties DEF Assemblers
<1>2. CASE a.out = <<>> /\ a.sent = base
  BY <1>2, FlattenNone, ConcatEmptySeq
<1>3. ASSUME NEW c \in Seq(Bytes), a.out = <<c>>, a.sent = base \o c
      PROVE  a.sent = base \o Promise!FlattenSeq(a.out)
  BY <1>3, FlattenOne
<1>4. ASSUME NEW c \in Seq(Bytes), NEW d \in Seq(Bytes),
             a.out = <<c, d>>, a.sent = (base \o c) \o d
      PROVE  a.sent = base \o Promise!FlattenSeq(a.out)
  <2>1. (base \o c) \o d = base \o (c \o d)
    BY <1>4, Associative
  <2> QED BY <1>4, <2>1, FlattenTwo
<1> QED BY <1>1, <1>2, <1>3, <1>4 DEF Accounted

(* The end of a stream sends the held chunk and the last one.               *)
LEMMA FinishSendsTwo ==
  ASSUME NEW a, a \in Assemblers(Bytes), a.out = <<>>
  PROVE  Len(Finish(a).out) <= 2
<1> DEFINE e == EmitHeld(a)
           m == EmitBuffer(e)
<1>0. Len(<<>>) = 0
  BY EmptySeq
<1>1. SendsOnce(a, e, Bytes) /\ e \in Assemblers(Bytes)
  BY EmitHeldSends
<1>2. e.out \in Seq(Seq(Bytes)) /\ e.buffer \in Seq(Bytes) /\ Len(e.out) \in Nat
  BY <1>1, LenProperties DEF Assemblers
<1>3. Len(e.out) <= 1
  <2>1. CASE e.out = a.out
    BY <1>0, <2>1
  <2>2. ASSUME NEW c \in Seq(Bytes), e.out = Append(a.out, c) PROVE Len(e.out) <= 1
    <3>1. a.out \in Seq(Seq(Bytes))
      BY EmptySeq
    <3>2. Len(Append(a.out, c)) = Len(a.out) + 1
      BY <3>1, AppendProperties
    <3> HIDE DEF e
    <3> QED BY <1>0, <2>2, <3>2
  <2> HIDE DEF e
  <2> QED BY <1>1, <2>1, <2>2 DEF SendsOnce
<1> HIDE DEF e
<1>4. m.out = e.out \/ m.out = Append(e.out, e.buffer)
  <2>1. CASE e.buffer = <<>>
    BY <2>1 DEF EmitBuffer
  <2>2. CASE e.buffer # <<>>
    <3>1. m = [e EXCEPT !.out = Append(e.out, e.buffer),
                        !.sent = e.sent \o e.buffer, !.buffer = <<>>]
      BY <2>2 DEF EmitBuffer, Emit
    <3> QED BY <1>1, <3>1 DEF Assemblers
  <2> QED BY <2>1, <2>2
<1>5. Len(m.out) <= 2
  <2>1. CASE m.out = e.out
    BY <1>2, <1>3, <2>1
  <2>2. CASE m.out = Append(e.out, e.buffer)
    <3>1. Len(Append(e.out, e.buffer)) = Len(e.out) + 1
      BY <1>2, AppendProperties
    <3> HIDE DEF m
    <3> QED BY <1>2, <1>3, <2>2, <3>1
  <2> QED BY <1>4, <2>1, <2>2
<1>6. Finish(a).out = m.out
  <2>1. Finish(a) = [m EXCEPT !.hashed = <<>>]
    BY DEF Finish, e
  <2>2. "out" \in DOMAIN m
    BY <1>1 DEF EmitBuffer, Emit, Assemblers
  <2> HIDE DEF m
  <2> QED BY <2>1, <2>2
<1> QED BY <1>5, <1>6

(* Of the chunks that end a stream only the last may be small.              *)
LEMMA FinishKeepsMinimum ==
  ASSUME NEW a, a \in Assemblers(Bytes), a.out = <<>>, Coalesced(a)
  PROVE  \A i \in DOMAIN Finish(a).out :
           i <= Len(Finish(a).out) - 1 => Len(Finish(a).out[i]) >= a.unitMin
<1> DEFINE e == EmitHeld(a)
           m == EmitBuffer(e)
<1>0. Len(<<>>) = 0 /\ DOMAIN <<>> = {}
  BY EmptySeq, LenProperties
<1>1. e.out = <<>> \/ (e.out = <<a.held>> /\ Len(a.held) >= a.unitMin)
  <2>1. CASE a.held = <<>>
    BY <2>1 DEF EmitHeld
  <2>2. CASE a.held # <<>>
    <3>1. e = [a EXCEPT !.out = Append(a.out, a.held),
                        !.sent = a.sent \o a.held, !.held = <<>>]
      BY <2>2 DEF EmitHeld, Emit
    <3>2. e.out = Append(<<>>, a.held)
      BY <3>1 DEF Assemblers
    <3>3. Append(<<>>, a.held) = <<a.held>>
      OBVIOUS
    <3> HIDE DEF e
    <3> QED BY <2>2, <3>2, <3>3 DEF Coalesced
  <2> QED BY <2>1, <2>2
<1>2. e \in Assemblers(Bytes)
  BY EmitHeldSends
<1> HIDE DEF e
<1>3. m.out = e.out \/ m.out = Append(e.out, e.buffer)
  <2>1. CASE e.buffer = <<>>
    BY <2>1 DEF EmitBuffer
  <2>2. CASE e.buffer # <<>>
    <3>1. m = [e EXCEPT !.out = Append(e.out, e.buffer),
                        !.sent = e.sent \o e.buffer, !.buffer = <<>>]
      BY <2>2 DEF EmitBuffer, Emit
    <3> QED BY <1>2, <3>1 DEF Assemblers
  <2> QED BY <2>1, <2>2
<1>4. Finish(a).out = m.out
  <2>1. Finish(a) = [m EXCEPT !.hashed = <<>>]
    BY DEF Finish, e
  <2>2. "out" \in DOMAIN m
    BY <1>2 DEF EmitBuffer, Emit, Assemblers
  <2> HIDE DEF m
  <2> QED BY <2>1, <2>2
<1> HIDE DEF m
<1>6. ASSUME NEW x, NEW y
      PROVE  /\ Len(<<x>>) = 1 /\ DOMAIN <<x>> = {1} /\ <<x>>[1] = x
             /\ Len(<<x, y>>) = 2 /\ DOMAIN <<x, y>> = {1, 2} /\ <<x, y>>[1] = x
  OBVIOUS
<1>5. ASSUME NEW i \in DOMAIN m.out, i <= Len(m.out) - 1
      PROVE  Len(m.out[i]) >= a.unitMin
  <2>1. CASE e.out = <<>>
    <3>1. m.out = <<>> \/ m.out = <<e.buffer>>
      <4>1. Append(<<>>, e.buffer) = <<e.buffer>>
        OBVIOUS
      <4> QED BY <1>3, <2>1, <4>1
    <3>2. CASE m.out = <<>>
      BY <1>0, <1>5, <3>2
    <3>3. CASE m.out = <<e.buffer>>
      <4>1. Len(m.out) = 1 /\ i = 1
        BY <1>5, <1>6, <3>3
      <4>2. FALSE
        BY <1>5, <4>1
      <4> QED BY <4>2
    <3> QED BY <3>1, <3>2, <3>3
  <2>2. CASE e.out = <<a.held>> /\ Len(a.held) >= a.unitMin
    <3>1. m.out = <<a.held>> \/ m.out = Append(<<a.held>>, e.buffer)
      BY <1>3, <2>2
    <3>2. CASE m.out = <<a.held>>
      <4>1. i = 1 /\ m.out[1] = a.held
        BY <1>5, <1>6, <3>2
      <4> QED BY <2>2, <4>1
    <3>3. CASE m.out = Append(<<a.held>>, e.buffer)
      <4>1. /\ a.held \in Seq(Bytes) /\ e.buffer \in Seq(Bytes)
            /\ <<a.held>> \in Seq(Seq(Bytes))
        BY <1>2 DEF Assemblers
      <4>2. /\ Len(m.out) = 2 /\ m.out[1] = a.held
            /\ m.out \in Seq(Seq(Bytes))
        BY <1>6, <3>3, <4>1, AppendProperties
      <4>3. i \in 1..2
        BY <1>5, <4>2, LenProperties
      <4>4. i = 1
        BY <1>5, <4>2, <4>3
      <4> QED BY <2>2, <4>2, <4>4
    <3> QED BY <3>1, <3>2, <3>3
  <2> QED BY <1>1, <2>1, <2>2
<1> QED BY <1>4, <1>5

(* Every call keeps the promise.                                            *)
LEMMA CallKeepsPromise ==
  ASSUME Inv, Inv', AlignInv, AlignInv', [Next]_vars
  PROVE  [Promise!Next]_(Promise!vars)
<1>t. /\ asm \in Assemblers(Bytes) /\ asm.sent \in Seq(Bytes) /\ fed \in Seq(Bytes)
      /\ asm' \in Assemblers(Bytes)
      /\ asm'.sent \in Seq(Bytes) /\ asm'.held \in Seq(Bytes) /\ asm'.buffer \in Seq(Bytes)
      /\ asm'.out \in Seq(Seq(Bytes))
      /\ \A i \in DOMAIN asm'.out : Len(asm'.out[i]) \in 1..ChunkMax
      /\ phase' # "ended" => Len(asm'.out) <= 1
  BY DEF Inv, TypeOK, Sound, Bounded, Assemblers
<1>d. ASSUME Accounted(asm.sent, asm', Bytes), Len(asm'.out) <= 2
      PROVE  Promise!Deliver(asm'.out)
  <2>1. asm'.sent = asm.sent \o Promise!FlattenSeq(asm'.out)
    BY <1>d, <1>t, AccountDelivers
  <2> QED BY <1>t, <2>1 DEF Promise!Deliver
<1>s. ASSUME NEW n, profile' = profile,
             ~profile.large => \A i \in DOMAIN asm'.out :
                                 i <= n => Len(asm'.out[i]) >= profile.unitMin
      PROVE  Promise!NoneSmall(n)
  <2>1. ASSUME NEW i \in DOMAIN asm'.out, i <= n
        PROVE  Len(asm'.out[i]) >= IF profile.large THEN 1 ELSE profile.unitMin
    <3>1. Len(asm'.out[i]) >= 1
      BY <1>t, <2>1, EnvelopeAssumption
    <3> QED BY <1>s, <2>1, <3>1
  <2> QED BY <2>1 DEF Promise!NoneSmall
<1>u. asm.unitMin = profile.unitMin /\ asm'.unitMin = profile'.unitMin
  BY DEF AlignInv
<1>l. Len(asm'.out) <= 1 => Len(asm'.out) <= 2
  BY <1>t, LenProperties
<1>p. ASSUME NEW a, a \in Assemblers(Bytes)
      PROVE  Promise!IsPrefix(a.sent, Whole(a))
  <2>1. a.sent \in Seq(Bytes) /\ a.held \in Seq(Bytes) /\ a.buffer \in Seq(Bytes)
    BY <1>p DEF Assemblers
  <2>2. Whole(a) = a.sent \o (a.held \o a.buffer)
    <3>1. (a.sent \o a.held) \o a.buffer = a.sent \o (a.held \o a.buffer)
      <4>1. \A x, y, w \in Seq(Bytes) : (x \o y) \o w = x \o (y \o w)
        BY Associative
      <4> QED BY <2>1, <4>1
    <3> QED BY <3>1 DEF Whole
  <2>3. a.held \o a.buffer \in Seq(Bytes)
    BY <2>1, ConcatProperties
  <2> QED BY <2>1, <2>2, <2>3, PrefixOfConcat
<1>1. ASSUME PushByte(Len(fed) + 1) PROVE Promise!AcceptByte
  <2>1. /\ phase = "open" /\ phase' = "open" /\ result' = "ok"
        /\ fed' = Append(fed, Len(fed) + 1) /\ profile' = profile
    BY <1>1 DEF PushByte, Accept
  <2>2. Promise!Deliver(asm'.out)
    BY <1>1, <1>d, <1>l, <1>t, <2>1, PushByteAccount
  <2>3. Promise!IsPrefix(asm'.sent, fed')
    <3>1. Whole(asm') = fed'
      BY <2>1 DEF Inv, Whole
    <3> QED BY <3>1, <1>p, <1>t
  <2>4. ~profile.large => Coalesced(asm')
    BY <2>1 DEF AlignInv
  <2>5. Promise!NoneSmall(Len(asm'.out))
    <3>1. ~profile.large => \A i \in DOMAIN asm'.out :
                              Len(asm'.out[i]) >= profile.unitMin
      BY <1>u, <2>1, <2>4 DEF Coalesced
    <3> QED BY <1>s, <2>1, <3>1
  <2> QED BY <2>1, <2>2, <2>3, <2>5 DEF Promise!AcceptByte
<1>2. ASSUME PushFault PROVE Promise!Reject
  <2> DEFINE isUnit == walker.at /\ ~profile.canonical
             a == Announced(asm, isUnit, asm.gate)
  <2>1. /\ phase = "open" /\ phase' = "rejected" /\ result' = "malformed" /\ fed' = fed
        /\ asm' = Clear(a) /\ profile' = profile
    BY <1>2 DEF PushFault
  <2>2. isUnit \in BOOLEAN /\ asm.gate \in Gates /\ Sound(asm, Bytes) /\ Whole(asm) = fed
    BY <2>1 DEF Inv, TypeOK, Assemblers
  <2>3. Sound(a, Bytes) /\ Whole(a) = fed
    BY <2>2, AnnouncedSound
  <2>7. ~profile.large => Coalesced(a) /\ a.unitMin = profile.unitMin
    <3>1. asm \in Assemblers(Bytes) /\ Placed(asm)
      <4>1. Whole(asm) = fed /\ \A i \in 1..Len(fed) : fed[i] = i
        BY <2>1 DEF Inv, AlignInv
      <4> QED BY <1>t, <4>1, WholePlaced
    <3>2. ~profile.large => Coalesced(asm)
      BY <2>1 DEF AlignInv
    <3> HIDE DEF isUnit
    <3> QED BY <1>u, <2>2, <3>1, <3>2, AnnouncedAligned
  <2> HIDE DEF a
  <2>4. /\ asm'.sent = a.sent /\ asm'.out = a.out /\ a \in Assemblers(Bytes)
    BY <2>1, <2>3, ClearSound DEF Sound, Bounded
  <2>8. Promise!NoneSmall(Len(asm'.out))
    <3>1. ~profile.large => \A i \in DOMAIN asm'.out :
                              Len(asm'.out[i]) >= profile.unitMin
      BY <2>4, <2>7 DEF Coalesced
    <3> QED BY <1>s, <2>1, <3>1
  <2>5. Promise!IsPrefix(asm'.sent, fed)
    BY <1>p, <2>3, <2>4
  <2>6. Promise!Deliver(asm'.out)
    BY <1>2, <1>d, <1>l, <1>t, <2>1, PushFaultAccount
  <2> QED BY <2>1, <2>5, <2>6, <2>8 DEF Promise!Reject
<1>3. ASSUME FinishOk PROVE Promise!EndStream
  <2> DEFINE c == Called(asm)
             f == Finish(c)
  <2>1. /\ phase = "open" /\ phase' = "ended" /\ result' = "ok" /\ fed' = fed
        /\ asm' = SetGate(f, "PerByte") /\ "PerByte" \in Gates /\ profile' = profile
    BY <1>3 DEF FinishOk, Gates
  <2>2. Sound(c, Bytes) /\ c \in Assemblers(Bytes) /\ c.out = <<>>
    BY CalledSound DEF Inv, Sound, Bounded
  <2>7. ~profile.large => Coalesced(c) /\ c.unitMin = profile.unitMin
    <3>1. /\ c.sent = asm.sent /\ c.held = asm.held /\ c.buffer = asm.buffer
          /\ c.out = <<>> /\ c.unitMin = asm.unitMin
      BY <1>t, EmptySeq DEF Called, Assemblers
    <3>2. ~profile.large => Coalesced(asm)
      BY <2>1 DEF AlignInv
    <3> HIDE DEF c
    <3> QED BY <1>u, <3>1, <3>2, SameChunks
  <2> HIDE DEF c
  <2>3. Sound(f, Bytes) /\ Len(f.out) <= 2
    BY <2>2, FinishSound, FinishSendsTwo
  <2>8. ~profile.large => \A i \in DOMAIN f.out :
                            i <= Len(f.out) - 1 => Len(f.out[i]) >= profile.unitMin
    BY <2>2, <2>7, FinishKeepsMinimum
  <2> HIDE DEF f
  <2>4. asm'.out = f.out
    BY <2>1, <2>3, SetGateSound
  <2>9. Promise!NoneSmall(Len(asm'.out) - 1)
    BY <1>s, <2>1, <2>4, <2>8
  <2>5. Promise!Deliver(asm'.out)
    BY <1>3, <1>d, <2>3, <2>4, FinishOkAccount
  <2>6. asm'.sent = fed
    BY <2>1 DEF Inv
  <2> QED BY <2>1, <2>5, <2>6, <2>9 DEF Promise!EndStream
<1>4. ASSUME FinishTruncated PROVE Promise!Reject
  <2>1. /\ phase = "open" /\ phase' = "rejected" /\ result' = "malformed" /\ fed' = fed
        /\ Whole(asm) = fed /\ profile' = profile
    BY <1>4 DEF FinishTruncated, Inv
  <2>2. asm'.out = <<>> /\ asm'.sent = asm.sent
    BY <1>4, FinishTruncatedSends
  <2>3. Promise!Deliver(asm'.out)
    BY <1>t, <2>2, FlattenNone, ConcatEmptySeq DEF Promise!Deliver
  <2>4. Promise!IsPrefix(asm'.sent, fed)
    BY <1>p, <1>t, <2>1, <2>2
  <2>5. Promise!NoneSmall(Len(asm'.out))
    <3>1. DOMAIN asm'.out = {}
      BY <2>2, EmptySeq, LenProperties
    <3> QED BY <1>s, <2>1, <3>1
  <2> QED BY <2>1, <2>3, <2>4, <2>5 DEF Promise!Reject
<1>5. ASSUME NextStream PROVE Promise!Reuse
  <2>1. /\ phase = "ended" /\ phase' = "open" /\ fed' = <<>> /\ result' = result
        /\ profile' = profile
        /\ asm' = [asm EXCEPT !.out = <<>>, !.sent = <<>>]
    BY <1>5 DEF NextStream
  <2>2. asm'.out = <<>> /\ asm'.sent = <<>>
    BY <1>t, <2>1 DEF Assemblers
  <2> QED BY <2>1, <2>2 DEF Promise!Reuse
<1>6. ASSUME Refuse PROVE Promise!Refuse
  <2>1. /\ phase = "rejected" /\ phase' = "rejected" /\ result' = "refused" /\ fed' = fed
        /\ asm' = Called(asm) /\ profile' = profile
    BY <1>6 DEF Refuse
  <2>2. asm'.out = <<>> /\ asm'.sent = asm.sent
    BY <2>1, CalledSound DEF Inv
  <2> QED BY <2>1, <2>2 DEF Promise!Refuse
<1>7. ASSUME UNCHANGED vars PROVE UNCHANGED Promise!vars
  BY <1>7 DEF vars, Promise!vars
<1> QED BY <1>1, <1>2, <1>3, <1>4, <1>5, <1>6, <1>7 DEF Next, Promise!Next

(* Every driver keeps the promise of the Chunker trait: whatever is held,   *)
(* attached or realigned inside, the caller sees bytes go in and the same   *)
(* bytes come out, in chunks, none but the trailing one below the minimum   *)
(* size where the driver has no large units.                                *)
THEOREM DriversKeepThePromise == Spec => ImplementsPromise
<1>1. Init => Promise!Init
  <2> SUFFICES ASSUME Init PROVE Promise!Init
    OBVIOUS
  <2>1. profile.unitMin \in 1..ChunkMin /\ 1 <= ChunkMax /\ ChunkMin <= ChunkMax
    BY ProfilesAssumption, EnvelopeAssumption DEF Init
  <2>2. (IF profile.large THEN 1 ELSE profile.unitMin) \in 1..ChunkMax
    BY <2>1, EnvelopeAssumption
  <2> QED BY <2>2 DEF Init, Fresh, Promise!Init
<1>2. Inv /\ Inv' /\ AlignInv /\ AlignInv' /\ [Next]_vars
        => [Promise!Next]_(Promise!vars)
  BY CallKeepsPromise
<1>3. Init => AlignInv
  BY InitAligned
<1>4. Inv /\ AlignInv /\ [Next]_vars => AlignInv'
  BY NextAligned
<1> QED BY <1>1, <1>2, <1>3, <1>4, Invariance, PTL DEF Spec, ImplementsPromise, Promise!Spec

(***************************************************************************)
(* The pipeline around a chunker, for every length of its buffers and its  *)
(* reader: no byte is lost, doubled or reordered between the reader, the   *)
(* probe, the replay, the window, the chunker and the consumer.            *)
(***************************************************************************)

PipeTyped ==
  /\ length \in 0..MaxBytes /\ taken \in 0..length
  /\ prefix \in Seq(Bytes) /\ Len(prefix) <= ProbeMax /\ replayed \in 0..Len(prefix)
  /\ window \in Seq(Bytes) /\ Len(window) <= WindowMax
  /\ pending \in Seq(Bytes) /\ delivered \in Seq(Bytes)
  /\ task \in Tasks

\* The bytes of every buffer are consecutive bytes of the reader, and each
\* buffer goes on where the one before it ends.
InOrder ==
  /\ fed = Span(0, Len(fed))
  /\ prefix = Span(0, Len(prefix))
  /\ window = Span(Len(fed), Len(window))
  /\ Len(fed) + Len(window) + (Len(prefix) - replayed) = taken
  /\ replayed < Len(prefix) => taken = Len(prefix)

\* What the task is doing tells where the chunker and the buffers are.
TaskIsAt ==
  /\ task \in {"probing", "detecting"} => taken = Len(prefix) /\ replayed = 0
  /\ task \notin {"draining", "done", "failed", "panicked"} => phase = "open"
  /\ task \in {"draining", "done"} => phase = "ended" /\ Len(fed) = length
  /\ task = "reading" => window = <<>>

\* What the consumer has received of what the chunker completed.
Settled ==
  /\ task \notin {"yielding", "draining", "panicked"} => pending = <<>>
  /\ task \notin {"failed", "panicked"} => delivered \o pending = asm.sent
  /\ task = "failed" =>
       LET lost == Len(asm.sent) - Len(delivered) IN
       /\ delivered = Span(0, Len(delivered))
       /\ lost = 0 \/ (Len(asm.out) = 1 /\ lost = Len(asm.out[1]))

AsyncInv == Inv /\ PipeTyped /\ InOrder /\ TaskIsAt /\ Settled

(* A run of the reader's bytes is a sequence of that length.                *)
LEMMA SpanProperties ==
  ASSUME NEW from \in Nat, NEW n \in Nat
  PROVE  /\ Len(Span(from, n)) = n
         /\ \A i \in 1..n : Span(from, n)[i] = from + i
         /\ \A S : (\A i \in 1..n : from + i \in S) => Span(from, n) \in Seq(S)
<1> DEFINE s == Span(from, n)
<1>1. /\ DOMAIN s = 1..n /\ \A i \in 1..n : s[i] = from + i
      /\ \A S : (\A i \in 1..n : from + i \in S) => s \in [1..n -> S]
  BY DEF Span
<1> HIDE DEF s
<1>2. \A S : (\A i \in 1..n : from + i \in S) => s \in Seq(S)
  BY <1>1, SeqDef
<1>3. s \in Seq(Int)
  BY <1>2
<1>4. 1..Len(s) = 1..n /\ Len(s) \in Nat
  BY <1>1, <1>3, LenProperties
<1>5. Len(s) = n
  BY <1>4
<1> QED BY <1>1, <1>2, <1>5 DEF s

(* Two runs that follow each other are one.                                 *)
LEMMA SpanJoin ==
  ASSUME NEW from \in Nat, NEW m \in Nat, NEW n \in Nat
  PROVE  Span(from, m) \o Span(from + m, n) = Span(from, m + n)
<1> DEFINE a == Span(from, m)
           b == Span(from + m, n)
           c == Span(from, m + n)
<1>1. /\ a \in Seq(Int) /\ Len(a) = m /\ \A i \in 1..m : a[i] = from + i
  BY SpanProperties
<1>2. /\ b \in Seq(Int) /\ Len(b) = n /\ \A i \in 1..n : b[i] = from + m + i
  <2>1. from + m \in Nat
    OBVIOUS
  <2> QED BY <2>1, SpanProperties
<1>3. /\ c \in Seq(Int) /\ Len(c) = m + n /\ \A i \in 1..(m + n) : c[i] = from + i
  <2>1. m + n \in Nat
    OBVIOUS
  <2> QED BY <2>1, SpanProperties
<1> HIDE DEF a, b, c
<1>4. /\ a \o b \in Seq(Int) /\ Len(a \o b) = m + n
      /\ \A i \in 1..(m + n) : (a \o b)[i] = IF i <= m THEN a[i] ELSE b[i - m]
  BY <1>1, <1>2, ConcatProperties
<1>5. ASSUME NEW i \in 1..(m + n) PROVE (a \o b)[i] = c[i]
  <2>1. CASE i <= m
    BY <1>1, <1>3, <1>4, <2>1
  <2>2. CASE ~(i <= m)
    <3>1. i - m \in 1..n /\ (from + m) + (i - m) = from + i
      BY <2>2
    <3>2. (a \o b)[i] = b[i - m] /\ b[i - m] = (from + m) + (i - m)
      BY <1>2, <1>4, <2>2, <3>1
    <3> QED BY <1>3, <3>1, <3>2
  <2> QED BY <2>1, <2>2
<1>6. a \o b = c
  BY <1>3, <1>4, <1>5, SeqEqual
<1> QED BY <1>6 DEF a, b, c

(* A part of a run is a run.                                                *)
LEMMA SpanPart ==
  ASSUME NEW from \in Nat, NEW p \in Nat, NEW r \in Nat, NEW n \in Nat, r + n <= p
  PROVE  SubSeq(Span(from, p), r + 1, r + n) = Span(from + r, n)
<1> DEFINE s == Span(from, p)
           t == SubSeq(s, r + 1, r + n)
           u == Span(from + r, n)
<1>1. s \in Seq(Int) /\ Len(s) = p /\ \A i \in 1..p : s[i] = from + i
  BY SpanProperties
<1>2. u \in Seq(Int) /\ Len(u) = n /\ \A i \in 1..n : u[i] = from + r + i
  <2>1. from + r \in Nat
    OBVIOUS
  <2> QED BY <2>1, SpanProperties
<1> HIDE DEF s, u
<1>3. \A i \in (r + 1)..(r + n) : s[i] \in Int
  BY <1>1
<1>4. /\ t \in Seq(Int) /\ Len(t) = IF r + 1 <= r + n THEN r + n - (r + 1) + 1 ELSE 0
      /\ \A i \in 1..(r + n - (r + 1) + 1) : t[i] = s[r + 1 + i - 1]
  BY <1>3, SubSeqProperties
<1> HIDE DEF t
<1>5. Len(t) = n
  BY <1>4
<1>6. ASSUME NEW i \in 1..n PROVE t[i] = u[i]
  <2>1. i \in 1..(r + n - (r + 1) + 1) /\ r + 1 + i - 1 = r + i /\ r + i \in 1..p
    OBVIOUS
  <2>2. t[i] = s[r + i]
    BY <1>4, <2>1
  <2>3. s[r + i] = from + (r + i) /\ u[i] = from + r + i
    BY <1>1, <1>2, <2>1
  <2>4. from + (r + i) = from + r + i
    OBVIOUS
  <2> QED BY <2>2, <2>3, <2>4
<1>7. t = u
  BY <1>2, <1>4, <1>5, <1>6, SeqEqual
<1> QED BY <1>7 DEF s, t, u

(* The first byte of a run, and the rest.                                   *)
LEMMA SpanHead ==
  ASSUME NEW from \in Nat, NEW n \in Nat, n > 0
  PROVE  /\ Head(Span(from, n)) = from + 1
         /\ Tail(Span(from, n)) = Span(from + 1, n - 1)
<1> DEFINE s == Span(from, n)
<1>1. s \in Seq(Int) /\ Len(s) = n /\ \A i \in 1..n : s[i] = from + i
  BY SpanProperties
<1>2. s # <<>>
  BY <1>1, EmptySeq
<1>3. SubSeq(Span(from, n), 1 + 1, 1 + (n - 1)) = Span(from + 1, n - 1)
  <2>1. 1 \in Nat /\ n - 1 \in Nat /\ 1 + (n - 1) <= n
    OBVIOUS
  <2>2. SubSeq(Span(from, n), 1 + 1, 1 + (n - 1)) = Span(from + 1, n - 1)
    <3> HIDE DEF s
    <3> QED BY <2>1, SpanPart
  <2> QED BY <2>2
<1> HIDE DEF s
<1>4. Head(s) = s[1]
  OBVIOUS
<1>5. s[1] = from + 1
  BY <1>1
<1>6. Tail(s) = SubSeq(s, 2, n)
  BY <1>1, <1>2, TailIsSubSeq
<1>7. 1 + 1 = 2 /\ 1 + (n - 1) = n
  OBVIOUS
<1> QED BY <1>3, <1>4, <1>5, <1>6, <1>7 DEF s

(* The next byte behind a run.                                              *)
LEMMA SpanNext ==
  ASSUME NEW from \in Nat, NEW n \in Nat
  PROVE  Append(Span(from, n), from + n + 1) = Span(from, n + 1)
<1> DEFINE s == Span(from, n)
           t == Span(from, n + 1)
           x == from + n + 1
<1>1. s \in Seq(Int) /\ Len(s) = n /\ \A i \in 1..n : s[i] = from + i
  BY SpanProperties
<1>2. t \in Seq(Int) /\ Len(t) = n + 1 /\ \A i \in 1..(n + 1) : t[i] = from + i
  <2>1. n + 1 \in Nat
    OBVIOUS
  <2> QED BY <2>1, SpanProperties
<1> HIDE DEF s, t
<1>3. /\ Append(s, x) \in Seq(Int) /\ Len(Append(s, x)) = n + 1
      /\ \A i \in 1..n : Append(s, x)[i] = s[i]
      /\ Append(s, x)[n + 1] = x
  BY <1>1, AppendProperties
<1>4. ASSUME NEW i \in 1..(n + 1) PROVE Append(s, x)[i] = t[i]
  <2>1. CASE i \in 1..n
    BY <1>1, <1>2, <1>3, <2>1
  <2>2. CASE i = n + 1
    <3>1. t[n + 1] = from + (n + 1)
      BY <1>2
    <3>2. from + (n + 1) = x
      OBVIOUS
    <3> HIDE DEF x
    <3> QED BY <1>3, <2>2, <3>1, <3>2
  <2>3. i \in 1..n \/ i = n + 1
    OBVIOUS
  <2> QED BY <2>1, <2>2, <2>3
<1>5. Append(s, x) = t
  BY <1>2, <1>3, <1>4, SeqEqual
<1> QED BY <1>5 DEF s, t

(* What a run begins with is a run.                                         *)
LEMMA SpanBegins ==
  ASSUME NEW S, NEW s \in Seq(S), NEW t \in Seq(S), NEW n \in Nat,
         s \o t = Span(0, n)
  PROVE  s = Span(0, Len(s)) /\ Len(s) <= n
<1> DEFINE m == Len(s)
           u == Span(0, n)
           v == Span(0, m)
<1>0. Len(s) \in Nat /\ Len(t) \in Nat
  BY LenProperties
<1>1. Len(u) = n /\ \A i \in 1..n : u[i] = 0 + i
  BY SpanProperties
<1>2. /\ Len(v) = m /\ (\A i \in 1..m : v[i] = 0 + i)
      /\ \A T : (\A i \in 1..m : 0 + i \in T) => v \in Seq(T)
  BY <1>0, SpanProperties
<1>3. /\ Len(s \o t) = m + Len(t)
      /\ \A i \in 1..(m + Len(t)) : (s \o t)[i] = IF i <= m THEN s[i] ELSE t[i - m]
  BY ConcatProperties
<1>q. s \o t = u
  OBVIOUS
<1>4. m <= n
  BY <1>0, <1>1, <1>3, <1>q
<1> HIDE DEF m, u, v
<1>m. m \in Nat /\ m = Len(s)
  BY <1>0 DEF m
<1>5. \A i \in 1..m : s[i] = i
  <2> TAKE i \in 1..m
  <2>1. i \in 1..(m + Len(t)) /\ i <= m /\ i \in 1..n
    BY <1>0, <1>m, <1>4
  <2>2. (s \o t)[i] = s[i] /\ u[i] = 0 + i
    BY <1>1, <1>3, <2>1
  <2>3. 0 + i = i
    OBVIOUS
  <2> QED BY <1>q, <2>2, <2>3
<1>6. \A i \in 1..m : s[i] \in S
  BY <1>m, ElementOfSeq
<1>7. v \in Seq(S)
  <2>1. \A i \in 1..m : 0 + i \in S
    BY <1>5, <1>6
  <2> QED BY <1>2, <2>1
<1>8. \A i \in 1..m : s[i] = v[i]
  BY <1>2, <1>5
<1>9. s = v
  BY <1>2, <1>7, <1>8, <1>m, SeqEqual
<1> QED BY <1>4, <1>9 DEF v, m

(* What a call emitted when it emitted at most one chunk.                   *)
LEMMA AccountOfOne ==
  ASSUME NEW Byte, NEW a, NEW base, a.out \in Seq(Seq(Byte)),
         Accounted(base, a, Byte), Len(a.out) <= 1
  PROVE  \/ a.out = <<>> /\ a.sent = base
         \/ \E c \in Seq(Byte) : a.out = <<c>> /\ a.sent = base \o c
<1>1. ASSUME NEW c \in Seq(Byte), NEW d \in Seq(Byte), a.out = <<c, d>> PROVE FALSE
  <2>1. Len(<<c, d>>) = 2
    OBVIOUS
  <2> QED BY <1>1, <2>1
<1>2. ~(Len(a.out) > 2)
  BY LenProperties
<1> QED BY <1>1, <1>2 DEF Accounted

(* The byte pushed is the next one of the stream.                           *)
LEMMA NextOfWindow ==
  ASSUME AsyncInv, window # <<>>
  PROVE  /\ Head(window) = Len(fed) + 1
         /\ Tail(window) = Span(Len(fed) + 1, Len(window) - 1)
         /\ Len(Tail(window)) = Len(window) - 1 /\ Tail(window) \in Seq(Bytes)
         /\ Len(window) \in Nat \ {0} /\ Len(fed) \in Nat
<1>1. fed \in Seq(Bytes) /\ window \in Seq(Bytes) /\ window = Span(Len(fed), Len(window))
  BY DEF AsyncInv, Inv, TypeOK, PipeTyped, InOrder
<1>2. Len(fed) \in Nat /\ Len(window) \in Nat \ {0}
  BY <1>1, EmptySeq, LenProperties
<1>3. /\ Tail(window) \in Seq(Bytes) /\ Len(Tail(window)) = Len(window) - 1
  BY <1>1, HeadTailProperties
<1>4. \A m, n \in Nat : n > 0 => /\ Head(Span(m, n)) = m + 1
                                 /\ Tail(Span(m, n)) = Span(m + 1, n - 1)
  BY SpanHead
<1>5. Len(window) > 0 /\ Len(window) \in Nat
  BY <1>2
<1>6. /\ Head(Span(Len(fed), Len(window))) = Len(fed) + 1
      /\ Tail(Span(Len(fed), Len(window))) = Span(Len(fed) + 1, Len(window) - 1)
  BY <1>2, <1>4, <1>5
<1> QED BY <1>1, <1>2, <1>3, <1>6

(* A step of the pipeline is a step of the chunker, or leaves it alone.     *)
LEMMA PipelineDrives == AsyncInv /\ [AsyncNext]_asyncVars => [Next]_vars
<1> SUFFICES ASSUME AsyncInv, [AsyncNext]_asyncVars PROVE [Next]_vars
  OBVIOUS
<1>1. ASSUME PushNext PROVE Next
  <2>1. PushByte(Head(window)) /\ window # <<>>
    BY <1>1 DEF PushNext
  <2>2. Head(window) = Len(fed) + 1
    BY <2>1, NextOfWindow
  <2>3. PushByte(Len(fed) + 1)
    BY <2>1, <2>2
  <2> QED BY <2>3 DEF Next
<1>2. ASSUME PushFails PROVE Next
  BY <1>2 DEF PushFails, Next
<1>3. ASSUME EndOfInput PROVE Next
  BY <1>3 DEF EndOfInput, Next
<1>4. ASSUME \/ Reader \/ ReadFails \/ ProbeEnd \/ Detect \/ WindowDone \/ Yield
             \/ UNCHANGED asyncVars
      PROVE  UNCHANGED vars
  BY <1>4 DEF Reader, ProbeRead, ReplayRead, InnerRead, ReadFails, ProbeEnd,
              Detect, WindowDone, Yield, asyncVars
<1> QED BY <1>1, <1>2, <1>3, <1>4 DEF AsyncNext, Generator

(* What an open stream has sent is a beginning of the reader's bytes.       *)
LEMMA SentIsSpan ==
  ASSUME AsyncInv, phase = "open"
  PROVE  asm.sent = Span(0, Len(asm.sent))
<1>1. /\ asm.sent \in Seq(Bytes) /\ asm.held \in Seq(Bytes) /\ asm.buffer \in Seq(Bytes)
      /\ fed = Span(0, Len(fed)) /\ Whole(asm) = fed /\ Len(fed) \in Nat
  BY LenProperties DEF AsyncInv, Inv, TypeOK, Assemblers, InOrder
<1> DEFINE s == asm.sent
           t == asm.held \o asm.buffer
<1>2. s \in Seq(Bytes) /\ t \in Seq(Bytes)
  BY <1>1, ConcatProperties
<1>3. Whole(asm) = s \o t
  <2> DEFINE h == asm.held
             b == asm.buffer
  <2>1. s \in Seq(Bytes) /\ h \in Seq(Bytes) /\ b \in Seq(Bytes)
    BY <1>1
  <2>2. Whole(asm) = (s \o h) \o b /\ t = h \o b
    BY DEF Whole
  <2> HIDE DEF s, h, b, t
  <2>3. (s \o h) \o b = s \o (h \o b)
    BY <2>1, Associative
  <2> QED BY <2>2, <2>3
<1> HIDE DEF s, t
<1>4. \A n \in Nat : s \o t = Span(0, n) => s = Span(0, Len(s))
  BY <1>2, SpanBegins
<1>5. s \o t = Span(0, Len(fed))
  BY <1>1, <1>3
<1> QED BY <1>1, <1>4, <1>5 DEF s

LEMMA AsyncInitInv == AsyncInit => AsyncInv
<1> SUFFICES ASSUME AsyncInit PROVE AsyncInv
  OBVIOUS
<1>1. Inv
  BY InitInv DEF AsyncInit
<1>2. <<>> \in Seq(Bytes) /\ Len(<<>>) = 0
  BY EmptySeq
<1>3. fed = <<>> /\ asm.sent = <<>> /\ phase = "open"
  BY DEF AsyncInit, Init, Fresh
<1>4. Span(0, 0) = <<>>
  <2>1. Len(Span(0, 0)) = 0 /\ Span(0, 0) \in Seq(Bytes)
    <3>1. \A i \in 1..0 : 0 + i \in Bytes
      OBVIOUS
    <3> QED BY <3>1, SpanProperties
  <2> QED BY <2>1, EmptySeq
<1>5. PipeTyped
  BY <1>2, PipelineAssumption, BoundsAssumption DEF AsyncInit, PipeTyped, Tasks
<1>6. InOrder /\ TaskIsAt
  BY <1>2, <1>3, <1>4 DEF AsyncInit, InOrder, TaskIsAt
<1>7. Settled
  <2>1. delivered \o pending = asm.sent /\ pending = <<>>
    BY <1>2, <1>3, ConcatEmptySeq DEF AsyncInit
  <2>2. task # "failed"
    BY DEF AsyncInit
  <2> QED BY <2>1, <2>2 DEF Settled
<1> QED BY <1>1, <1>5, <1>6, <1>7 DEF AsyncInv

(* The types the steps of the pipeline read.                                *)
LEMMA PipelineFacts ==
  ASSUME AsyncInv
  PROVE  /\ length \in 0..MaxBytes /\ taken \in 0..length /\ MaxBytes \in Nat
         /\ prefix \in Seq(Bytes) /\ Len(prefix) \in Nat /\ Len(prefix) <= ProbeMax
         /\ replayed \in 0..Len(prefix)
         /\ window \in Seq(Bytes) /\ Len(window) \in Nat /\ Len(window) <= WindowMax
         /\ fed \in Seq(Bytes) /\ Len(fed) \in Nat
         /\ pending \in Seq(Bytes) /\ delivered \in Seq(Bytes)
         /\ asm.sent \in Seq(Bytes) /\ asm.out \in Seq(Seq(Bytes))
         /\ ProbeMax \in Nat \ {0} /\ WindowMax \in Nat \ {0}
BY LenProperties, BoundsAssumption, PipelineAssumption
   DEF AsyncInv, Inv, TypeOK, PipeTyped, Assemblers

\* A run read next, as a sequence of bytes.
LEMMA ReadSpan ==
  ASSUME NEW from \in Nat, NEW n \in Nat, from + n <= MaxBytes, MaxBytes \in Nat
  PROVE  Span(from, n) \in Seq(Bytes) /\ Len(Span(from, n)) = n
<1>1. \A i \in 1..n : from + i \in Bytes
  BY DEF Bytes
<1> QED BY <1>1, SpanProperties

(* The probe reads on.                                                      *)
LEMMA ProbeReadInv == AsyncInv /\ ProbeRead => AsyncInv'
<1> SUFFICES ASSUME AsyncInv, ProbeRead PROVE AsyncInv'
  OBVIOUS
<1>f. /\ length \in 0..MaxBytes /\ taken \in 0..length /\ MaxBytes \in Nat
      /\ prefix \in Seq(Bytes) /\ Len(prefix) \in Nat /\ ProbeMax \in Nat
      /\ Len(window) \in Nat /\ Len(fed) \in Nat
  BY PipelineFacts
<1>1. /\ task = "probing" /\ task' = "probing" /\ Len(prefix) < ProbeMax
      /\ UNCHANGED <<vars, length, replayed, window, pending, delivered>>
  BY DEF ProbeRead
<1>2. /\ prefix = Span(0, Len(prefix)) /\ taken = Len(prefix) /\ replayed = 0
      /\ Len(fed) + Len(window) + (Len(prefix) - replayed) = taken
  BY <1>1 DEF AsyncInv, InOrder, TaskIsAt
<1>3. PICK n \in Reads(ProbeMax - Len(prefix)) :
        prefix' = prefix \o Span(taken, n) /\ taken' = taken + n
  BY DEF ProbeRead
<1>4. n \in Nat /\ n <= ProbeMax - Len(prefix) /\ taken + n <= length
  BY <1>f, <1>1, <1>3 DEF Reads, AtMost
<1>5. Span(taken, n) \in Seq(Bytes) /\ Len(Span(taken, n)) = n
  <2>1. taken \in Nat /\ taken + n <= MaxBytes
    BY <1>f, <1>4
  <2> QED BY <1>f, <1>4, <2>1, ReadSpan
<1>6. prefix' = Span(0, taken + n) /\ prefix' \in Seq(Bytes) /\ Len(prefix') = taken + n
  <2>1. Span(0, taken) \o Span(0 + taken, n) = Span(0, taken + n)
    <3>1. taken \in Nat
      BY <1>f
    <3> QED BY <1>4, <3>1, SpanJoin
  <2>2. prefix' = Span(0, taken) \o Span(0 + taken, n)
    BY <1>2, <1>3, <1>f
  <2>3. Len(prefix \o Span(taken, n)) = Len(prefix) + n /\ prefix \o Span(taken, n) \in Seq(Bytes)
    BY <1>f, <1>5, ConcatProperties
  <2> QED BY <1>2, <1>3, <2>1, <2>2, <2>3
<1>7. PipeTyped'
  <2>1. taken' \in 0..length' /\ Len(prefix') <= ProbeMax /\ replayed' \in 0..Len(prefix')
    BY <1>f, <1>1, <1>2, <1>3, <1>4, <1>6
  <2> QED BY <1>1, <1>6, <2>1 DEF AsyncInv, PipeTyped
<1>8. InOrder'
  <2>1. fed' = fed /\ fed = Span(0, Len(fed)) /\ window = Span(Len(fed), Len(window))
    BY <1>1 DEF AsyncInv, InOrder, vars
  <2>2. Len(fed) + Len(window) + (Len(prefix') - replayed) = taken'
    BY <1>f, <1>2, <1>3, <1>4, <1>6
  <2>3. prefix' = Span(0, Len(prefix')) /\ taken' = Len(prefix')
    BY <1>3, <1>6
  <2> QED BY <1>1, <2>1, <2>2, <2>3 DEF InOrder
<1>9. TaskIsAt'
  BY <1>1, <1>2, <1>3, <1>6 DEF AsyncInv, TaskIsAt, vars
<1>10. Inv' /\ Settled'
  <2>1. Inv'
    BY <1>1, NextInv DEF AsyncInv
  <2> QED BY <1>1, <2>1 DEF AsyncInv, Settled, vars
<1> QED BY <1>7, <1>8, <1>9, <1>10 DEF AsyncInv

(* The task only moves on: probe, detection, a failed read, the end of a    *)
(* window.                                                                  *)
LEMMA MovesOnInv ==
  AsyncInv /\ (ProbeEnd \/ Detect \/ ReadFails \/ WindowDone \/ UNCHANGED asyncVars)
    => AsyncInv'
<1> SUFFICES ASSUME AsyncInv, ProbeEnd \/ Detect \/ ReadFails \/ WindowDone \/ UNCHANGED asyncVars
             PROVE  AsyncInv'
  OBVIOUS
<1>1. UNCHANGED <<vars, length, taken, prefix, replayed, window, pending, delivered>>
  BY DEF ProbeEnd, Detect, ReadFails, WindowDone, asyncVars, pipe
<1>2. /\ UNCHANGED <<fed, asm, phase>> /\ Inv'
  BY <1>1, NextInv DEF AsyncInv, vars
<1>3. InOrder'
  BY <1>1, <1>2 DEF AsyncInv, InOrder
<1>4. PipeTyped' /\ TaskIsAt'
  <2>1. task' \in Tasks
    BY DEF ProbeEnd, Detect, ReadFails, WindowDone, asyncVars, pipe, Tasks, Final,
           AsyncInv, PipeTyped
  <2>2. PipeTyped'
    BY <1>1, <2>1 DEF AsyncInv, PipeTyped
  <2>3. CASE ProbeEnd
    BY <2>2, <1>1, <1>2, <2>3 DEF ProbeEnd, AsyncInv, TaskIsAt
  <2>4. CASE Detect
    <3>1. Len(window) = 0
      <4>1. /\ Len(fed) \in Nat /\ Len(window) \in Nat /\ Len(prefix) \in Nat
        BY PipelineFacts
      <4>2. /\ taken = Len(prefix) /\ replayed = 0
            /\ Len(fed) + Len(window) + (Len(prefix) - replayed) = taken
        BY <2>4 DEF Detect, AsyncInv, TaskIsAt, InOrder
      <4> QED BY <4>1, <4>2
    <3>2. window = <<>>
      BY <3>1, PipelineFacts, EmptySeq
    <3> QED BY <2>2, <1>1, <1>2, <2>4, <3>2 DEF Detect, AsyncInv, TaskIsAt
  <2>5. CASE ReadFails
    BY <2>2, <1>1, <1>2, <2>5 DEF ReadFails, AsyncInv, TaskIsAt
  <2>6. CASE WindowDone
    BY <2>2, <1>1, <1>2, <2>6 DEF WindowDone, AsyncInv, TaskIsAt
  <2>7. CASE UNCHANGED asyncVars
    BY <2>2, <1>1, <1>2, <2>7 DEF asyncVars, pipe, AsyncInv, TaskIsAt
  <2> QED BY <2>2, <2>3, <2>4, <2>5, <2>6, <2>7
<1>5. Settled'
  <2>1. CASE ReadFails
    <3>1. /\ task \in {"probing", "reading"} /\ task' = "failed" /\ phase = "open"
      BY <2>1 DEF ReadFails, AsyncInv, TaskIsAt
    <3>2. pending = <<>> /\ delivered \o pending = asm.sent /\ asm.sent \in Seq(Bytes)
          /\ delivered \in Seq(Bytes)
      BY <3>1, PipelineFacts DEF AsyncInv, Settled
    <3>3. delivered = asm.sent
      BY <3>2, ConcatEmptySeq
    <3>4. delivered = Span(0, Len(delivered))
      BY <3>1, <3>3, SentIsSpan
    <3>5. Len(asm.sent) - Len(delivered) = 0
      BY <3>2, <3>3, LenProperties
    <3> QED BY <1>1, <1>2, <3>1, <3>2, <3>4, <3>5 DEF Settled
  <2>2. CASE ProbeEnd \/ Detect \/ WindowDone
    BY <1>1, <1>2, <2>2 DEF ProbeEnd, Detect, WindowDone, AsyncInv, Settled
  <2>3. CASE UNCHANGED asyncVars
    BY <1>1, <1>2, <2>3 DEF asyncVars, pipe, AsyncInv, Settled
  <2> QED BY <2>1, <2>2, <2>3
<1> QED BY <1>2, <1>3, <1>4, <1>5 DEF AsyncInv

(* The replay gives back the prefix, the reader what follows it.            *)
LEMMA ReadInv == AsyncInv /\ (ReplayRead \/ InnerRead) => AsyncInv'
<1> SUFFICES ASSUME AsyncInv, ReplayRead \/ InnerRead PROVE AsyncInv'
  OBVIOUS
<1>f. /\ length \in 0..MaxBytes /\ taken \in 0..length /\ MaxBytes \in Nat
      /\ Len(prefix) \in Nat /\ WindowMax \in Nat \ {0}
      /\ replayed \in 0..Len(prefix) /\ Len(fed) \in Nat
  BY PipelineFacts
<1>1. /\ task = "reading" /\ task' = "pushing" /\ window = <<>> /\ phase = "open"
      /\ UNCHANGED <<vars, length, prefix, pending, delivered>>
  BY DEF ReplayRead, InnerRead, AsyncInv, TaskIsAt
<1>2. UNCHANGED <<fed, asm, phase>> /\ Inv'
  BY <1>1, NextInv DEF AsyncInv, vars
<1>3. /\ fed = Span(0, Len(fed)) /\ prefix = Span(0, Len(prefix)) /\ Len(window) = 0
      /\ Len(fed) + (Len(prefix) - replayed) = taken
      /\ replayed < Len(prefix) => taken = Len(prefix)
  <2>1. Len(window) = 0
    BY <1>1, EmptySeq
  <2>2. /\ fed = Span(0, Len(fed)) /\ prefix = Span(0, Len(prefix))
        /\ Len(fed) + Len(window) + (Len(prefix) - replayed) = taken
        /\ replayed < Len(prefix) => taken = Len(prefix)
    BY DEF AsyncInv, InOrder
  <2>3. Len(fed) + (Len(prefix) - replayed) = taken
    BY <1>f, <2>1, <2>2
  <2> QED BY <2>1, <2>2, <2>3
<1>4. \E n \in Nat : /\ window' = Span(Len(fed), n) /\ window' \in Seq(Bytes)
                     /\ Len(window') = n /\ n <= WindowMax
                     /\ replayed' \in 0..Len(prefix) /\ taken' \in 0..length
                     /\ Len(fed) + n + (Len(prefix) - replayed') = taken'
                     /\ replayed' < Len(prefix) => taken' = Len(prefix)
  <2>1. CASE ReplayRead
    <3> DEFINE n == AtMost(WindowMax, Len(prefix) - replayed)
    <3>1. /\ replayed < Len(prefix) /\ window' = SubSeq(prefix, replayed + 1, replayed + n)
          /\ replayed' = replayed + n /\ taken' = taken
      BY <2>1 DEF ReplayRead
    <3>2. n \in Nat /\ n <= WindowMax /\ replayed + n <= Len(prefix)
      BY <1>f, <3>1 DEF AtMost
    <3> HIDE DEF n
    <3>3. Len(fed) = replayed /\ replayed \in Nat
      BY <1>f, <1>3, <3>1
    <3>4. window' = Span(0 + replayed, n)
      <4>1. \A p, r, k \in Nat : r + k <= p => SubSeq(Span(0, p), r + 1, r + k) = Span(0 + r, k)
        BY SpanPart
      <4>2. SubSeq(Span(0, Len(prefix)), replayed + 1, replayed + n) = Span(0 + replayed, n)
        BY <1>f, <3>2, <3>3, <4>1
      <4> QED BY <1>3, <3>1, <4>2
    <3>5. window' = Span(Len(fed), n)
      BY <3>3, <3>4
    <3>6. window' \in Seq(Bytes) /\ Len(window') = n
      <4>1. Len(fed) + n <= MaxBytes
        BY <1>f, <1>3, <3>1, <3>2, <3>3
      <4> QED BY <1>f, <3>2, <3>5, <4>1, ReadSpan
    <3>7. /\ replayed' \in 0..Len(prefix) /\ taken' \in 0..length
          /\ Len(fed) + n + (Len(prefix) - replayed') = taken'
          /\ taken' = Len(prefix)
      BY <1>f, <1>3, <3>1, <3>2, <3>3
    <3> QED BY <3>2, <3>5, <3>6, <3>7
  <2>2. CASE InnerRead
    <3>1. PICK n \in Reads(WindowMax) :
            /\ replayed = Len(prefix) /\ replayed' = replayed
            /\ window' = Span(taken, n) /\ taken' = taken + n
      BY <2>2 DEF InnerRead
    <3>2. n \in Nat /\ n <= WindowMax /\ taken + n <= length
      BY <1>f, <3>1 DEF Reads, AtMost
    <3>3. Len(fed) = taken
      BY <1>f, <1>3, <3>1
    <3>4. window' \in Seq(Bytes) /\ Len(window') = n
      <4>1. taken + n <= MaxBytes /\ taken \in Nat
        BY <1>f, <3>2
      <4> QED BY <1>f, <3>1, <3>2, <4>1, ReadSpan
    <3>5. /\ replayed' \in 0..Len(prefix) /\ taken' \in 0..length
          /\ Len(fed) + n + (Len(prefix) - replayed') = taken'
          /\ ~(replayed' < Len(prefix))
      BY <1>f, <3>1, <3>2, <3>3
    <3> QED BY <3>1, <3>2, <3>3, <3>4, <3>5
  <2> QED BY <2>1, <2>2
<1>5. PICK n \in Nat : /\ window' = Span(Len(fed), n) /\ window' \in Seq(Bytes)
                     /\ Len(window') = n /\ n <= WindowMax
                     /\ replayed' \in 0..Len(prefix) /\ taken' \in 0..length
                     /\ Len(fed) + n + (Len(prefix) - replayed') = taken'
                     /\ (replayed' < Len(prefix) => taken' = Len(prefix))
  BY <1>4
<1>6. PipeTyped'
  <2>1. task' \in Tasks
    BY <1>1 DEF Tasks
  <2>2. /\ window' \in Seq(Bytes) /\ Len(window') <= WindowMax
        /\ replayed' \in 0..Len(prefix) /\ taken' \in 0..length
    BY <1>5
  <2> QED BY <1>1, <2>1, <2>2 DEF AsyncInv, PipeTyped
<1>7. InOrder'
  BY <1>1, <1>2, <1>3, <1>5 DEF InOrder
<1>8. TaskIsAt' /\ Settled'
  BY <1>1, <1>2 DEF AsyncInv, TaskIsAt, Settled
<1> QED BY <1>2, <1>6, <1>7, <1>8 DEF AsyncInv

(* The end of a read leaves nothing to yield, or one chunk.                 *)
LEMMA KeptOne ==
  ASSUME NEW a, NEW base, a.out \in Seq(Seq(Bytes)), base \in Seq(Bytes),
         Accounted(base, a, Bytes), ~(Len(a.out) > 1)
  PROVE  \/ a.out = <<>> /\ base \o <<>> = a.sent
         \/ a.out # <<>> /\ a.out[1] \in Seq(Bytes) /\ base \o a.out[1] = a.sent
<1>1. Len(a.out) <= 1
  BY LenProperties
<1>2. CASE a.out = <<>> /\ a.sent = base
  BY <1>2, ConcatEmptySeq
<1>3. ASSUME NEW c \in Seq(Bytes), a.out = <<c>>, a.sent = base \o c
      PROVE  a.out # <<>> /\ a.out[1] \in Seq(Bytes) /\ base \o a.out[1] = a.sent
  BY <1>3
<1> QED BY <1>1, <1>2, <1>3, AccountOfOne

(* One byte of the window.                                                  *)
LEMMA PushNextInv == AsyncInv /\ PushNext => AsyncInv'
<1> SUFFICES ASSUME AsyncInv, PushNext PROVE AsyncInv'
  OBVIOUS
<1>1. /\ task = "pushing" /\ window # <<>> /\ PushByte(Head(window))
      /\ window' = Tail(window) /\ Kept("pushing", "yielding")
      /\ UNCHANGED <<length, taken, prefix, replayed, delivered>>
  BY DEF PushNext
<1>2. /\ Head(window) = Len(fed) + 1
      /\ Tail(window) = Span(Len(fed) + 1, Len(window) - 1)
      /\ Len(Tail(window)) = Len(window) - 1 /\ Tail(window) \in Seq(Bytes)
      /\ Len(window) \in Nat \ {0} /\ Len(fed) \in Nat
  BY <1>1, NextOfWindow
<1>3. PushByte(Len(fed) + 1)
  BY <1>1, <1>2
<1>4. Inv' /\ phase = "open" /\ phase' = "open"
  <2>1. Inv'
    BY <1>3, NextInv DEF AsyncInv, Next
  <2>2. phase = "open" /\ phase' = phase
    BY <1>3 DEF PushByte, Accept
  <2> QED BY <2>1, <2>2
<1>5. fed' = Append(fed, Len(fed) + 1)
  BY <1>3 DEF PushByte, Accept
<1>6. /\ asm'.out \in Seq(Seq(Bytes)) /\ asm'.sent \in Seq(Bytes) /\ Len(asm'.out) <= 1
      /\ fed' \in Seq(Bytes)
  BY <1>4 DEF Inv, TypeOK, Assemblers
<1>7. Accounted(asm.sent, asm', Bytes)
  BY <1>3, PushByteAccount DEF AsyncInv
<1>8. /\ pending = <<>> /\ delivered = asm.sent /\ delivered \in Seq(Bytes)
  <2>1. /\ pending = <<>> /\ delivered \o pending = asm.sent
    BY <1>1 DEF AsyncInv, Settled
  <2> QED BY <2>1, PipelineFacts, ConcatEmptySeq
<1>9. /\ task' \in {"pushing", "yielding"} /\ pending' \in Seq(Bytes)
      /\ delivered \o pending' = asm'.sent /\ (task' = "pushing" => pending' = <<>>)
  <2>1. ~(Len(asm'.out) > 1)
    BY <1>6, LenProperties
  <2>2. IF asm'.out = <<>> THEN task' = "pushing" /\ pending' = <<>>
        ELSE task' = "yielding" /\ pending' = asm'.out[1]
    BY <1>1, <2>1 DEF Kept
  <2>3. \/ asm'.out = <<>> /\ delivered \o <<>> = asm'.sent
        \/ /\ asm'.out # <<>> /\ asm'.out[1] \in Seq(Bytes)
           /\ delivered \o asm'.out[1] = asm'.sent
    BY <1>6, <1>7, <1>8, <2>1, KeptOne
  <2> QED BY <2>2, <2>3, EmptySeq
<1>10. InOrder'
  <2>1. /\ fed = Span(0, Len(fed)) /\ prefix = Span(0, Len(prefix))
        /\ Len(fed) + Len(window) + (Len(prefix) - replayed) = taken
        /\ replayed < Len(prefix) => taken = Len(prefix)
    BY DEF AsyncInv, InOrder
  <2>2. Len(fed') = Len(fed) + 1
    BY <1>5, <1>2, <1>6, PipelineFacts, AppendProperties
  <2>3. fed' = Span(0, Len(fed) + 1)
    <3>1. \A n \in Nat : Append(Span(0, n), 0 + n + 1) = Span(0, n + 1)
      BY SpanNext
    <3>2. Append(Span(0, Len(fed)), 0 + Len(fed) + 1) = Span(0, Len(fed) + 1)
      BY <1>2, <3>1
    <3>3. 0 + Len(fed) + 1 = Len(fed) + 1
      BY <1>2
    <3> QED BY <1>5, <2>1, <3>2, <3>3
  <2>4. Len(fed') + Len(window') + (Len(prefix) - replayed) = taken
    <3>1. Len(window') = Len(window) - 1
      BY <1>1, <1>2
    <3>2. Len(prefix) \in Nat /\ replayed \in 0..Len(prefix)
      BY PipelineFacts
    <3> QED BY <1>2, <2>1, <2>2, <3>1, <3>2
  <2>5. window' = Span(Len(fed'), Len(window'))
    BY <1>1, <1>2, <2>2
  <2> QED BY <1>1, <2>1, <2>2, <2>3, <2>4, <2>5 DEF InOrder
<1>11. PipeTyped'
  <2>1. Len(window') <= WindowMax
    BY <1>1, <1>2, PipelineFacts
  <2> QED BY <1>1, <1>2, <1>9, <2>1 DEF AsyncInv, PipeTyped, Tasks
<1>12. TaskIsAt'
  BY <1>4, <1>9 DEF TaskIsAt
<1>13. Settled'
  BY <1>1, <1>9 DEF Settled
<1> QED BY <1>4, <1>10, <1>11, <1>12, <1>13 DEF AsyncInv

(* The chunker refuses the byte: the chunk it completed before is lost.     *)
LEMMA PushFailsInv == AsyncInv /\ PushFails => AsyncInv'
<1> SUFFICES ASSUME AsyncInv, PushFails PROVE AsyncInv'
  OBVIOUS
<1>1. /\ task = "pushing" /\ task' = "failed" /\ pending' = <<>> /\ PushFault
      /\ UNCHANGED <<length, taken, prefix, replayed, window, delivered>>
  BY DEF PushFails
<1>2. Inv' /\ fed' = fed /\ phase = "open"
  BY <1>1, NextInv DEF AsyncInv, Next, PushFault
<1>3. Accounted(asm.sent, asm', Bytes)
  BY <1>1, PushFaultAccount DEF AsyncInv
<1>4. /\ delivered = asm.sent /\ delivered \in Seq(Bytes)
  <2>1. /\ pending = <<>> /\ delivered \o pending = asm.sent
    BY <1>1 DEF AsyncInv, Settled
  <2> QED BY <2>1, PipelineFacts, ConcatEmptySeq
<1>5. asm'.out \in Seq(Seq(Bytes)) /\ Len(asm'.out) <= 1 /\ asm.sent \in Seq(Bytes)
  <2>1. asm'.out \in Seq(Seq(Bytes)) /\ (phase' # "ended" => Len(asm'.out) <= 1)
    BY <1>2 DEF Inv, TypeOK, Assemblers
  <2> QED BY <1>1, <2>1, PipelineFacts DEF PushFault
<1>6. delivered = Span(0, Len(delivered))
  BY <1>2, <1>4, SentIsSpan
<1>7. LET lost == Len(asm'.sent) - Len(delivered) IN
      lost = 0 \/ (Len(asm'.out) = 1 /\ lost = Len(asm'.out[1]))
  <2>1. CASE asm'.out = <<>> /\ asm'.sent = asm.sent
    BY <1>4, <2>1, LenProperties
  <2>2. ASSUME NEW c \in Seq(Bytes), asm'.out = <<c>>, asm'.sent = asm.sent \o c
        PROVE  Len(asm'.out) = 1 /\ Len(asm'.sent) - Len(delivered) = Len(asm'.out[1])
    <3>1. Len(asm.sent \o c) = Len(asm.sent) + Len(c)
      BY <1>5, ConcatProperties
    <3>2. Len(asm.sent) \in Nat /\ Len(c) \in Nat
      BY <1>5, LenProperties
    <3> QED BY <1>4, <2>2, <3>1, <3>2
  <2> QED BY <1>3, <1>5, <2>1, <2>2, AccountOfOne
<1>8. PipeTyped' /\ InOrder' /\ TaskIsAt'
  <2>1. PipeTyped'
    BY <1>1, EmptySeq DEF AsyncInv, PipeTyped, Tasks, Final
  <2>2. InOrder'
    BY <1>1, <1>2 DEF AsyncInv, InOrder
  <2>3. TaskIsAt'
    BY <1>1 DEF TaskIsAt
  <2> QED BY <2>1, <2>2, <2>3
<1>9. Settled'
  BY <1>1, <1>6, <1>7 DEF Settled
<1> QED BY <1>2, <1>8, <1>9 DEF AsyncInv

(* The reader is at its end.                                                *)
LEMMA EndOfInputInv == AsyncInv /\ EndOfInput => AsyncInv'
<1> SUFFICES ASSUME AsyncInv, EndOfInput PROVE AsyncInv'
  OBVIOUS
<1>1. /\ task = "reading" /\ replayed = Len(prefix) /\ taken = length
      /\ UNCHANGED <<length, taken, prefix, replayed, window, delivered>>
      /\ window = <<>> /\ phase = "open"
  BY DEF EndOfInput, AsyncInv, TaskIsAt
<1>2. Inv' /\ fed' = fed
  BY NextInv DEF AsyncInv, Next, EndOfInput, FinishOk, FinishTruncated
<1>3. /\ delivered = asm.sent /\ delivered \in Seq(Bytes)
  <2>1. /\ pending = <<>> /\ delivered \o pending = asm.sent
    BY <1>1 DEF AsyncInv, Settled
  <2> QED BY <2>1, PipelineFacts, ConcatEmptySeq
<1>4. InOrder'
  BY <1>1, <1>2 DEF AsyncInv, InOrder
<1>5. CASE FinishTruncated /\ task' = "failed" /\ pending' = <<>>
  <2>1. asm'.sent = asm.sent
    BY <1>5, FinishTruncatedSends DEF AsyncInv
  <2>2. delivered = Span(0, Len(delivered)) /\ Len(asm'.sent) - Len(delivered) = 0
    BY <1>1, <1>3, <2>1, SentIsSpan, LenProperties
  <2>3. PipeTyped'
    BY <1>1, <1>5, EmptySeq DEF AsyncInv, PipeTyped, Tasks, Final
  <2>4. TaskIsAt'
    BY <1>5 DEF TaskIsAt
  <2>5. Settled'
    BY <1>1, <1>5, <2>2 DEF Settled
  <2> QED BY <1>2, <1>4, <2>3, <2>4, <2>5 DEF AsyncInv
<1>6. CASE FinishOk /\ Kept("done", "draining")
  <2>1. phase' = "ended" /\ Accounted(asm.sent, asm', Bytes)
    BY <1>6, FinishOkAccount DEF AsyncInv, FinishOk
  <2>2. asm'.out \in Seq(Seq(Bytes)) /\ asm.sent \in Seq(Bytes)
    BY <1>2, PipelineFacts DEF Inv, TypeOK, Assemblers
  <2>3. Len(fed) = length
    <3>1. Len(fed) + Len(window) + (Len(prefix) - replayed) = taken /\ Len(window) = 0
      BY <1>1, EmptySeq DEF AsyncInv, InOrder
    <3> QED BY <1>1, <3>1, PipelineFacts
  <2>4. CASE Len(asm'.out) > 1
    <3>1. task' = "panicked" /\ pending' = asm'.out[1]
      BY <1>6, <2>4 DEF Kept
    <3>2. pending' \in Seq(Bytes)
      <4>1. 1 \in 1..Len(asm'.out)
        BY <2>2, <2>4, LenProperties
      <4> QED BY <2>2, <3>1, <4>1, ElementOfSeq
    <3>3. PipeTyped'
      BY <1>1, <3>1, <3>2 DEF AsyncInv, PipeTyped, Tasks, Final
    <3>4. TaskIsAt' /\ Settled'
      BY <3>1 DEF TaskIsAt, Settled
    <3> QED BY <1>2, <1>4, <3>3, <3>4 DEF AsyncInv
  <2>5. CASE ~(Len(asm'.out) > 1)
    <3>1. IF asm'.out = <<>> THEN task' = "done" /\ pending' = <<>>
          ELSE task' = "draining" /\ pending' = asm'.out[1]
      BY <1>6, <2>5 DEF Kept
    <3>2. \/ asm'.out = <<>> /\ delivered \o <<>> = asm'.sent
          \/ /\ asm'.out # <<>> /\ asm'.out[1] \in Seq(Bytes)
             /\ delivered \o asm'.out[1] = asm'.sent
      BY <1>3, <2>1, <2>2, <2>5, KeptOne
    <3>3. /\ task' \in {"done", "draining"} /\ pending' \in Seq(Bytes)
          /\ delivered \o pending' = asm'.sent /\ (task' = "done" => pending' = <<>>)
      BY <3>1, <3>2, EmptySeq
    <3>4. PipeTyped'
      BY <1>1, <3>3 DEF AsyncInv, PipeTyped, Tasks, Final
    <3>5. TaskIsAt'
      BY <1>1, <1>2, <2>1, <2>3, <3>3 DEF TaskIsAt
    <3>6. Settled'
      BY <1>1, <3>3 DEF Settled
    <3> QED BY <1>2, <1>4, <3>4, <3>5, <3>6 DEF AsyncInv
  <2> QED BY <2>4, <2>5
<1> QED BY <1>5, <1>6 DEF EndOfInput

(* The consumer takes the chunk.                                            *)
LEMMA YieldInv == AsyncInv /\ Yield => AsyncInv'
<1> SUFFICES ASSUME AsyncInv, Yield PROVE AsyncInv'
  OBVIOUS
<1>1. /\ task \in {"yielding", "draining"}
      /\ delivered' = delivered \o pending /\ pending' = <<>>
      /\ task' = IF task = "yielding" THEN "pushing" ELSE "done"
      /\ UNCHANGED <<vars, length, taken, prefix, replayed, window>>
  BY DEF Yield
<1>2. UNCHANGED <<fed, asm, phase>> /\ Inv'
  BY <1>1, NextInv DEF AsyncInv, vars
<1>3. delivered' = asm'.sent /\ delivered' \in Seq(Bytes)
  BY <1>1, <1>2, PipelineFacts DEF AsyncInv, Settled
<1>4. delivered' \o pending' = asm'.sent
  BY <1>1, <1>3, ConcatEmptySeq
<1>5. PipeTyped'
  BY <1>1, <1>3, EmptySeq DEF AsyncInv, PipeTyped, Tasks, Final
<1>6. InOrder'
  BY <1>1, <1>2 DEF AsyncInv, InOrder
<1>7. TaskIsAt'
  BY <1>1, <1>2 DEF AsyncInv, TaskIsAt
<1>8. Settled'
  <2>1. task' # "failed"
    BY <1>1
  <2> QED BY <1>1, <1>4, <2>1 DEF Settled
<1> QED BY <1>2, <1>5, <1>6, <1>7, <1>8 DEF AsyncInv

LEMMA PipelineInvariance == AsyncSpec => []AsyncInv
<1>1. AsyncInv /\ [AsyncNext]_asyncVars => AsyncInv'
  BY ProbeReadInv, MovesOnInv, ReadInv, PushNextInv, PushFailsInv, EndOfInputInv,
     YieldInv DEF AsyncNext, Reader, Generator
<1> QED BY <1>1, AsyncInitInv, PTL DEF AsyncSpec

(* The pipeline uses its chunker as the trait asks: every step of it is a   *)
(* call a chunker may get, so what holds of every chunker holds here.       *)
THEOREM PipelineKeepsTheCalls == AsyncSpec => Spec
<1>1. AsyncInit => Init
  BY DEF AsyncInit
<1> QED BY <1>1, PipelineDrives, PipelineInvariance, PTL DEF AsyncSpec, Spec

(* Whatever the reads give, what was pushed and what waits are together     *)
(* what the reader gave, in order, and no more than one read waits.         *)
THEOREM ReadAheadBounded == AsyncSpec => []ReadAheadIsExact
<1>1. AsyncInv => ReadAheadIsExact
  <2> SUFFICES ASSUME AsyncInv PROVE ReadAheadIsExact
    OBVIOUS
  <2> DEFINE left == Len(prefix) - replayed
             f == Len(fed)
             w == Len(window)
             rest == SubSeq(prefix, replayed + 1, Len(prefix))
  <2>1. /\ fed = Span(0, f) /\ prefix = Span(0, Len(prefix))
        /\ window = Span(f, w) /\ f + w + left = taken
        /\ replayed < Len(prefix) => taken = Len(prefix)
    BY DEF AsyncInv, InOrder
  <2>2. /\ f \in Nat /\ w \in Nat /\ left \in Nat /\ replayed \in Nat /\ taken \in Nat
        /\ Len(prefix) \in Nat /\ replayed + left = Len(prefix)
        /\ Len(prefix) <= ProbeMax /\ w <= WindowMax
        /\ ProbeMax \in Nat /\ WindowMax \in Nat
        /\ window \in Seq(Bytes) /\ fed \in Seq(Bytes)
    BY PipelineFacts
  <2> HIDE DEF left, f, w
  <2>3. rest = Span(f + w, left)
    <3>1. SubSeq(Span(0, Len(prefix)), replayed + 1, replayed + left) = Span(0 + replayed, left)
      <4>1. \A p, r, k \in Nat : r + k <= p => SubSeq(Span(0, p), r + 1, r + k) = Span(0 + r, k)
        BY SpanPart
      <4> QED BY <2>2, <4>1
    <3>2. rest = Span(replayed, left)
      BY <2>1, <2>2, <3>1
    <3>3. CASE left = 0
      <4>1. \A from \in Nat : Span(from, 0) = <<>>
        <5> TAKE from \in Nat
        <5>1. Len(Span(from, 0)) = 0 /\ Span(from, 0) \in Seq(Int)
          BY SpanProperties
        <5> QED BY <5>1, EmptySeq
      <4>2. f + w \in Nat
        BY <2>2
      <4> QED BY <2>2, <3>2, <3>3, <4>1, <4>2
    <3>4. CASE left # 0
      <4>1. replayed = f + w
        BY <2>1, <2>2, <3>4
      <4> QED BY <3>2, <4>1
    <3> QED BY <3>3, <3>4
  <2>4. window \o rest = Span(f, w + left)
    <3>1. Span(f, w) \o Span(f + w, left) = Span(f, w + left)
      BY <2>2, SpanJoin
    <3> QED BY <2>1, <2>3, <3>1
  <2>5. fed \o (window \o rest) = Span(0, taken)
    <3>1. w + left \in Nat /\ f + (w + left) = taken /\ 0 + f = f
      BY <2>1, <2>2
    <3>2. \A m, n \in Nat : Span(0, m) \o Span(0 + m, n) = Span(0, m + n)
      BY SpanJoin
    <3>3. Span(0, f) \o Span(0 + f, w + left) = Span(0, f + (w + left))
      BY <2>2, <3>1, <3>2
    <3> QED BY <2>1, <2>4, <3>1, <3>3
  <2>6. Len(window \o rest) = w + left
    <3>1. w + left \in Nat
      BY <2>2
    <3>2. Len(Span(f, w + left)) = w + left
      BY <2>2, <3>1, SpanProperties
    <3> HIDE DEF rest
    <3> QED BY <2>4, <3>2, Zenon
  <2>7. w + left <= IF ProbeMax > WindowMax THEN ProbeMax ELSE WindowMax
    <3>1. CASE left = 0
      BY <2>2, <3>1
    <3>2. CASE left # 0
      <4>1. f + w = replayed
        BY <2>1, <2>2, <3>2
      <4> QED BY <2>2, <4>1
    <3> QED BY <3>1, <3>2
  <2> QED BY <2>5, <2>6, <2>7 DEF ReadAheadIsExact
<1> QED BY <1>1, PipelineInvariance, PTL

(* A stream that is done has delivered its source to the last byte, one     *)
(* under way every completed chunk but the pending one, and a failed one a  *)
(* prefix of its source, short of at most the chunk of the faulting byte.   *)
THEOREM EveryByteDelivered == AsyncSpec => []DeliversEveryByte
<1>1. AsyncInv => DeliversEveryByte
  <2> SUFFICES ASSUME AsyncInv PROVE DeliversEveryByte
    OBVIOUS
  <2>1. ASSUME task = "done" PROVE delivered = Span(0, length)
    <3>1. /\ pending = <<>> /\ delivered \o pending = asm.sent
          /\ phase = "ended" /\ Len(fed) = length
      BY <2>1 DEF AsyncInv, Settled, TaskIsAt
    <3>2. delivered = asm.sent
      BY <3>1, PipelineFacts, ConcatEmptySeq
    <3>3. asm.sent = fed /\ fed = Span(0, Len(fed))
      BY <3>1 DEF AsyncInv, Inv, InOrder
    <3> QED BY <3>1, <3>2, <3>3
  <2> QED BY <2>1 DEF AsyncInv, Settled, DeliversEveryByte
<1> QED BY <1>1, PipelineInvariance, PTL
==============================================================================
