--------------------------- MODULE PdfWalkerProofs ---------------------------
(***************************************************************************)
(* The safety of the PDF walker, for every keyword, every set of lengths   *)
(* and documents of any length: what ends a payload, what counts it and    *)
(* what ends a document.                                                   *)
(***************************************************************************)
EXTENDS PdfWalker, SequenceTheorems, WellFoundedInduction, TLAPS

(***************************************************************************)
(* Steps outside objects.                                                  *)
(***************************************************************************)
Outside == {"magic", "headerLine", "item", "comment", "objHeader", "xrefLine",
            "xrefEntries", "trailer", "startxrefLine"}

Firsts == {Keyword[k] : k \in DOMAIN Keyword}

\* A keyword under way began with a letter some keyword begins with.
Keyed == state.kind = "itemKeyword" => state.first \in Firsts

\* The walker stands outside objects, or where it stood.
Away ==
  /\ \/ state'.kind \in Outside
     \/ state'.kind = "itemKeyword" /\ state'.first \in Firsts
     \/ state' = state
  /\ UNCHANGED <<words, tail, seen>>

\* What the end of a document depends on stays, or the walk fails.
Silent ==
  \/ UNCHANGED <<eofLast, status, last>>
  \/ status' \in Faults /\ UNCHANGED <<eofLast, last>>

LEMMA KeywordLetters ==
  /\ Keyword.xref = "x" /\ Keyword.trailer = "t" /\ Keyword.startxref = "s"
  /\ Firsts = {"x", "t", "s"}
<1>1. Keyword.xref = "x" /\ Keyword.trailer = "t" /\ Keyword.startxref = "s"
  BY DEF Keyword
<1>2. DOMAIN Keyword = {"xref", "trailer", "startxref"}
  BY DEF Keyword
<1>3. /\ Keyword["xref"] = "x" /\ Keyword["trailer"] = "t" /\ Keyword["startxref"] = "s"
  BY DEF Keyword
<1>4. Firsts = {"x", "t", "s"}
  BY <1>2, <1>3 DEF Firsts
<1> QED BY <1>1, <1>4

(* The kinds of the states outside objects.                                 *)
LEMMA OutsideKinds ==
  /\ \A m : Magic(m).kind \in Outside
  /\ HeaderLine.kind \in Outside /\ Item.kind \in Outside /\ NewLine.kind \in Outside
  /\ \A len, mark : Comment(len, mark).kind \in Outside
  /\ \A ints, digits : ObjHeader(ints, digits).kind \in Outside
  /\ \A len, dark : XrefLine(len, dark).kind \in Outside
  /\ \A n : XrefEntries(n).kind \in Outside
  /\ \A scanner : Trailer(scanner).kind \in Outside
  /\ \A digit : StartxrefLine(digit).kind \in Outside
BY DEF Outside, Magic, HeaderLine, Item, NewLine, Comment, ObjHeader, XrefLine,
       XrefEntries, Trailer, StartxrefLine

LEMMA OutsideSteps ==
  ASSUME Keyed,
         \/ MatchMagic \/ FinishHeaderLine \/ SkipWhite \/ ReadItemKeyword
         \/ CloseXrefLine \/ ReadXrefLine \/ SkipXrefEntries \/ ReadTrailer
         \/ ReadStartxref \/ Done \/ UNCHANGED vars
  PROVE  Away /\ Silent
<1>f. {"NotPdf", "BadKeyword", "XrefGeometry"} \subseteq Faults
  BY DEF Faults
<1>g. ASSUME NEW next, next.kind \in Outside, GoTo(next), UNCHANGED ghosts
      PROVE  Away /\ Silent
  BY <1>g DEF GoTo, ghosts, Away, Silent
<1>h. ASSUME NEW fault \in {"NotPdf", "BadKeyword", "XrefGeometry"}, Refuse(fault)
      PROVE  Away /\ Silent
  BY <1>f, <1>h DEF Refuse, ghosts, Away, Silent
<1>v. ASSUME UNCHANGED vars PROVE Away /\ Silent
  BY <1>v DEF vars, Away, Silent
<1>s. ASSUME GoTo(state), UNCHANGED ghosts PROVE Away /\ Silent
  BY <1>s DEF GoTo, ghosts, Away, Silent
<1>1. CASE MatchMagic
  BY <1>1, <1>g, <1>h, OutsideKinds DEF MatchMagic
<1>2. CASE FinishHeaderLine
  BY <1>2, <1>g, OutsideKinds DEF FinishHeaderLine
<1>3. CASE SkipWhite
  BY <1>3, <1>v DEF SkipWhite
<1>4. CASE ReadItemKeyword
  BY <1>4, <1>g, <1>h, <1>v, OutsideKinds, KeywordLetters
     DEF ReadItemKeyword, Keyed, At
<1>5. CASE CloseXrefLine
  BY <1>5, <1>g, <1>h, OutsideKinds DEF CloseXrefLine, TrailerStates
<1>6. CASE ReadXrefLine
  BY <1>6, <1>g, <1>h, OutsideKinds DEF ReadXrefLine
<1>7. CASE SkipXrefEntries
  BY <1>7, <1>g, OutsideKinds DEF SkipXrefEntries
<1>8. CASE ReadTrailer
  BY <1>8, <1>g, OutsideKinds DEF ReadTrailer
<1>9. CASE ReadStartxref
  BY <1>9, <1>g, <1>h, <1>s, OutsideKinds DEF ReadStartxref
<1>10. CASE Done \/ UNCHANGED vars
  BY <1>10, <1>v DEF Done
<1> QED BY <1>1, <1>2, <1>3, <1>4, <1>5, <1>6, <1>7, <1>8, <1>9, <1>10

(***************************************************************************)
(* The scanner of an object.                                               *)
(***************************************************************************)
Captures == [kind : {"idle", "want", "have"}, value : Nat, after : 0..AfterMax]

Scanners ==
  [token : {"none", "open", "dead"}, name : BOOLEAN, strings : Nat,
   escape : BOOLEAN, hex : BOOLEAN, comment : BOOLEAN, dicts : Nat,
   wasOpen : BOOLEAN, angle : {"none", "<", ">"}, length : Captures]

WordKinds == {"int", "stream", "endobj", "R", "other", "Length", "name", "long", "spent"}

SomeWord == [kind : WordKinds, value : Nat]

LEMMA CaptureTypes ==
  /\ Idle \in Captures /\ WantValue \in Captures
  /\ \A v \in Nat : Have(v, 0) \in Captures
  /\ NewScanner \in Scanners
  /\ AfterMax = 2
<1>1. AfterMax = 2
  BY DEF AfterMax
<1>2. Idle \in Captures /\ WantValue \in Captures /\ \A v \in Nat : Have(v, 0) \in Captures
  BY <1>1 DEF Idle, WantValue, Have, Capture, Captures
<1>3. NewScanner \in Scanners
  <2> HIDE DEF Captures
  <2> QED BY <1>2 DEF NewScanner, Scanners
<1> QED BY <1>1, <1>2, <1>3

LEMMA WordTypes ==
  /\ Names \subseteq SomeWord /\ Bare \subseteq SomeWord
  /\ \A kind \in WordKinds, v \in Nat : Word(kind, v) \in SomeWord
<1>1. \A kind \in WordKinds, v \in Nat : Word(kind, v) \in SomeWord
  BY DEF Word, SomeWord
<1>2. 0 \in Nat /\ \A n \in Lengths : n \in Nat
  BY PdfAssumption
<1>3. {"int", "stream", "endobj", "R", "other", "Length", "name"} \subseteq WordKinds
  BY DEF WordKinds
<1>4. Names \subseteq SomeWord
  BY <1>1, <1>2, <1>3 DEF Names
<1>5. {Number(n) : n \in Lengths} \subseteq SomeWord
  BY <1>1, <1>2, <1>3 DEF Number
<1>6. {Word(kind, 0) : kind \in {"stream", "endobj", "R", "other"}} \subseteq SomeWord
  BY <1>1, <1>2, <1>3
<1> QED BY <1>1, <1>4, <1>5, <1>6 DEF Bare

(* What a token makes of the capture.                                       *)
LEMMA CapturedTyped ==
  ASSUME NEW s, s.length \in Captures, NEW word \in SomeWord
  PROVE  Captured(s, word) \in Captures
<1>1. word.value \in Nat
  BY DEF SomeWord
<1>2. LengthR(s.length) \in Captures
  BY CaptureTypes DEF LengthR
<1>3. LengthToken(s.length, word) \in Captures
  <2>1. CASE s.length.kind = "have" /\ s.length.after < AfterMax
    <3>1. s.length.after + 1 \in 0..AfterMax
      BY <2>1, CaptureTypes DEF Captures
    <3>2. [s.length EXCEPT !.after = @ + 1] \in Captures
      BY <3>1 DEF Captures
    <3> QED BY <1>1, <3>2, CaptureTypes DEF LengthToken
  <2>2. CASE ~(s.length.kind = "have" /\ s.length.after < AfterMax)
    BY <1>1, <2>2, CaptureTypes DEF LengthToken
  <2> QED BY <2>1, <2>2
<1> HIDE DEF Captures
<1> QED BY <1>2, <1>3, CaptureTypes DEF Captured

\* A byte closes no word, or one.
Tells(s, step) ==
  \/ /\ step.words = {} /\ step.scanner.length = s.length
     /\ step.signal \in {"none", "dictClosed"}
  \/ \E word \in SomeWord :
       /\ step.words = {word} /\ step.signal = SignalOf(word)
       /\ step.scanner.length = Captured(s, word)

LEMMA ClosedFields ==
  ASSUME NEW s, NEW signal, NEW ws
  PROVE  /\ Closed(s, signal, ws).scanner = s /\ Closed(s, signal, ws).signal = signal
         /\ Closed(s, signal, ws).words = ws
         /\ Quiet(s).scanner = s /\ Quiet(s).signal = "none" /\ Quiet(s).words = {}
BY DEF Closed, Quiet

(* A byte that closes no word.                                              *)
LEMMA QuietTells ==
  ASSUME NEW s \in Scanners, NEW t \in Scanners, t.length = s.length
  PROVE  Quiet(t).scanner \in Scanners /\ Tells(s, Quiet(t))
BY ClosedFields DEF Tells

LEMMA DelimitedTyped ==
  ASSUME NEW s \in Scanners, NEW byte
  PROVE  Delimited(s, byte) \in Scanners /\ Delimited(s, byte).length = s.length
<1>1. /\ (byte = "/") \in BOOLEAN /\ (byte = "%") \in BOOLEAN
      /\ (IF byte = "(" THEN 1 ELSE 0) \in Nat
      /\ (IF byte \in {"<", ">"} THEN byte ELSE "none") \in {"none", "<", ">"}
  OBVIOUS
<1> HIDE DEF Captures
<1> QED BY <1>1 DEF Delimited, Scanners

LEMMA AtDelimiterTells ==
  ASSUME NEW s \in Scanners, NEW byte, NEW step \in AtDelimiter(s, byte)
  PROVE  step.scanner \in Scanners /\ Tells(s, step)
<1>1. CASE s.token = "none"
  <2>1. step = Quiet(Delimited(s, byte))
    BY <1>1 DEF AtDelimiter
  <2> QED BY <2>1, DelimitedTyped, QuietTells
<1>2. CASE s.token # "none"
  <2>1. PICK word \in WordsOf(s) :
          step = Closed(Delimited([s EXCEPT !.length = Captured(s, word)], byte),
                        SignalOf(word), {word})
    BY <1>2 DEF AtDelimiter
  <2>2. word \in SomeWord
    <3>1. Word("long", 0) \in SomeWord
      <4>1. "long" \in WordKinds /\ 0 \in Nat
        BY DEF WordKinds
      <4> QED BY <4>1, WordTypes
    <3> QED BY <3>1, WordTypes DEF WordsOf
  <2>3. Captured(s, word) \in Captures
    BY <2>2, CapturedTyped DEF Scanners
  <2> DEFINE t == [s EXCEPT !.length = Captured(s, word)]
  <2>4. t \in Scanners /\ t.length = Captured(s, word)
    <3> HIDE DEF Captures
    <3> QED BY <2>3 DEF Scanners
  <2> HIDE DEF t
  <2>5. /\ step.scanner = Delimited(t, byte) /\ step.signal = SignalOf(word)
        /\ step.words = {word}
    BY <2>1, ClosedFields DEF t
  <2> QED BY <2>2, <2>4, <2>5, DelimitedTyped DEF Tells
<1> QED BY <1>1, <1>2

LEMMA StepsTell ==
  ASSUME NEW s \in Scanners, NEW byte \in ObjectBytes, NEW step \in Steps(s, byte)
  PROVE  step.scanner \in Scanners /\ Tells(s, step)
<1> DEFINE a == [s EXCEPT !.comment = (byte \notin LineEnds)]
           b == InString(s, byte)
           c == [s EXCEPT !.hex = (byte # ">")]
           d == OpenDict(s)
           e == [s EXCEPT !.angle = "none", !.hex = (byte # ">")]
           t == [s EXCEPT !.angle = "none"]
           g(token) == [t EXCEPT !.token = token]
<1>1. a \in Scanners /\ a.length = s.length
  <2>1. (byte \notin LineEnds) \in BOOLEAN
    OBVIOUS
  <2> HIDE DEF Captures
  <2> QED BY <2>1 DEF Scanners
<1>2. s.strings > 0 => b \in Scanners /\ b.length = s.length
  <2>1. s.strings \in Nat /\ (s.strings > 0 => s.strings - 1 \in Nat) /\ s.strings + 1 \in Nat
    BY DEF Scanners
  <2>2. (byte = Escape) \in BOOLEAN
    OBVIOUS
  <2> HIDE DEF Captures
  <2> QED BY <2>1, <2>2 DEF InString, Scanners
<1>3. c \in Scanners /\ c.length = s.length /\ e \in Scanners /\ e.length = s.length
  <2>1. (byte # ">") \in BOOLEAN
    OBVIOUS
  <2> HIDE DEF Captures
  <2> QED BY <2>1 DEF Scanners
<1>4. d \in Scanners /\ d.length = s.length
  <2>1. s.dicts + 1 \in Nat
    BY DEF Scanners
  <2> HIDE DEF Captures
  <2> QED BY <2>1 DEF OpenDict, Scanners
<1>5. CloseDict(s).scanner \in Scanners /\ Tells(s, CloseDict(s))
  <2> DEFINE left == IF s.dicts = 0 THEN 0 ELSE s.dicts - 1
             r == [s EXCEPT !.angle = "none", !.dicts = left]
             signal == IF left = 0 /\ s.wasOpen THEN "dictClosed" ELSE "none"
  <2>1. left \in Nat
    BY DEF Scanners
  <2>2. CloseDict(s) = Closed(r, signal, {})
    BY DEF CloseDict
  <2>3. signal \in {"none", "dictClosed"}
    OBVIOUS
  <2> HIDE DEF left, Captures, signal
  <2>4. r \in Scanners /\ r.length = s.length
    BY <2>1 DEF Scanners
  <2> HIDE DEF r
  <2> QED BY <2>2, <2>3, <2>4, ClosedFields DEF Tells
<1>6. t \in Scanners /\ t.length = s.length /\ t.dicts = s.dicts
  <2> HIDE DEF Captures
  <2> QED BY DEF Scanners
<1>7. ASSUME NEW token \in Grown(t.token)
      PROVE  g(token) \in Scanners /\ g(token).length = s.length
  <2>1. token \in {"none", "open", "dead"}
    BY <1>6 DEF Grown, Scanners
  <2> HIDE DEF Captures, t
  <2> QED BY <1>6, <2>1 DEF Scanners
<1>8. ASSUME step \in AtDelimiter(t, byte) PROVE step.scanner \in Scanners /\ Tells(s, step)
  <2>1. step.scanner \in Scanners /\ Tells(t, step)
    BY <1>6, <1>8, AtDelimiterTells
  <2>2. \A word : Captured(t, word) = Captured(s, word)
    BY <1>6 DEF Captured
  <2> HIDE DEF t
  <2> QED BY <1>6, <2>1, <2>2 DEF Tells
<1>9. \/ step = Quiet(a)
      \/ s.strings > 0 /\ step = Quiet(b)
      \/ step = Quiet(c) \/ step = Quiet(d) \/ step = Quiet(e)
      \/ step = CloseDict(s)
      \/ step \in AtDelimiter(t, byte)
      \/ \E token \in Grown(t.token) : step = Quiet(g(token))
  <2> HIDE DEF a, b, c, d, e, t
  <2> QED BY Zenon DEF Steps, a, b, c, d, e, t
<1> HIDE DEF a, b, c, d, e, t, g
<1> QED BY <1>1, <1>2, <1>3, <1>4, <1>5, <1>7, <1>8, <1>9, QuietTells

(***************************************************************************)
(* The end of a payload.                                                   *)
(***************************************************************************)
(* Every non-empty set of numbers has a least one.                          *)
LEMMA LeastNat ==
  ASSUME NEW T \in SUBSET Nat, T # {}
  PROVE  Min(T) \in T /\ \A y \in T : Min(T) <= y
<1> DEFINE R == OpToRel(<, Nat)
<1>1. IsWellFoundedOn(R, Nat)
  BY NatLessThanWellFounded
<1>2. \A x, y \in Nat : x < y => <<x, y>> \in R
  BY DEF OpToRel
<1> HIDE DEF R
<1>3. PICK x \in T : \A y \in T : ~ (<<y, x>> \in R)
  BY <1>1, WFMin
<1>4. ASSUME NEW y \in T PROVE x <= y
  <2>1. x \in Nat /\ y \in Nat /\ ~(y < x)
    BY <1>2, <1>3
  <2> QED BY <2>1
<1> QED BY <1>4 DEF Min

(* A prefix, element by element.                                            *)
LEMMA PrefixElements ==
  ASSUME NEW S, NEW x \in Seq(S), NEW y \in Seq(S)
  PROVE  IsPrefix(x, y) <=> Len(x) <= Len(y) /\ \A i \in 1..Len(x) : x[i] = y[i]
<1>1. PICK n \in Nat, m \in Nat : n = Len(x) /\ m = Len(y)
  BY LenProperties
<1>2. \A i \in 1..n : x[i] \in S
  BY <1>1, ElementOfSeq
<1>3. \A i \in 1..m : y[i] \in S
  BY <1>1, ElementOfSeq
<1>4. ASSUME n <= m
      PROVE  SubSeq(x, 1, n) = SubSeq(y, 1, n) <=> \A i \in 1..n : x[i] = y[i]
  <2> DEFINE a == SubSeq(x, 1, n)
             b == SubSeq(y, 1, n)
  <2>1. \A i \in 1..n : y[i] \in S
    BY <1>3, <1>4
  <2>2. a \in Seq(S) /\ Len(a) = n /\ \A i \in 1..n : a[i] = x[i]
    BY <1>1, <1>2, SubSeqProperties
  <2>3. b \in Seq(S) /\ Len(b) = n /\ \A i \in 1..n : b[i] = y[i]
    BY <1>1, <1>4, <2>1, SubSeqProperties
  <2> HIDE DEF a, b
  <2>4. a = b <=> \A i \in 1..n : a[i] = b[i]
    BY <2>2, <2>3, SeqEqual
  <2>5. a = b <=> \A i \in 1..n : x[i] = y[i]
    BY <2>2, <2>3, <2>4
  <2> QED BY <2>5 DEF a, b
<1> QED BY <1>1, <1>4 DEF IsPrefix

(* The end of a sequence behind its first `n` elements.                     *)
LEMMA TailFrom ==
  ASSUME NEW S, NEW s \in Seq(S), NEW n \in 0..Len(s)
  PROVE  /\ SubSeq(s, n + 1, Len(s)) \in Seq(S)
         /\ Len(SubSeq(s, n + 1, Len(s))) = Len(s) - n
         /\ \A i \in 1..(Len(s) - n) : SubSeq(s, n + 1, Len(s))[i] = s[n + i]
<1>1. PICK m \in Nat : m = Len(s)
  BY LenProperties
<1>2. \A i \in 1..m : s[i] \in S
  BY <1>1, ElementOfSeq
<1>3. n \in 0..m /\ \A i \in (n + 1)..m : s[i] \in S
  BY <1>1, <1>2
<1> DEFINE t == SubSeq(s, n + 1, m)
<1>4. /\ t \in Seq(S)
      /\ Len(t) = IF n + 1 <= m THEN m - (n + 1) + 1 ELSE 0
      /\ \A i \in 1..m - (n + 1) + 1 : t[i] = s[n + 1 + i - 1]
  <2>1. n + 1 \in Int /\ n + 1 >= 1 /\ m \in Nat /\ m <= Len(s)
    BY <1>1, <1>3
  <2> QED BY <1>1, <1>3, <2>1, SubSeqProperties
<1> HIDE DEF t
<1>5. Len(t) = m - n
  BY <1>3, <1>4
<1>6. ASSUME NEW i \in 1..(m - n) PROVE t[i] = s[n + i]
  <2>1. i \in 1..m - (n + 1) + 1 /\ n + 1 + i - 1 = n + i
    BY <1>3
  <2> QED BY <1>4, <2>1
<1> QED BY <1>1, <1>4, <1>5, <1>6 DEF t

\* The last `n` bytes are the first letters of the keyword.
EndsWith(bytes, n) ==
  /\ n <= Len(bytes)
  /\ \A i \in 1..n : bytes[(Len(bytes) - n) + i] = Endstream[i]

LEMMA KeywordFacts ==
  /\ Endstream \in Seq(PayloadBytes) /\ Len(Endstream) \in Nat \ {0}
  /\ Endstream # <<>> /\ \A i \in 1..Len(Endstream) : Endstream[i] \in PayloadBytes
<1>1. /\ Endstream \in Seq(STRING) /\ Len(Endstream) > 0 /\ Len(Endstream) \in Nat
      /\ DOMAIN Endstream = 1..Len(Endstream)
  BY PdfAssumption, LenProperties
<1>2. \A i \in 1..Len(Endstream) : Endstream[i] \in PayloadBytes
  BY <1>1 DEF PayloadBytes, Range
<1>3. Endstream \in Seq(PayloadBytes)
  <2>1. Endstream = [i \in 1..Len(Endstream) |-> Endstream[i]]
    BY <1>1
  <2> QED BY <1>1, <1>2, <2>1, SeqDef
<1> QED BY <1>1, <1>2, <1>3, EmptySeq

(* The ghost keeps every end of the payload that begins the keyword.        *)
LEMMA ScannedEnds ==
  ASSUME tail \in Seq(PayloadBytes), NEW byte \in PayloadBytes, Scanned(byte),
         NEW m \in 0..Len(Endstream), EndsWith(Append(tail, byte), m)
  PROVE  /\ tail' \in Seq(PayloadBytes) /\ EndsWith(tail', m)
         /\ m = Len(Endstream) => tail' = Endstream
<1> DEFINE bytes == Append(tail, byte)
           Ends == {n \in 0..Len(bytes) :
                      IsPrefix(SubSeq(bytes, n + 1, Len(bytes)), Endstream)}
<1>1. bytes \in Seq(PayloadBytes)
  BY AppendProperties
<1>2. PICK b \in Nat, e \in Nat : b = Len(bytes) /\ e = Len(Endstream)
  BY <1>1, KeywordFacts, LenProperties
<1>3. tail' = SubSeq(bytes, Min(Ends) + 1, Len(bytes))
  BY DEF Scanned
<1>m. m \in 0..e /\ m <= b /\ \A i \in 1..m : bytes[(b - m) + i] = Endstream[i]
  BY <1>2 DEF EndsWith
<1>t. bytes = Append(tail, byte)
  OBVIOUS
<1> HIDE DEF bytes
<1>4. b - m \in Ends
  <2> DEFINE k == b - m
             x == SubSeq(bytes, k + 1, Len(bytes))
  <2>1. k \in 0..b /\ b - k = m
    BY <1>m
  <2> HIDE DEF k
  <2>2. x \in Seq(PayloadBytes) /\ Len(x) = m /\ \A i \in 1..m : x[i] = bytes[k + i]
    BY <1>1, <1>2, <2>1, TailFrom
  <2>3. \A i \in 1..m : x[i] = Endstream[i]
    <3>1. \A i \in 1..m : bytes[k + i] = Endstream[i]
      BY <1>m DEF k
    <3> QED BY <2>2, <3>1
  <2> HIDE DEF x
  <2>4. IsPrefix(x, Endstream)
    <3>1. Len(x) <= Len(Endstream)
      BY <1>2, <1>m, <2>2
    <3> QED BY <2>2, <2>3, <3>1, KeywordFacts, PrefixElements
  <2> QED BY <1>2, <2>1, <2>4 DEF k, x
<1>5. Ends \in SUBSET Nat /\ Ends # {}
  <2>1. Ends \subseteq Nat
    BY <1>2
  <2> HIDE DEF Ends
  <2> QED BY <1>4, <2>1
<1>6. PICK n \in 0..b : /\ n = Min(Ends) /\ n <= b - m
                        /\ IsPrefix(SubSeq(bytes, n + 1, Len(bytes)), Endstream)
  <2>1. Min(Ends) \in Ends /\ Min(Ends) <= b - m
    <3> HIDE DEF Ends
    <3> QED BY <1>4, <1>5, LeastNat
  <2> QED BY <1>2, <2>1
<1> HIDE DEF Ends
<1> DEFINE u == SubSeq(bytes, n + 1, Len(bytes))
<1>7. u \in Seq(PayloadBytes) /\ Len(u) = b - n /\ \A i \in 1..(b - n) : u[i] = bytes[n + i]
  BY <1>1, <1>2, TailFrom
<1>8. tail' = u
  BY <1>3, <1>6
<1>9. IsPrefix(u, Endstream)
  BY <1>6
<1> HIDE DEF u
<1>10. Len(u) <= e /\ \A i \in 1..Len(u) : u[i] = Endstream[i]
  BY <1>2, <1>7, <1>9, KeywordFacts, PrefixElements
<1>11. EndsWith(u, m)
  <2>1. m <= b - n
    BY <1>6, <1>m
  <2>2. ASSUME NEW i \in 1..m PROVE u[((b - n) - m) + i] = Endstream[i]
    <3>1. ((b - n) - m) + i \in 1..(b - n) /\ n + (((b - n) - m) + i) = (b - m) + i
      BY <2>1
    <3> QED BY <1>7, <1>m, <3>1
  <2> QED BY <1>7, <2>1, <2>2 DEF EndsWith
<1>12. m = Len(Endstream) => u = Endstream
  <2> SUFFICES ASSUME m = Len(Endstream) PROVE u = Endstream
    OBVIOUS
  <2>1. b - n = e
    BY <1>2, <1>6, <1>7, <1>10
  <2> QED BY <1>2, <1>7, <1>10, <2>1, KeywordFacts, SeqEqual
<1> QED BY <1>7, <1>8, <1>11, <1>12

(* One more letter matched, the first one, or none.                         *)
LEMMA MatchGrows ==
  ASSUME tail \in Seq(PayloadBytes), NEW byte \in PayloadBytes,
         NEW m \in 0..(Len(Endstream) - 1), EndsWith(tail, m)
  PROVE  /\ byte = Endstream[m + 1] => EndsWith(Append(tail, byte), m + 1)
         /\ byte = Endstream[1] => EndsWith(Append(tail, byte), 1)
         /\ EndsWith(Append(tail, byte), 0)
<1> DEFINE bytes == Append(tail, byte)
<1>1. PICK t \in Nat : t = Len(tail)
  BY LenProperties
<1>2. Len(bytes) = t + 1 /\ bytes[t + 1] = byte /\ \A i \in 1..t : bytes[i] = tail[i]
  BY <1>1, AppendProperties
<1>m. m \in Nat /\ m <= t /\ \A i \in 1..m : tail[(t - m) + i] = Endstream[i]
  BY <1>1, KeywordFacts DEF EndsWith
<1> HIDE DEF bytes
<1>3. ASSUME byte = Endstream[m + 1] PROVE EndsWith(bytes, m + 1)
  <2>1. ASSUME NEW i \in 1..(m + 1) PROVE bytes[((t + 1) - (m + 1)) + i] = Endstream[i]
    <3>1. CASE i = m + 1
      <4>1. ((t + 1) - (m + 1)) + i = t + 1
        BY <1>m, <3>1
      <4> QED BY <1>2, <1>3, <3>1, <4>1
    <3>2. CASE i # m + 1
      <4>1. /\ ((t + 1) - (m + 1)) + i = (t - m) + i /\ i \in 1..m
            /\ (t - m) + i \in 1..t
        BY <1>m, <3>2
      <4> QED BY <1>2, <1>m, <4>1
    <3> QED BY <3>1, <3>2
  <2>2. m + 1 <= t + 1
    BY <1>m
  <2> QED BY <1>2, <2>1, <2>2 DEF EndsWith
<1>4. ASSUME byte = Endstream[1] PROVE EndsWith(bytes, 1)
  <2>1. ASSUME NEW i \in 1..1 PROVE bytes[((t + 1) - 1) + i] = Endstream[i]
    <3>1. i = 1 /\ ((t + 1) - 1) + i = t + 1
      OBVIOUS
    <3> QED BY <1>2, <1>4, <3>1
  <2>2. 1 <= t + 1
    OBVIOUS
  <2> QED BY <1>2, <2>1, <2>2 DEF EndsWith
<1>5. EndsWith(bytes, 0)
  BY <1>2 DEF EndsWith
<1> QED BY <1>3, <1>4, <1>5 DEF bytes

(***************************************************************************)
(* The length of a payload.                                                *)
(***************************************************************************)
\* A value two numbers and R make a reference.
Referred(ws) ==
  Len(ws) > 3 /\ ws[2].kind = "int" /\ ws[3].kind = "int" /\ ws[4].kind = "R"

\* The tentative value, and the numbers behind it.
Valued(length, ws) ==
  /\ length.kind = "have" /\ length.value = ws[2].value
  /\ length.after = 0 => \A i \in 3..Len(ws) : ws[i].kind # "int"
  /\ length.after = 1 =>
       \E j \in 3..Len(ws) :
         \A i \in 3..Len(ws) : ws[i].kind = "int" <=> i = j
  /\ length.after = 2 => Len(ws) > 3

\* What the capture holds behind the words since the last /Length.
Matches(length, ws) ==
  \/ ws = <<>> /\ length = Idle
  \/ Len(ws) = 1 /\ length = WantValue
  \/ Len(ws) > 1 /\ ws[2].kind # "int" /\ length = Idle
  \/ Referred(ws) /\ length = Idle
  \/ Len(ws) > 1 /\ ws[2].kind = "int" /\ ~Referred(ws) /\ Valued(length, ws)

(* The words and one more.                                                  *)
LEMMA OneMoreWord ==
  ASSUME NEW ws \in Seq(SomeWord), NEW x \in SomeWord
  PROVE  /\ Append(ws, x) \in Seq(SomeWord) /\ Len(ws) \in Nat
         /\ Len(Append(ws, x)) = Len(ws) + 1
         /\ Append(ws, x)[Len(ws) + 1] = x
         /\ \A i \in 1..Len(ws) : Append(ws, x)[i] = ws[i]
BY AppendProperties, LenProperties

(* One more word that is no number.                                         *)
LEMMA ValueStays ==
  ASSUME NEW ws \in Seq(SomeWord), NEW x \in SomeWord, NEW length,
         Len(ws) > 1, Valued(length, ws), x.kind # "int"
  PROVE  Valued(length, Append(ws, x))
<1> DEFINE v == Append(ws, x)
<1>1. PICK n \in Nat : n = Len(ws)
  BY LenProperties
<1>2. /\ Len(v) = n + 1 /\ v[n + 1] = x /\ \A i \in 1..n : v[i] = ws[i]
  BY <1>1, OneMoreWord
<1> HIDE DEF v
<1>3. n > 1 /\ v[2] = ws[2]
  <2>1. n > 1 /\ 2 \in 1..n
    BY <1>1
  <2> QED BY <1>2, <2>1
<1>4. \A i \in 3..(n + 1) : (i \in 3..n /\ v[i] = ws[i]) \/ (i = n + 1 /\ v[i] = x)
  <2> TAKE i \in 3..(n + 1)
  <2>1. (i \in 3..n /\ i \in 1..n) \/ i = n + 1
    OBVIOUS
  <2> QED BY <1>2, <2>1
<1>5. length.after = 0 => \A i \in 3..(n + 1) : v[i].kind # "int"
  BY <1>1, <1>4 DEF Valued
<1>6. ASSUME length.after = 1
      PROVE  \E j \in 3..(n + 1) : \A i \in 3..(n + 1) : v[i].kind = "int" <=> i = j
  <2>1. PICK j \in 3..n : \A i \in 3..n : ws[i].kind = "int" <=> i = j
    BY <1>1, <1>6 DEF Valued
  <2>2. j \in 3..(n + 1) /\ j # n + 1
    BY <2>1
  <2>3. \A i \in 3..(n + 1) : v[i].kind = "int" <=> i = j
    BY <1>4, <2>1, <2>2
  <2> QED BY <2>2, <2>3
<1>7. length.after = 2 => n + 1 > 3
  BY <1>1 DEF Valued
<1>8. length.kind = "have" /\ length.value = v[2].value
  BY <1>3 DEF Valued
<1>9. /\ length.after = 0 => \A i \in 3..Len(v) : v[i].kind # "int"
      /\ length.after = 1 =>
           \E j \in 3..Len(v) : \A i \in 3..Len(v) : v[i].kind = "int" <=> i = j
      /\ length.after = 2 => Len(v) > 3
  BY <1>2, <1>5, <1>6, <1>7
<1>10. Valued(length, v)
  BY <1>8, <1>9, Zenon DEF Valued
<1> QED BY <1>10 DEF v

(* One more number.                                                         *)
LEMMA ValueCounts ==
  ASSUME NEW ws \in Seq(SomeWord), NEW x \in SomeWord, NEW word,
         NEW length \in Captures, Len(ws) > 1, Valued(length, ws),
         x.kind = "int", word.kind = "int"
  PROVE  Valued(LengthToken(length, word), Append(ws, x))
<1> DEFINE v == Append(ws, x)
           c == LengthToken(length, word)
<1>1. PICK n \in Nat : n = Len(ws)
  BY LenProperties
<1>2. /\ Len(v) = n + 1 /\ v[n + 1] = x /\ \A i \in 1..n : v[i] = ws[i]
  BY <1>1, OneMoreWord
<1> HIDE DEF v
<1>3. n > 1 /\ v[2] = ws[2]
  <2>1. n > 1 /\ 2 \in 1..n
    BY <1>1
  <2> QED BY <1>2, <2>1
<1>4. \A i \in 3..(n + 1) : (i \in 3..n /\ v[i] = ws[i]) \/ (i = n + 1 /\ v[i] = x)
  <2> TAKE i \in 3..(n + 1)
  <2>1. (i \in 3..n /\ i \in 1..n) \/ i = n + 1
    OBVIOUS
  <2> QED BY <1>2, <2>1
<1>5. length.kind = "have" /\ length.value = ws[2].value /\ length.after \in 0..2
  BY CaptureTypes DEF Valued, Captures
<1>6. CASE length.after = 2
  <2>1. c = length
    BY <1>5, <1>6, CaptureTypes DEF LengthToken
  <2>2. n + 1 > 3
    BY <1>1, <1>6 DEF Valued
  <2>3. c.after # 0 /\ c.after # 1 /\ Len(v) > 3
    BY <1>2, <1>6, <2>1, <2>2
  <2>4. c.kind = "have" /\ c.value = v[2].value
    BY <1>3, <1>5, <2>1
  <2> HIDE DEF c
  <2>5. Valued(c, v)
    BY <2>3, <2>4 DEF Valued
  <2> QED BY <2>5 DEF v, c
<1>7. CASE length.after \in 0..1
  <2>1. c = [length EXCEPT !.after = length.after + 1]
    BY <1>5, <1>7, CaptureTypes DEF LengthToken
  <2>2. c.kind = "have" /\ c.value = ws[2].value /\ c.after = length.after + 1
    <3> HIDE DEF c
    <3> QED BY <1>5, <2>1 DEF Captures
  <2> HIDE DEF c
  <2>3. CASE length.after = 0
    <3>1. c.after = 1
      BY <2>2, <2>3
    <3>2. \A i \in 3..n : ws[i].kind # "int"
      BY <1>1, <2>3 DEF Valued
    <3>3. n + 1 \in 3..(n + 1)
      BY <1>3
    <3>4. \A i \in 3..n : i # n + 1
      OBVIOUS
    <3>5. \A i \in 3..(n + 1) : v[i].kind = "int" <=> i = n + 1
      BY <1>4, <3>2, <3>4
    <3>7. c.after # 0 /\ c.after # 2 /\ c.value = v[2].value
      BY <1>3, <2>2, <3>1
    <3>8. \E j \in 3..Len(v) : \A i \in 3..Len(v) : v[i].kind = "int" <=> i = j
      <4>1. Len(v) = n + 1
        BY <1>2
      <4>2. n + 1 \in 3..Len(v)
        BY <3>3, <4>1
      <4>3. \A i \in 3..Len(v) : v[i].kind = "int" <=> i = n + 1
        <5> TAKE i \in 3..Len(v)
        <5>1. i \in 3..(n + 1)
          BY <4>1
        <5> QED BY <3>5, <5>1
      <4> QED BY <4>2, <4>3, Zenon
    <3>9. Valued(c, v)
      BY <2>2, <3>7, <3>8, Zenon DEF Valued
    <3> QED BY <3>9 DEF v, c
  <2>4. CASE length.after = 1
    <3>1. c.after = 2
      BY <2>2, <2>4
    <3>2. PICK j \in 3..n : TRUE
      BY <1>1, <2>4 DEF Valued
    <3>3. n + 1 > 3
      BY <3>2
    <3>4. c.after # 0 /\ c.after # 1 /\ Len(v) > 3 /\ c.value = v[2].value
      BY <1>2, <1>3, <2>2, <3>1, <3>3
    <3>5. Valued(c, v)
      BY <2>2, <3>4 DEF Valued
    <3> QED BY <3>5 DEF v, c
  <2>5. length.after = 0 \/ length.after = 1
    BY <1>7
  <2> QED BY <2>3, <2>4, <2>5
<1> QED BY <1>5, <1>6, <1>7

(* R behind two numbers: it makes a reference of the value only if these    *)
(* are the value and the one number behind it.                              *)
LEMMA ReferenceIsTold ==
  ASSUME NEW ws \in Seq(SomeWord), NEW length \in Captures, Valued(length, ws),
         Len(ws) >= 3, ws[Len(ws)].kind = "int", ws[Len(ws) - 1].kind = "int"
  PROVE  /\ Len(ws) = 3 => LengthR(length) = Idle
         /\ Len(ws) > 3 => LengthR(length) = length
<1>1. PICK n \in Nat : n = Len(ws)
  BY LenProperties
<1>2. length.kind = "have" /\ length.after \in 0..2
  BY CaptureTypes DEF Valued, Captures
<1>3. length.after # 0
  <2>1. n \in 3..n
    BY <1>1
  <2> QED BY <1>1, <2>1 DEF Valued
<1>4. n = 3 => length.after # 2
  BY <1>1 DEF Valued
<1>5. ASSUME n > 3 PROVE length.after # 1
  <2>1. n \in 3..n /\ n - 1 \in 3..n /\ n # n - 1
    BY <1>5
  <2> QED BY <1>1, <2>1 DEF Valued
<1>6. n = 3 => length.after = 1
  BY <1>2, <1>3, <1>4
<1> QED BY <1>1, <1>2, <1>5, <1>6 DEF LengthR

\* Two numbers stand before every R.
Sound(ws) ==
  \A i \in DOMAIN ws :
    ws[i].kind = "R" => i >= 4 /\ ws[i - 1].kind = "int" /\ ws[i - 2].kind = "int"

(* What was a reference, or was none, is so with one more word.             *)
LEMMA ReferredStays ==
  ASSUME NEW ws \in Seq(SomeWord), NEW x \in SomeWord, Len(ws) > 1
  PROVE  /\ Append(ws, x)[2] = ws[2]
         /\ Referred(ws) => Referred(Append(ws, x))
         /\ ~Referred(ws) /\ (x.kind # "R" \/ Len(ws) > 3) => ~Referred(Append(ws, x))
         /\ Len(ws) = 3 /\ ws[2].kind = "int" /\ ws[3].kind = "int" /\ x.kind = "R"
              => Referred(Append(ws, x))
<1> DEFINE v == Append(ws, x)
<1>1. PICK n \in Nat : n = Len(ws)
  BY LenProperties
<1>2. /\ Len(v) = n + 1 /\ v[n + 1] = x /\ \A i \in 1..n : v[i] = ws[i]
  BY <1>1, OneMoreWord
<1> HIDE DEF v
<1>3. n > 1 /\ v[2] = ws[2]
  <2>1. n > 1 /\ 2 \in 1..n
    BY <1>1
  <2> QED BY <1>2, <2>1
<1>4. /\ n > 3 => v[3] = ws[3] /\ v[4] = ws[4]
      /\ n = 3 => v[3] = ws[3] /\ v[4] = x
  <2>1. n > 3 => 3 \in 1..n /\ 4 \in 1..n
    BY <1>1
  <2>2. n = 3 => 3 \in 1..n /\ n + 1 = 4
    BY <1>1
  <2> QED BY <1>2, <2>1, <2>2
<1>5. /\ n > 3 => Len(v) > 3
      /\ n = 3 => Len(v) > 3
      /\ Len(v) > 3 => n > 3 \/ n = 3
      /\ ~(n = 3 /\ n > 3)
  BY <1>1, <1>2
<1>6. v[2] = ws[2]
  BY <1>3
<1> QED BY <1>1, <1>4, <1>5, <1>6 DEF Referred, v

(* The idle capture hears nothing but a name.                               *)
LEMMA IdleStays ==
  /\ LengthR(Idle) = Idle
  /\ \A word : LengthToken(Idle, word) = Idle
BY DEF Idle, Capture, LengthR, LengthToken

(* The capture follows the words.                                           *)
LEMMA WordMatches ==
  ASSUME NEW s \in Scanners, NEW ws \in Seq(SomeWord), NEW word \in SomeWord,
         NEW x \in SomeWord, Matches(s.length, ws), ws # <<>>,
         word.kind \notin {"stream", "endobj"}, ~(word.kind = "Length" /\ s.dicts = 1),
         x.kind = "int" <=> word.kind = "int", x.kind = "R" <=> word.kind = "R",
         Len(ws) = 1 /\ word.kind = "int" => x = word,
         Sound(Append(ws, x))
  PROVE  Matches(Captured(s, word), Append(ws, x))
<1> DEFINE v == Append(ws, x)
           length == s.length
           c == Captured(s, word)
<1>1. PICK n \in Nat : n = Len(ws)
  BY LenProperties
<1>2. /\ Len(v) = n + 1 /\ v[n + 1] = x /\ \A i \in 1..n : v[i] = ws[i]
  BY <1>1, OneMoreWord
<1>3. n # 0
  BY <1>1, EmptySeq
<1>4. c = IF word.kind = "R" THEN LengthR(length) ELSE LengthToken(length, word)
  BY DEF Captured
<1>5. \/ n = 1 /\ length = WantValue
      \/ n > 1 /\ ws[2].kind # "int" /\ length = Idle
      \/ n > 1 /\ Referred(ws) /\ length = Idle
      \/ n > 1 /\ ws[2].kind = "int" /\ ~Referred(ws) /\ Valued(length, ws)
  BY <1>1 DEF Matches, Referred
<1>6. n > 1 => /\ v[2] = ws[2] /\ (Referred(ws) => Referred(v))
               /\ (~Referred(ws) /\ (x.kind # "R" \/ n > 3) => ~Referred(v))
               /\ (n = 3 /\ ws[2].kind = "int" /\ ws[3].kind = "int" /\ x.kind = "R"
                     => Referred(v))
  BY <1>1, ReferredStays
<1>7. length \in Captures
  BY DEF Scanners
<1>8. Sound(v) /\ v \in Seq(SomeWord)
  BY OneMoreWord
<1>9. n > 1 => Len(v) > 1
  BY <1>1, <1>2
<1> HIDE DEF v, c
<1>a. CASE n > 1 /\ ws[2].kind # "int" /\ length = Idle
  BY <1>4, <1>6, <1>9, <1>a, IdleStays DEF Matches, v, c
<1>b. CASE n > 1 /\ Referred(ws) /\ length = Idle
  BY <1>4, <1>6, <1>b, IdleStays DEF Matches, v, c
<1>r. word.kind = "R" => n >= 3 /\ ws[n].kind = "int" /\ ws[n - 1].kind = "int"
  <2> SUFFICES ASSUME word.kind = "R" PROVE n >= 3 /\ ws[n].kind = "int" /\ ws[n - 1].kind = "int"
    OBVIOUS
  <2>1. DOMAIN v = 1..(n + 1)
    BY <1>2, <1>8, LenProperties
  <2>2. n + 1 >= 4 /\ v[(n + 1) - 1].kind = "int" /\ v[(n + 1) - 2].kind = "int"
    <3>1. n + 1 \in DOMAIN v /\ v[n + 1].kind = "R"
      BY <1>2, <2>1
    <3> QED BY <1>8, <3>1 DEF Sound
  <2>3. n >= 3 /\ (n + 1) - 1 = n /\ (n + 1) - 2 = n - 1 /\ n \in 1..n /\ n - 1 \in 1..n
    BY <2>2
  <2> QED BY <1>2, <2>2, <2>3
<1>c. CASE n = 1 /\ length = WantValue
  <2>1. word.kind # "R"
    BY <1>c, <1>r
  <2>2. Len(v) = 2 /\ v[2] = x
    BY <1>2, <1>c
  <2>3. c = IF word.kind = "int" THEN Have(word.value, 0) ELSE Idle
    BY <1>4, <1>c, <2>1 DEF LengthToken, WantValue, Capture
  <2>4. CASE word.kind = "int"
    <3>1. x = word
      BY <1>1, <1>c, <2>4
    <3>2. c.kind = "have" /\ c.value = v[2].value /\ c.after = 0
      BY <2>2, <2>3, <2>4, <3>1 DEF Have, Capture
    <3>3. \A i \in 3..Len(v) : FALSE
      BY <2>2
    <3>4. Valued(c, v)
      BY <3>2, <3>3 DEF Valued
    <3>5. Len(v) > 1 /\ v[2].kind = "int" /\ ~Referred(v)
      BY <2>2, <2>4 DEF Referred
    <3> QED BY <3>4, <3>5 DEF Matches, v, c
  <2>5. CASE word.kind # "int"
    <3>1. Len(v) > 1 /\ v[2].kind # "int" /\ c = Idle
      BY <2>2, <2>3, <2>5
    <3> QED BY <3>1 DEF Matches, v, c
  <2> QED BY <2>4, <2>5
<1>d. CASE n > 1 /\ ws[2].kind = "int" /\ ~Referred(ws) /\ Valued(length, ws)
  <2>1. Len(v) > 1 /\ v[2].kind = "int"
    BY <1>6, <1>9, <1>d
  <2>2. CASE word.kind = "R"
    <3>1. n >= 3 /\ ws[n].kind = "int" /\ ws[n - 1].kind = "int" /\ x.kind = "R"
      BY <1>r, <2>2
    <3>2. /\ n = 3 => LengthR(length) = Idle
          /\ n > 3 => LengthR(length) = length
      BY <1>1, <1>7, <1>d, <3>1, ReferenceIsTold
    <3>3. CASE n = 3
      <4>1. c = Idle
        BY <1>4, <2>2, <3>2, <3>3
      <4>2. Referred(v)
        BY <1>6, <1>d, <3>1, <3>3
      <4> QED BY <4>1, <4>2 DEF Matches, v, c
    <3>4. CASE n > 3
      <4>1. c = length
        BY <1>4, <2>2, <3>2, <3>4
      <4>2. ~Referred(v)
        BY <1>6, <1>d, <3>4
      <4>3. x.kind # "int"
        BY <3>1
      <4>4. Valued(c, v)
        BY <1>1, <1>d, <4>1, <4>3, ValueStays DEF v
      <4> QED BY <2>1, <4>2, <4>4 DEF Matches, v, c
    <3>5. n = 3 \/ n > 3
      BY <3>1
    <3> QED BY <3>3, <3>4, <3>5
  <2>3. CASE word.kind # "R"
    <3>1. ~Referred(v)
      BY <1>6, <1>d, <2>3
    <3>2. c = LengthToken(length, word)
      BY <1>4, <2>3
    <3>3. Valued(c, v)
      <4>1. CASE word.kind = "int"
        <5>1. x.kind = "int" /\ Len(ws) > 1
          BY <1>1, <1>d, <4>1
        <5>2. Valued(LengthToken(length, word), Append(ws, x))
          BY <1>7, <1>d, <4>1, <5>1, ValueCounts
        <5> QED BY <3>2, <5>2 DEF v
      <4>2. CASE word.kind # "int"
        <5>1. x.kind # "int" /\ Len(ws) > 1
          BY <1>1, <1>d, <4>2
        <5>2. c = length
          BY <1>d, <3>2, <4>2 DEF LengthToken, Valued
        <5> QED BY <1>d, <5>1, <5>2, ValueStays DEF v
      <4> QED BY <4>1, <4>2
    <3> QED BY <2>1, <3>1, <3>3 DEF Matches, v, c
  <2> QED BY <2>2, <2>3
<1> QED BY <1>5, <1>a, <1>b, <1>c, <1>d

\* What is known of the words behind the last /Length, while its object goes on.
LengthInv ==
  /\ words \in Seq(SomeWord)
  /\ state.kind \in {"object", "streamEol"} /\ words # Spent /\ Sound(words) =>
       Matches(state.scanner.length, words)

(* The words without the last one.                                          *)
LEMMA SoundPrefix ==
  ASSUME NEW ws \in Seq(SomeWord), NEW x \in SomeWord, Sound(Append(ws, x))
  PROVE  Sound(ws)
<1> DEFINE v == Append(ws, x)
<1>1. PICK n \in Nat : n = Len(ws)
  BY LenProperties
<1>2. /\ v \in Seq(SomeWord) /\ Len(v) = n + 1 /\ \A i \in 1..n : v[i] = ws[i]
  BY <1>1, OneMoreWord
<1>3. DOMAIN v = 1..(n + 1) /\ DOMAIN ws = 1..n
  BY <1>1, <1>2, LenProperties
<1>4. Sound(v)
  OBVIOUS
<1> HIDE DEF v
<1>5. ASSUME NEW i \in 1..n, ws[i].kind = "R"
      PROVE  i >= 4 /\ ws[i - 1].kind = "int" /\ ws[i - 2].kind = "int"
  <2>1. i \in DOMAIN v /\ v[i].kind = "R"
    BY <1>2, <1>3, <1>5
  <2>2. i >= 4 /\ v[i - 1].kind = "int" /\ v[i - 2].kind = "int"
    BY <1>4, <2>1 DEF Sound
  <2>3. i - 1 \in 1..n /\ i - 2 \in 1..n
    BY <2>2
  <2> QED BY <1>2, <2>2, <2>3
<1> QED BY <1>3, <1>5 DEF Sound

(* What the ghost notes of a word.                                          *)
LEMMA NotedWord ==
  ASSUME NEW word \in SomeWord
  PROVE  /\ Noted(word) \in SomeWord
         /\ Noted(word).kind = "int" <=> word.kind = "int"
         /\ Noted(word).kind = "R" <=> word.kind = "R"
         /\ Len(words) = 1 /\ word.kind = "int" => Noted(word) = word
<1>1. {"int", "R", "other"} \subseteq WordKinds
  BY DEF WordKinds
<1>2. Number(0) \in SomeWord /\ Word("R", 0) \in SomeWord /\ Word("other", 0) \in SomeWord
  BY <1>1, WordTypes DEF Number
<1>3. /\ Number(0).kind = "int" /\ Word("R", 0).kind = "R"
      /\ Word("other", 0).kind = "other"
  BY DEF Number, Word
<1>4. CASE word.kind = "int"
  BY <1>2, <1>3, <1>4 DEF Noted
<1>5. CASE word.kind = "R"
  BY <1>2, <1>3, <1>5 DEF Noted
<1>6. CASE word.kind \notin {"int", "R"}
  BY <1>2, <1>3, <1>6 DEF Noted
<1> QED BY <1>4, <1>5, <1>6

(* A byte inside an object.                                                 *)
LEMMA HeardMatches ==
  ASSUME LengthInv, state.kind = "object", NEW s \in Scanners, s = state.scanner,
         NEW step, Tells(s, step), step.signal \notin {"streamBegins", "objectEnds"},
         words' = Heard(step.words)
  PROVE  /\ words' \in Seq(SomeWord)
         /\ words' # Spent /\ Sound(words') => Matches(step.scanner.length, words')
<1> DEFINE length == step.scanner.length
<1>1. /\ words \in Seq(SomeWord)
      /\ words # Spent /\ Sound(words) => Matches(s.length, words)
  BY DEF LengthInv
<1>2. CASE step.words = {} /\ length = s.length
  <2>1. words' = words
    BY <1>2 DEF Heard
  <2>2. PICK ws \in Seq(SomeWord) :
          ws = words /\ (ws # Spent /\ Sound(ws) => Matches(s.length, ws))
    BY <1>1
  <2>3. ws = words'
    BY <2>1, <2>2
  <2> QED BY <1>2, <2>2, <2>3
<1>3. CASE \E word \in SomeWord :
             /\ step.words = {word} /\ step.signal = SignalOf(word)
             /\ length = Captured(s, word)
  <2>1. PICK word \in SomeWord :
               /\ step.words = {word} /\ step.signal = SignalOf(word)
               /\ length = Captured(s, word)
    BY <1>3
  <2>2. word.kind \notin {"stream", "endobj"}
    BY <2>1 DEF SignalOf
  <2>3. (CHOOSE w \in {word} : TRUE) = word /\ {word} # {}
    OBVIOUS
  <2>4. words' = IF words = Spent THEN words
                 ELSE IF word.kind = "Length" /\ s.dicts = 1 THEN <<word>>
                 ELSE IF words = <<>> THEN <<>> ELSE Append(words, Noted(word))
    <3>1. words' = Heard({word})
      BY <2>1
    <3> QED BY <2>3, <3>1 DEF Heard
  <2> HIDE DEF length
  <2>5. CASE words = Spent
    BY <1>1, <2>4, <2>5
  <2>6. CASE words # Spent /\ word.kind = "Length" /\ s.dicts = 1
    <3>1. words' = <<word>> /\ length = WantValue
      BY <2>1, <2>4, <2>6 DEF Captured
    <3>2. <<word>> \in Seq(SomeWord) /\ Len(<<word>>) = 1
      OBVIOUS
    <3> QED BY <3>1, <3>2 DEF Matches, length
  <2>7. CASE words # Spent /\ ~(word.kind = "Length" /\ s.dicts = 1) /\ words = <<>>
    <3>1. words' = words
      BY <2>4, <2>7
    <3>2. ASSUME Sound(words) PROVE length = Idle
      <4>1. s.length = Idle
        <5>1. Matches(s.length, <<>>)
          BY <1>1, <2>7, <3>2
        <5> QED BY <5>1 DEF Matches, Referred
      <4> QED BY <2>1, <2>2, <2>7, <4>1, IdleStays DEF Captured
    <3> QED BY <1>1, <2>7, <3>1, <3>2 DEF Matches, length
  <2>8. CASE words # Spent /\ ~(word.kind = "Length" /\ s.dicts = 1) /\ words # <<>>
    <3>1. PICK ws \in Seq(SomeWord) : ws = words
      BY <1>1
    <3>2. PICK x \in SomeWord :
            /\ x = Noted(word) /\ (x.kind = "int" <=> word.kind = "int")
            /\ (x.kind = "R" <=> word.kind = "R")
            /\ (Len(ws) = 1 /\ word.kind = "int" => x = word)
      BY <3>1, NotedWord
    <3>3. words' = Append(ws, x)
      BY <2>4, <2>8, <3>1, <3>2
    <3>4. Append(ws, x) \in Seq(SomeWord)
      BY OneMoreWord
    <3>5. ASSUME Sound(Append(ws, x)) PROVE Matches(Captured(s, word), Append(ws, x))
      <4>1. Matches(s.length, ws)
        BY <1>1, <2>8, <3>1, <3>5, SoundPrefix
      <4> QED BY <2>2, <2>8, <3>1, <3>2, <3>5, <4>1, WordMatches
    <3> QED BY <2>1, <3>3, <3>4, <3>5 DEF length
  <2> QED BY <2>5, <2>6, <2>7, <2>8
<1> QED BY <1>2, <1>3, Zenon DEF Tells

(***************************************************************************)
(* The steps of objects and payloads.                                      *)
(***************************************************************************)
Scanning == {"object", "streamEol", "streamBytes", "streamClose", "streamScan"}

\* What is known of a payload under way: what is left to count, and what of
\* the keyword was matched.
PayloadInv ==
  /\ tail \in Seq(PayloadBytes) /\ seen \in Nat
  /\ state.kind \in Scanning => state.scanner \in Scanners
  /\ state.kind \in InPayload => words = Spent
  /\ state.kind = "streamBytes" =>
       /\ state.remaining \in Nat \ {0} /\ HasLength(state.scanner)
       /\ seen + state.remaining = state.scanner.length.value
  /\ state.kind \in {"streamClose", "streamScan"} =>
       /\ state.matched \in 0..(Len(Endstream) - 1) /\ EndsWith(tail, state.matched)
       /\ HasLength(state.scanner) => seen = state.scanner.length.value
  /\ state.kind = "streamClose" => state = StreamClose(state.scanner, state.matched)
  /\ state.kind = "streamScan" => state = StreamScan(state.scanner, state.matched)

PdfInv == Keyed /\ LengthInv /\ PayloadInv

\* What the two properties of payloads say of a step.
BeginsAsDeclared ==
  state.kind \in {"object", "streamEol"} /\ state'.kind \in InPayload
    /\ words # Spent /\ WellFormed
  => IF Reading = "none" THEN state'.kind = "streamScan"
     ELSE IF words[2].value = 0 THEN state'.kind = "streamClose"
     ELSE state'.kind = "streamBytes" /\ state'.remaining = words[2].value

EndsAtKeyword ==
  state.kind \in InPayload /\ state'.kind = "object"
  => /\ tail' = Endstream
     /\ HasLength(state.scanner) => seen = state.scanner.length.value

\* A step keeps the invariant and does what the properties say.
Keeps == PdfInv' /\ BeginsAsDeclared /\ EndsAtKeyword

(* The states of objects and payloads.                                      *)
LEMMA ScanningStates ==
  ASSUME NEW s, NEW n
  PROVE  /\ Object(s).kind = "object" /\ Object(s).scanner = s
         /\ StreamEol(s).kind = "streamEol" /\ StreamEol(s).scanner = s
         /\ StreamBytes(s, n).kind = "streamBytes" /\ StreamBytes(s, n).scanner = s
         /\ StreamBytes(s, n).remaining = n
         /\ StreamClose(s, n).kind = "streamClose" /\ StreamClose(s, n).scanner = s
         /\ StreamClose(s, n).matched = n
         /\ StreamScan(s, n).kind = "streamScan" /\ StreamScan(s, n).scanner = s
         /\ StreamScan(s, n).matched = n
         /\ [StreamClose(s, n) EXCEPT !.matched = n + 1] = StreamClose(s, n + 1)
         /\ [StreamScan(s, n) EXCEPT !.matched = n + 1] = StreamScan(s, n + 1)
BY DEF Object, StreamEol, StreamBytes, StreamClose, StreamScan

LEMMA OutsideAway ==
  /\ Outside \cap Scanning = {} /\ "itemKeyword" \notin Scanning \cup Outside
  /\ InPayload \subseteq Scanning /\ {"object", "streamEol"} \cap InPayload = {}
BY DEF Outside, Scanning, InPayload

LEMMA InitKept == Init => PdfInv
<1> SUFFICES ASSUME Init PROVE PdfInv
  OBVIOUS
<1>1. state.kind = "magic"
  BY DEF Init, Magic
<1>2. "magic" # "itemKeyword" /\ "magic" \notin Scanning
  BY DEF Scanning
<1>3. tail \in Seq(PayloadBytes) /\ words \in Seq(SomeWord) /\ seen \in Nat
  BY DEF Init
<1> QED BY <1>1, <1>2, <1>3 DEF PdfInv, Keyed, LengthInv, PayloadInv, Scanning, InPayload

(* Outside objects there is nothing to keep.                                *)
LEMMA AwayKeeps == ASSUME PdfInv, Away PROVE Keeps
<1>1. CASE state'.kind \in Outside
  <2>1. state'.kind \notin Scanning /\ state'.kind # "itemKeyword"
    BY <1>1, OutsideAway
  <2>2. PdfInv'
    BY <2>1 DEF PdfInv, Away, Keyed, LengthInv, PayloadInv, Scanning, InPayload
  <2> QED BY <2>1, <2>2 DEF Keeps, BeginsAsDeclared, EndsAtKeyword, Scanning, InPayload
<1>2. CASE state'.kind = "itemKeyword" /\ state'.first \in Firsts
  <2>1. state'.kind \notin Scanning
    BY <1>2, OutsideAway
  <2>2. PdfInv'
    BY <1>2, <2>1 DEF PdfInv, Away, Keyed, LengthInv, PayloadInv, Scanning, InPayload
  <2> QED BY <2>1, <2>2 DEF Keeps, BeginsAsDeclared, EndsAtKeyword, Scanning, InPayload
<1>3. CASE state' = state
  <2>1. words' = words /\ tail' = tail /\ seen' = seen
    BY DEF Away
  <2>2. PdfInv'
    BY <1>3, <2>1 DEF PdfInv, Keyed, LengthInv, PayloadInv
  <2> QED BY <1>3, <2>2 DEF Keeps, BeginsAsDeclared, EndsAtKeyword, InPayload
<1> QED BY <1>1, <1>2, <1>3 DEF Away

(* Inside an object, or at the end of line behind `stream`.                 *)
LEMMA ScannerKeeps ==
  ASSUME PdfInv, NEW s \in Scanners, NEW next \in {Object(s), StreamEol(s)},
         state' = next, state.kind \notin InPayload,
         tail' \in Seq(PayloadBytes), seen' \in Nat, words' \in Seq(SomeWord),
         words' # Spent /\ Sound(words') => Matches(s.length, words')
  PROVE  Keeps
<1>1. state'.kind \in {"object", "streamEol"} /\ state'.scanner = s
  BY DEF Object, StreamEol
<1>2. PdfInv'
  BY <1>1 DEF PdfInv, Keyed, LengthInv, PayloadInv, InPayload
<1> QED BY <1>1, <1>2 DEF Keeps, BeginsAsDeclared, EndsAtKeyword, InPayload

(* What the words say is what the capture holds.                            *)
LEMMA ReadingMatches ==
  ASSUME words \in Seq(SomeWord), NEW length, Matches(length, words)
  PROVE  /\ Reading = "none" => length.kind # "have"
         /\ Reading # "none" => length.kind = "have" /\ length.value = words[2].value
<1>1. PICK n \in Nat : n = Len(words)
  BY LenProperties
<1>2. Idle.kind # "have" /\ WantValue.kind # "have"
  BY DEF Idle, WantValue, Capture
<1>3. CASE n < 2
  <2>1. Reading = "none"
    BY <1>1, <1>3 DEF Reading
  <2>2. length = Idle \/ length = WantValue
    BY <1>1, <1>3 DEF Matches, Referred
  <2> QED BY <1>2, <2>1, <2>2
<1>4. CASE n >= 2 /\ words[2].kind # "int"
  <2>1. Reading = "none"
    BY <1>1, <1>4 DEF Reading
  <2>2. length = Idle
    <3>1. words # <<>>
      BY <1>1, <1>4
    <3> QED BY <1>1, <1>4, <3>1 DEF Matches, Referred
  <2> QED BY <1>2, <2>1, <2>2
<1>5. CASE n >= 2 /\ words[2].kind = "int" /\ Referred(words)
  <2>1. Reading = "none"
    BY <1>1, <1>5 DEF Reading, Referred
  <2>2. length = Idle
    <3>1. words # <<>>
      BY <1>1, <1>5
    <3> QED BY <1>1, <1>5, <3>1 DEF Matches
  <2> QED BY <1>2, <2>1, <2>2
<1>6. CASE n >= 2 /\ words[2].kind = "int" /\ ~Referred(words)
  <2>1. Reading = "direct"
    BY <1>1, <1>6 DEF Reading, Referred
  <2>2. Valued(length, words)
    <3>1. words # <<>>
      BY <1>1, <1>6
    <3> QED BY <1>1, <1>6, <3>1 DEF Matches
  <2> QED BY <2>1, <2>2 DEF Valued
<1>7. n < 2 \/ n >= 2
  OBVIOUS
<1> QED BY <1>3, <1>4, <1>5, <1>6, <1>7

(* A payload begins.                                                        *)
LEMMA PayloadBegins ==
  ASSUME PdfInv, state.kind \in {"object", "streamEol"},
         NEW s \in Scanners, s.length = state.scanner.length, BeginPayload(s)
  PROVE  Keeps
<1>1. PICK v : v = s.length.value
  OBVIOUS
<1>2. s.length.kind = "have" => v \in Nat
  BY <1>1 DEF Scanners, Captures
<1>3. /\ state' = PayloadState(s) /\ words' = Spent /\ tail' = <<>> /\ seen' = 0
  BY DEF BeginPayload, GoTo
<1>4. Spent \in Seq(SomeWord)
  <2>1. "spent" \in WordKinds /\ 0 \in Nat
    BY DEF WordKinds
  <2>2. Word("spent", 0) \in SomeWord
    BY <2>1, WordTypes
  <2> QED BY <2>2 DEF Spent
<1>5. tail' \in Seq(PayloadBytes) /\ seen' \in Nat /\ EndsWith(tail', 0)
  BY <1>3 DEF EndsWith
<1>6. 0 \in 0..(Len(Endstream) - 1)
  BY KeywordFacts
<1>7. words # Spent /\ WellFormed
      => /\ Reading = "none" => s.length.kind # "have"
         /\ Reading # "none" => s.length.kind = "have" /\ v = words[2].value
  <2> SUFFICES ASSUME words # Spent, WellFormed
               PROVE  /\ Reading = "none" => s.length.kind # "have"
                      /\ Reading # "none" => s.length.kind = "have" /\ v = words[2].value
    OBVIOUS
  <2>1. Sound(words)
    BY DEF WellFormed, Sound
  <2>2. words \in Seq(SomeWord) /\ Matches(s.length, words)
    BY <2>1 DEF PdfInv, LengthInv
  <2> QED BY <1>1, <2>2, ReadingMatches
<1>8. state.kind \notin InPayload
  BY DEF InPayload
<1>a. CASE s.length.kind # "have"
  <2>1. state' = StreamScan(s, 0)
    BY <1>3, <1>a DEF PayloadState, HasLength
  <2>2. /\ state'.kind = "streamScan" /\ state'.scanner = s /\ state'.matched = 0
        /\ state' = StreamScan(state'.scanner, state'.matched)
    BY <2>1 DEF StreamScan
  <2>3. ~HasLength(state'.scanner)
    BY <1>a, <2>2 DEF HasLength
  <2>4. PdfInv'
    BY <1>3, <1>4, <1>5, <1>6, <2>2, <2>3 DEF PdfInv, Keyed, LengthInv, PayloadInv, Scanning, InPayload
  <2>5. BeginsAsDeclared
    BY <1>7, <1>a, <2>2 DEF BeginsAsDeclared
  <2> QED BY <1>8, <2>4, <2>5 DEF Keeps, EndsAtKeyword
<1>b. CASE s.length.kind = "have" /\ v = 0
  <2>1. state' = StreamClose(s, 0)
    BY <1>1, <1>3, <1>b DEF PayloadState, HasLength
  <2>2. /\ state'.kind = "streamClose" /\ state'.scanner = s /\ state'.matched = 0
        /\ state' = StreamClose(state'.scanner, state'.matched)
    BY <2>1 DEF StreamClose
  <2>3. seen' = state'.scanner.length.value
    BY <1>1, <1>3, <1>b, <2>2
  <2>4. PdfInv'
    BY <1>3, <1>4, <1>5, <1>6, <2>2, <2>3 DEF PdfInv, Keyed, LengthInv, PayloadInv, Scanning, InPayload
  <2>5. BeginsAsDeclared
    BY <1>7, <1>b, <2>2 DEF BeginsAsDeclared
  <2> QED BY <1>8, <2>4, <2>5 DEF Keeps, EndsAtKeyword
<1>c. CASE s.length.kind = "have" /\ v # 0
  <2>1. state' = StreamBytes(s, v)
    BY <1>1, <1>3, <1>c DEF PayloadState, HasLength
  <2>2. state'.kind = "streamBytes" /\ state'.scanner = s /\ state'.remaining = v
    BY <2>1 DEF StreamBytes
  <2>3. /\ HasLength(state'.scanner) /\ v \in Nat \ {0}
        /\ seen' + state'.remaining = state'.scanner.length.value
    BY <1>1, <1>2, <1>3, <1>c, <2>2 DEF HasLength
  <2>4. PdfInv'
    BY <1>3, <1>4, <1>5, <2>2, <2>3 DEF PdfInv, Keyed, LengthInv, PayloadInv, Scanning, InPayload
  <2>5. BeginsAsDeclared
    BY <1>7, <1>c, <2>2 DEF BeginsAsDeclared
  <2> QED BY <1>8, <2>4, <2>5 DEF Keeps, EndsAtKeyword
<1> QED BY <1>a, <1>b, <1>c

(* The letters of the keyword, and the bytes that are none of them.         *)
LEMMA LetterKeeps ==
  ASSUME PdfInv, state.kind \in {"streamClose", "streamScan"},
         NEW byte \in PayloadBytes, Scanned(byte), UNCHANGED <<words, seen>>,
         \/ state.matched = 0 /\ state' = state
         \/ byte = Endstream[state.matched + 1] /\ state' = Matched(state.matched + 1)
         \/ /\ byte # Endstream[state.matched + 1]
            /\ state' = StreamScan(state.scanner, Restarted(state.matched, byte))
  PROVE  Keeps
<1>1. PICK m \in 0..(Len(Endstream) - 1), s \in Scanners :
        /\ m = state.matched /\ s = state.scanner /\ EndsWith(tail, m)
        /\ HasLength(s) => seen = s.length.value
  BY DEF PdfInv, PayloadInv, Scanning
<1>2. state = StreamClose(s, m) \/ state = StreamScan(s, m)
  BY <1>1 DEF PdfInv, PayloadInv
<1>3. tail \in Seq(PayloadBytes) /\ seen \in Nat /\ words \in Seq(SomeWord)
  BY DEF PdfInv, PayloadInv, LengthInv
<1>4. seen' \in Nat /\ words' \in Seq(SomeWord) /\ (HasLength(s) => seen' = s.length.value)
  BY <1>1, <1>3
<1>5. /\ byte = Endstream[m + 1] => EndsWith(Append(tail, byte), m + 1)
      /\ byte = Endstream[1] => EndsWith(Append(tail, byte), 1)
      /\ EndsWith(Append(tail, byte), 0)
  BY <1>1, <1>3, MatchGrows
<1>6. ASSUME NEW k \in 0..Len(Endstream), EndsWith(Append(tail, byte), k)
      PROVE  /\ tail' \in Seq(PayloadBytes) /\ EndsWith(tail', k)
             /\ k = Len(Endstream) => tail' = Endstream
  BY <1>3, <1>6, ScannedEnds
<1>7. Len(Endstream) \in Nat \ {0}
  BY KeywordFacts
<1>8. state.kind \notin {"object", "streamEol"}
  OBVIOUS
<1>a. ASSUME NEW k \in 0..(Len(Endstream) - 1), EndsWith(Append(tail, byte), k),
             state' = StreamClose(s, k) \/ state' = StreamScan(s, k)
      PROVE  Keeps
  <2>1. /\ state'.kind \in {"streamClose", "streamScan"}
        /\ state'.scanner = s /\ state'.matched = k
        /\ state'.kind = "streamClose" => state' = StreamClose(s, k)
        /\ state'.kind = "streamScan" => state' = StreamScan(s, k)
    BY <1>a DEF StreamClose, StreamScan
  <2>2. k \in 0..Len(Endstream)
    BY <1>7
  <2>3. tail' \in Seq(PayloadBytes) /\ EndsWith(tail', k)
    BY <1>6, <1>a, <2>2
  <2>4. PdfInv'
    BY <1>1, <1>4, <2>1, <2>3 DEF PdfInv, Keyed, LengthInv, PayloadInv, Scanning, InPayload
  <2> QED BY <1>8, <2>1, <2>4 DEF Keeps, BeginsAsDeclared, EndsAtKeyword
<1>b. CASE state.matched = 0 /\ state' = state
  <2>1. m = 0 /\ (state' = StreamClose(s, 0) \/ state' = StreamScan(s, 0))
    BY <1>1, <1>2, <1>b
  <2> QED BY <1>5, <1>7, <1>a, <2>1
<1>c. CASE byte = Endstream[state.matched + 1] /\ state' = Matched(state.matched + 1)
  <2>1. byte = Endstream[m + 1] /\ state' = Matched(m + 1)
    BY <1>1, <1>c
  <2>2. CASE m + 1 = Len(Endstream)
    <3>1. state' = Object(s)
      BY <1>1, <2>1, <2>2 DEF Matched
    <3>2. m + 1 \in 0..Len(Endstream)
      BY <2>2, <1>7
    <3>3. tail' = Endstream
      BY <1>5, <1>6, <2>1, <2>2, <3>2
    <3>4. words' = Spent
      BY DEF PdfInv, PayloadInv, InPayload
    <3>5. state'.kind = "object" /\ state'.scanner = s
      BY <3>1 DEF Object
    <3>6. tail' \in Seq(PayloadBytes)
      BY <3>3, KeywordFacts
    <3>7. PdfInv'
      BY <1>1, <1>4, <3>4, <3>5, <3>6
         DEF PdfInv, Keyed, LengthInv, PayloadInv, Scanning, InPayload
    <3> QED BY <1>1, <1>8, <3>3, <3>7 DEF Keeps, BeginsAsDeclared, EndsAtKeyword
  <2>3. CASE m + 1 # Len(Endstream)
    <3>1. state' = [state EXCEPT !.matched = m + 1]
      BY <2>1, <2>3 DEF Matched
    <3>2. state' = StreamClose(s, m + 1) \/ state' = StreamScan(s, m + 1)
      BY <1>2, <3>1 DEF StreamClose, StreamScan
    <3>3. m + 1 \in 0..(Len(Endstream) - 1)
      BY <1>7, <2>3
    <3> QED BY <1>5, <1>a, <2>1, <3>2, <3>3
  <2> QED BY <2>2, <2>3
<1>d. CASE /\ byte # Endstream[state.matched + 1]
           /\ state' = StreamScan(state.scanner, Restarted(state.matched, byte))
  <2>1. byte # Endstream[m + 1] /\ state' = StreamScan(s, Restarted(m, byte))
    BY <1>1, <1>d
  <2>2. CASE byte = Endstream[1]
    <3>1. m # 0
      BY <2>1, <2>2
    <3>2. 1 \in 0..(Len(Endstream) - 1) /\ Restarted(m, byte) = 1
      BY <1>7, <2>2, <3>1 DEF Restarted
    <3> QED BY <1>5, <1>a, <2>1, <2>2, <3>2
  <2>3. CASE byte # Endstream[1]
    <3>1. 0 \in 0..(Len(Endstream) - 1) /\ Restarted(m, byte) = 0
      BY <1>7, <2>3 DEF Restarted
    <3> QED BY <1>5, <1>a, <2>1, <3>1
  <2> QED BY <2>2, <2>3
<1> QED BY <1>b, <1>c, <1>d

(* Between objects.                                                         *)
LEMMA BetweenObjects ==
  ASSUME BeginItem \/ BadItem \/ ReadComment \/ Finish PROVE Away
<1>1. CASE BeginItem
  <2>1. UNCHANGED <<words, tail, seen>>
    BY <1>1 DEF BeginItem
  <2>2. \/ state' \in {Comment(1, TRUE), ObjHeader(0, TRUE)}
        \/ \E k \in DOMAIN Keyword : state' = ItemKeyword(Keyword[k])
    BY <1>1, Zenon DEF BeginItem
  <2>3. \A first \in Firsts : /\ ItemKeyword(first).kind = "itemKeyword"
                              /\ ItemKeyword(first).first = first
    BY DEF ItemKeyword
  <2>4. \A k \in DOMAIN Keyword : Keyword[k] \in Firsts
    BY DEF Firsts
  <2> QED BY <2>1, <2>2, <2>3, <2>4, OutsideKinds DEF Away
<1>2. CASE BadItem
  BY <1>2 DEF BadItem, Away
<1>3. CASE ReadComment
  <2>1. UNCHANGED <<words, tail, seen>>
    BY <1>3 DEF ReadComment, ghosts
  <2>2. state' = Item \/ \E len, isMark : state' = Comment(len, isMark)
    BY <1>3, Zenon DEF ReadComment, GoTo
  <2> QED BY <2>1, <2>2, OutsideKinds DEF Away
<1>4. CASE Finish
  BY <1>4 DEF Finish, ghosts, Away
<1> QED BY <1>1, <1>2, <1>3, <1>4

LEMMA ReadObjHeaderKeeps == ASSUME PdfInv, ReadObjHeader PROVE Keeps
<1>1. \/ \E ints, digits : state' = ObjHeader(ints, digits) /\ UNCHANGED <<words, tail, seen>>
      \/ state' = state /\ UNCHANGED <<words, tail, seen>>
      \/ /\ state' = Object(NewScanner) \/ state' = ObjHeader(2, FALSE)
         /\ words' = <<>> /\ UNCHANGED <<tail, seen>>
  <2>1. PICK byte \in {"digit", "white", "o", "j", "other"} :
          CASE byte = "digit" -> GoTo(ObjHeader(state.ints, TRUE)) /\ UNCHANGED ghosts
            [] byte = "white" ->
                 IF IntsSoFar > 2 THEN Refuse("BadObjectHeader")
                 ELSE GoTo(ObjHeader(IntsSoFar, FALSE)) /\ UNCHANGED ghosts
            [] byte = "other" -> Refuse("BadObjectHeader")
            [] OTHER ->
                 IF IntsSoFar # 2 THEN Refuse("BadObjectHeader")
                 ELSE /\ GoTo(IF byte = "j" THEN Object(NewScanner) ELSE ObjHeader(2, FALSE))
                      /\ words' = <<>>
                      /\ UNCHANGED <<tail, seen, last>>
    BY Zenon DEF ReadObjHeader
  <2>2. \/ GoTo(ObjHeader(state.ints, TRUE)) /\ UNCHANGED ghosts
        \/ GoTo(ObjHeader(IntsSoFar, FALSE)) /\ UNCHANGED ghosts
        \/ Refuse("BadObjectHeader")
        \/ /\ GoTo(IF byte = "j" THEN Object(NewScanner) ELSE ObjHeader(2, FALSE))
           /\ words' = <<>> /\ UNCHANGED <<tail, seen, last>>
    BY <2>1, Zenon
  <2> QED BY <2>2, Zenon DEF GoTo, Refuse, ghosts
<1>2. state.kind = "objHeader"
  BY DEF ReadObjHeader, At
<1>3. state.kind \notin InPayload
  BY <1>2 DEF InPayload
<1>4. tail \in Seq(PayloadBytes) /\ seen \in Nat
  BY DEF PdfInv, PayloadInv
<1>5. \A ints, digits : ObjHeader(ints, digits).kind = "objHeader"
  BY DEF ObjHeader
<1>a. CASE /\ state' = state \/ \E ints, digits : state' = ObjHeader(ints, digits)
           /\ UNCHANGED <<words, tail, seen>>
  <2>1. Away
    BY <1>a, OutsideKinds DEF Away
  <2> QED BY <2>1, AwayKeeps
<1>b. CASE /\ state' = ObjHeader(2, FALSE)
           /\ words' = <<>> /\ UNCHANGED <<tail, seen>>
  <2>1. state'.kind = "objHeader"
    BY <1>5, <1>b
  <2>2. words' \in Seq(SomeWord)
    BY <1>b
  <2>3. PdfInv'
    BY <1>4, <1>b, <2>1, <2>2 DEF PdfInv, Keyed, LengthInv, PayloadInv, Scanning, InPayload
  <2> QED BY <1>3, <2>1, <2>3 DEF Keeps, BeginsAsDeclared, EndsAtKeyword, InPayload
<1>c. CASE /\ state' = Object(NewScanner)
           /\ words' = <<>> /\ UNCHANGED <<tail, seen>>
  <2>1. PICK s \in Scanners : s = NewScanner /\ s.length = Idle
    BY CaptureTypes DEF NewScanner
  <2>2. state' = Object(s) /\ Object(s) \in {Object(s), StreamEol(s)}
    BY <1>c, <2>1
  <2>3. tail' \in Seq(PayloadBytes) /\ seen' \in Nat /\ words' \in Seq(SomeWord)
    BY <1>4, <1>c
  <2>4. Matches(s.length, words')
    BY <1>c, <2>1 DEF Matches
  <2> QED BY <1>3, <2>2, <2>3, <2>4, ScannerKeeps
<1> QED BY <1>1, <1>a, <1>b, <1>c

LEMMA ReadObjectKeeps == ASSUME PdfInv, ReadObject PROVE Keeps
<1>1. state.kind = "object" /\ state.kind \notin InPayload
  BY DEF ReadObject, At, InPayload
<1>2. PICK s \in Scanners : s = state.scanner
  BY <1>1 DEF PdfInv, PayloadInv, Scanning
<1>0. PICK byte \in ObjectBytes : \E step \in Steps(s, byte) :
        CASE step.signal = "streamBegins" ->
               IF byte = "eol" THEN BeginPayload(step.scanner)
               ELSE IF byte = "cr" THEN GoTo(StreamEol(step.scanner)) /\ UNCHANGED ghosts
               ELSE Refuse("BadStreamEol")
          [] step.signal = "objectEnds" ->
               /\ GoTo(Item)
               /\ words' = <<>> /\ tail' = <<>> /\ seen' = 0 /\ UNCHANGED last
          [] OTHER ->
               /\ words' = Heard(step.words) /\ Len(words') <= MaxWords
               /\ GoTo(Object(step.scanner))
               /\ UNCHANGED <<tail, seen, last>>
  BY <1>2, Zenon DEF ReadObject
<1>3. PICK step \in Steps(s, byte) :
        CASE step.signal = "streamBegins" ->
               IF byte = "eol" THEN BeginPayload(step.scanner)
               ELSE IF byte = "cr" THEN GoTo(StreamEol(step.scanner)) /\ UNCHANGED ghosts
               ELSE Refuse("BadStreamEol")
          [] step.signal = "objectEnds" ->
               /\ GoTo(Item)
               /\ words' = <<>> /\ tail' = <<>> /\ seen' = 0 /\ UNCHANGED last
          [] OTHER ->
               /\ words' = Heard(step.words) /\ Len(words') <= MaxWords
               /\ GoTo(Object(step.scanner))
               /\ UNCHANGED <<tail, seen, last>>
  BY <1>0, Zenon
<1>4. PICK t \in Scanners : t = step.scanner
  BY StepsTell
<1>5. Tells(s, step)
  BY StepsTell
<1>6. /\ tail \in Seq(PayloadBytes) /\ seen \in Nat /\ words \in Seq(SomeWord)
      /\ words # Spent /\ Sound(words) => Matches(s.length, words)
      /\ LengthInv
  BY <1>1, <1>2 DEF PdfInv, PayloadInv, LengthInv
<1>a. CASE step.signal = "streamBegins"
  <2>1. t.length = s.length
    <3>1. PICK word \in SomeWord :
            step.signal = SignalOf(word) /\ step.scanner.length = Captured(s, word)
      BY <1>5, <1>a DEF Tells
    <3>2. word.kind = "stream"
      BY <1>a, <3>1 DEF SignalOf
    <3> QED BY <1>4, <3>1, <3>2 DEF Captured
  <2>2. \/ BeginPayload(t)
        \/ GoTo(StreamEol(t)) /\ UNCHANGED ghosts
        \/ Refuse("BadStreamEol")
    BY <1>3, <1>4, <1>a, Zenon
  <2>3. CASE BeginPayload(t)
    BY <1>1, <1>2, <2>1, <2>3, PayloadBegins
  <2>4. CASE GoTo(StreamEol(t)) /\ UNCHANGED ghosts
    <3>1. state' = StreamEol(t) /\ UNCHANGED <<words, tail, seen>>
      BY <2>4 DEF GoTo, ghosts
    <3>2. StreamEol(t) \in {Object(t), StreamEol(t)}
      OBVIOUS
    <3>3. /\ tail' \in Seq(PayloadBytes) /\ seen' \in Nat /\ words' \in Seq(SomeWord)
      BY <1>6, <3>1
    <3>4. words' # Spent /\ Sound(words') => Matches(t.length, words')
      <4>1. PICK ws : ws = words /\ (ws # Spent /\ Sound(ws) => Matches(s.length, ws))
        BY <1>6
      <4>2. ws = words'
        BY <3>1, <4>1
      <4> QED BY <2>1, <4>1, <4>2
    <3> QED BY <1>1, <3>1, <3>2, <3>3, <3>4, ScannerKeeps
  <2>5. CASE Refuse("BadStreamEol")
    <3>1. Away
      BY <2>5 DEF Refuse, ghosts, Away
    <3> QED BY <3>1, AwayKeeps
  <2> QED BY <2>2, <2>3, <2>4, <2>5
<1>b. CASE step.signal = "objectEnds"
  <2>1. state' = Item /\ words' = <<>> /\ tail' = <<>> /\ seen' = 0
    BY <1>3, <1>b, Zenon DEF GoTo
  <2>2. state'.kind = "item"
    BY <2>1 DEF Item
  <2>3. /\ words' \in Seq(SomeWord) /\ tail' \in Seq(PayloadBytes) /\ seen' \in Nat
    BY <2>1
  <2>4. PdfInv'
    BY <2>2, <2>3 DEF PdfInv, Keyed, LengthInv, PayloadInv, Scanning, InPayload
  <2> QED BY <1>1, <2>2, <2>4 DEF Keeps, BeginsAsDeclared, EndsAtKeyword, InPayload
<1>c. CASE step.signal \notin {"streamBegins", "objectEnds"}
  <2>1. /\ words' = Heard(step.words) /\ state' = Object(t) /\ UNCHANGED <<tail, seen>>
    BY <1>3, <1>4, <1>c, Zenon DEF GoTo
  <2>2. /\ words' \in Seq(SomeWord)
        /\ words' # Spent /\ Sound(words') => Matches(t.length, words')
    BY <1>1, <1>2, <1>4, <1>5, <1>6, <1>c, <2>1, HeardMatches
  <2>3. Object(t) \in {Object(t), StreamEol(t)}
    OBVIOUS
  <2>4. tail' \in Seq(PayloadBytes) /\ seen' \in Nat
    BY <1>6, <2>1
  <2> QED BY <1>1, <2>1, <2>2, <2>3, <2>4, ScannerKeeps
<1> QED BY <1>a, <1>b, <1>c

LEMMA FinishStreamEolKeeps == ASSUME PdfInv, FinishStreamEol PROVE Keeps
<1>1. state.kind = "streamEol"
  BY DEF FinishStreamEol, At
<1>2. PICK s \in Scanners : s = state.scanner
  BY <1>1 DEF PdfInv, PayloadInv, Scanning
<1>3. CASE BeginPayload(state.scanner)
  <2>1. BeginPayload(s)
    BY <1>2, <1>3
  <2> QED BY <1>1, <1>2, <2>1, PayloadBegins
<1>4. CASE Refuse("BadStreamEol")
  <2>1. Away
    BY <1>4 DEF Refuse, ghosts, Away
  <2> QED BY <2>1, AwayKeeps
<1> QED BY <1>3, <1>4 DEF FinishStreamEol

LEMMA CountPayloadKeeps == ASSUME PdfInv, CountPayload PROVE Keeps
<1>1. state.kind = "streamBytes"
  BY DEF CountPayload, At
<1>2. PICK s \in Scanners, left \in Nat \ {0} :
        /\ s = state.scanner /\ left = state.remaining
        /\ HasLength(s) /\ seen + left = s.length.value
  BY <1>1 DEF PdfInv, PayloadInv, Scanning
<1>3. /\ state' = IF left = 1 THEN StreamClose(s, 0) ELSE StreamBytes(s, left - 1)
      /\ seen' = seen + 1 /\ UNCHANGED <<words, tail>>
  BY <1>2 DEF CountPayload, GoTo
<1>4. /\ tail \in Seq(PayloadBytes) /\ seen \in Nat /\ words \in Seq(SomeWord)
      /\ words = Spent
  BY <1>1 DEF PdfInv, PayloadInv, LengthInv, InPayload
<1>5. EndsWith(tail', 0)
  BY <1>3, <1>4, LenProperties DEF EndsWith
<1>6. seen' \in Nat /\ tail' \in Seq(PayloadBytes) /\ words' \in Seq(SomeWord) /\ words' = Spent
  BY <1>3, <1>4
<1>7. 0 \in 0..(Len(Endstream) - 1)
  BY KeywordFacts
<1>a. CASE left = 1
  <2>1. state' = StreamClose(s, 0)
    BY <1>3, <1>a
  <2>2. /\ state'.kind = "streamClose" /\ state'.scanner = s /\ state'.matched = 0
        /\ state' = StreamClose(state'.scanner, state'.matched)
    BY <2>1 DEF StreamClose
  <2>3. seen' = s.length.value
    BY <1>2, <1>3, <1>4, <1>a
  <2>4. PdfInv'
    BY <1>5, <1>6, <1>7, <2>2, <2>3
       DEF PdfInv, Keyed, LengthInv, PayloadInv, Scanning, InPayload
  <2> QED BY <1>1, <2>2, <2>4 DEF Keeps, BeginsAsDeclared, EndsAtKeyword
<1>b. CASE left # 1
  <2>1. state' = StreamBytes(s, left - 1)
    BY <1>3, <1>b
  <2>2. state'.kind = "streamBytes" /\ state'.scanner = s /\ state'.remaining = left - 1
    BY <2>1 DEF StreamBytes
  <2>3. /\ left - 1 \in Nat \ {0}
        /\ seen' + (left - 1) = s.length.value
    BY <1>2, <1>3, <1>4, <1>b
  <2>4. PdfInv'
    BY <1>2, <1>6, <2>2, <2>3
       DEF PdfInv, Keyed, LengthInv, PayloadInv, Scanning, InPayload
  <2> QED BY <1>1, <2>2, <2>4 DEF Keeps, BeginsAsDeclared, EndsAtKeyword
<1> QED BY <1>a, <1>b

LEMMA ClosePayloadKeeps == ASSUME PdfInv, ClosePayload PROVE Keeps
<1>1. state.kind = "streamClose" /\ UNCHANGED <<words, seen>>
  BY DEF ClosePayload, At
<1>2. PICK byte \in PayloadBytes :
        /\ Scanned(byte)
        /\ state' = IF state.matched = 0 /\ byte = "white" THEN state
                    ELSE IF byte = Endstream[state.matched + 1] THEN Matched(state.matched + 1)
                    ELSE StreamScan(state.scanner, Restarted(state.matched, byte))
  BY Zenon DEF ClosePayload, GoTo
<1> QED BY <1>1, <1>2, LetterKeeps

LEMMA ScanPayloadKeeps == ASSUME PdfInv, ScanPayload PROVE Keeps
<1>1. state.kind = "streamScan" /\ UNCHANGED <<words, seen>>
  BY DEF ScanPayload, At
<1>2. PICK byte \in PayloadBytes :
        /\ Scanned(byte)
        /\ state' = IF byte = Endstream[state.matched + 1] THEN Matched(state.matched + 1)
                    ELSE StreamScan(state.scanner, Restarted(state.matched, byte))
  BY Zenon DEF ScanPayload, GoTo
<1> QED BY <1>1, <1>2, LetterKeeps

(* Every step.                                                              *)
LEMMA NextKeeps == ASSUME PdfInv, [Next]_vars PROVE Keeps
<1>1. CASE BeginItem \/ BadItem \/ ReadComment \/ Finish
  BY <1>1, BetweenObjects, AwayKeeps
<1>2. CASE \/ MatchMagic \/ FinishHeaderLine \/ SkipWhite \/ ReadItemKeyword
           \/ CloseXrefLine \/ ReadXrefLine \/ SkipXrefEntries \/ ReadTrailer
           \/ ReadStartxref \/ Done \/ UNCHANGED vars
  <2>1. Keyed
    BY DEF PdfInv
  <2> QED BY <1>2, <2>1, OutsideSteps, AwayKeeps
<1> QED
  BY <1>1, <1>2, ReadObjHeaderKeeps, ReadObjectKeeps, FinishStreamEolKeeps,
     CountPayloadKeeps, ClosePayloadKeeps, ScanPayloadKeeps DEF Next

(***************************************************************************)
(* The theorems of payloads.                                               *)
(***************************************************************************)
LEMMA PdfInvariant == Spec => []PdfInv
<1>1. PdfInv /\ [Next]_vars => PdfInv'
  BY NextKeeps DEF Keeps
<1> QED BY <1>1, InitKept, PTL DEF Spec

(* A payload ends only with the letters of the keyword, all of them and     *)
(* none counted twice, and not before its declared length is behind it.     *)
THEOREM PayloadsEndAtTheKeyword == Spec => PayloadEndsAtEndstream
<1>1. PdfInv /\ [Next]_vars
      => (state.kind \in InPayload /\ state'.kind = "object"
          => /\ tail' = Endstream
             /\ HasLength(state.scanner) => seen = state.scanner.length.value)
  BY NextKeeps DEF Keeps, EndsAtKeyword
<1> QED BY <1>1, PdfInvariant, PTL DEF Spec, PayloadEndsAtEndstream

(* A payload is counted exactly when the words of the dictionary, read the  *)
(* way a PDF reader reads them, give its length directly, and by it.        *)
THEOREM DirectLengthsCount == Spec => LengthIsTheDirectOne
<1>1. PdfInv /\ [Next]_vars
      => (state.kind \in {"object", "streamEol"} /\ state'.kind \in InPayload
            /\ words # Spent /\ WellFormed
          => IF Reading = "none" THEN state'.kind = "streamScan"
             ELSE IF words[2].value = 0 THEN state'.kind = "streamClose"
             ELSE state'.kind = "streamBytes" /\ state'.remaining = words[2].value)
  BY NextKeeps DEF Keeps, BeginsAsDeclared
<1> QED BY <1>1, PdfInvariant, PTL DEF Spec, LengthIsTheDirectOne

(***************************************************************************)
(* The end of a document.                                                  *)
(***************************************************************************)
\* The marker counts until another item begins.
Marked ==
  /\ eofLast => last = "mark"
  /\ status = "ended" => last = "mark"

LEMMA InitMarked == Init => Marked
BY DEF Init, Marked

LEMMA NextMarked == ASSUME PdfInv, Marked, [Next]_vars PROVE Marked'
<1> USE DEF Marked
<1>g. ASSUME Silent PROVE Marked'
  BY <1>g DEF Silent, Faults
<1>1. CASE BeginItem
  BY <1>1 DEF BeginItem, ItemBegins, At
<1>2. CASE BadItem
  BY <1>2 DEF BadItem, ItemBegins, Faults
<1>3. CASE ReadComment
  <2>1. CASE UNCHANGED <<eofLast, status, last>>
    BY <1>g, <2>1 DEF Silent
  <2>2. CASE /\ eofLast' = IsMark(state) /\ last' = Told(state)
             /\ UNCHANGED status /\ status = "walking"
    <3>1. IsMark(state) => Told(state) = "mark"
      BY DEF IsMark, Told
    <3> QED BY <2>2, <3>1
  <2> QED BY <1>3, <2>1, <2>2, Zenon DEF ReadComment, GoTo, ghosts, At
<1>4. CASE ReadObjHeader
  <2>1. \/ UNCHANGED <<eofLast, status, last>>
        \/ status' = "BadObjectHeader" /\ UNCHANGED <<eofLast, last>>
    BY <1>4, Zenon DEF ReadObjHeader, GoTo, Refuse, ghosts
  <2> QED BY <2>1, <1>g DEF Silent, Faults
<1>5. CASE ReadObject
  BY <1>5 DEF ReadObject, BeginPayload, GoTo, Refuse, ghosts, Faults
<1>6. CASE FinishStreamEol
  BY <1>6 DEF FinishStreamEol, BeginPayload, GoTo, Refuse, ghosts, Faults
<1>7. CASE CountPayload
  BY <1>7 DEF CountPayload, GoTo
<1>8. CASE ClosePayload
  BY <1>8 DEF ClosePayload, GoTo
<1>9. CASE ScanPayload
  BY <1>9 DEF ScanPayload, GoTo
<1>10. CASE Finish
  <2>1. UNCHANGED <<eofLast, last>> /\ status' = Verdict
    BY <1>10 DEF Finish, ghosts
  <2>2. Verdict = "ended" => eofLast
    BY DEF Verdict
  <2> QED BY <2>1, <2>2
<1>11. CASE \/ MatchMagic \/ FinishHeaderLine \/ SkipWhite \/ ReadItemKeyword
            \/ CloseXrefLine \/ ReadXrefLine \/ SkipXrefEntries \/ ReadTrailer
            \/ ReadStartxref \/ Done \/ UNCHANGED vars
  <2>1. Keyed
    BY DEF PdfInv
  <2> HIDE DEF Marked
  <2> QED BY <1>11, <1>g, <2>1, OutsideSteps
<1> QED BY <1>1, <1>2, <1>3, <1>4, <1>5, <1>6, <1>7, <1>8, <1>9, <1>10, <1>11 DEF Next

(* An accepted document ends with the marker, however many updates it holds *)
(* and however many markers stood inside.                                   *)
THEOREM DocumentsEndWithTheMark == Spec => []FinishedWhole
<1>1. PdfInv /\ Marked /\ [Next]_vars => Marked'
  BY NextMarked
<1>2. Marked => FinishedWhole
  BY DEF Marked, FinishedWhole
<1> QED BY <1>1, <1>2, InitMarked, PdfInvariant, PTL DEF Spec
==============================================================================
