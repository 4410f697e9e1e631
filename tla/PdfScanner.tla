----------------------------- MODULE PdfScanner -----------------------------
(***************************************************************************)
(* The lexical context inside a PDF object or a trailer dictionary         *)
(* (chunker/pdf/object.rs): strings, hex strings, comments, nesting, bare  *)
(* tokens, and the capture of a direct /Length.                            *)
(*                                                                         *)
(* A byte is a member of its class.  The bytes of a token carry nothing;   *)
(* which word they spell is chosen when the token closes.                  *)
(***************************************************************************)
EXTENDS Naturals, Sequences

CONSTANT Lengths   \* the integers a document holds

LineEnds == {"eol", "cr"}
White == LineEnds \cup {"blank"}
Delimiters == {"(", ")", "<", ">", "/", "%", "["}
Escape == "\\"
Regular == "regular"
ObjectBytes == White \cup Delimiters \cup {Escape, Regular}

\* What a completed byte means to the caller.
Signals == {"none", "streamBegins", "objectEnds", "dictClosed"}

\* The words a token may spell.
Word(kind, value) == [kind |-> kind, value |-> value]
Number(n) == Word("int", n)
Names == {Word("Length", 0), Word("name", 0)}
Bare == {Number(n) : n \in Lengths}
        \cup {Word(kind, 0) : kind \in {"stream", "endobj", "R", "other"}}

\* The state of the /Length capture: idle, wanting a value, or with a
\* tentative one and the integers behind it, counted up to AfterMax.
AfterMax == 2
Capture(kind, value, after) == [kind |-> kind, value |-> value, after |-> after]
Idle == Capture("idle", 0, 0)
WantValue == Capture("want", 0, 0)
Have(value, after) == Capture("have", value, after)

NewScanner ==
  [token |-> "none", name |-> FALSE, strings |-> 0, escape |-> FALSE,
   hex |-> FALSE, comment |-> FALSE, dicts |-> 0, wasOpen |-> FALSE,
   angle |-> "none", length |-> Idle]

\* The captured direct /Length.
HasLength(s) == s.length.kind = "have"

\* What a byte does: the scanner after it, the signal, and the word it closed.
Closed(s, signal, words) == [scanner |-> s, signal |-> signal, words |-> words]
Quiet(s) == Closed(s, "none", {})

InString(s, byte) ==
  IF s.escape THEN [s EXCEPT !.escape = FALSE]
  ELSE [s EXCEPT !.escape = (byte = Escape),
                 !.strings = IF byte = "(" THEN @ + 1
                             ELSE IF byte = ")" THEN @ - 1 ELSE @]

\* A token may outgrow what is retained of it.
Grown(token) ==
  CASE token = "none" -> {"open"}
    [] token = "open" -> {"open", "dead"}
    [] token = "dead" -> {"dead"}

(***************************************************************************)
(* Tokens: close_token, length_token and length_r.                         *)
(***************************************************************************)
\* The words the token may be; one that is too long is none.
WordsOf(s) ==
  IF s.token = "none" THEN {}
  ELSE IF s.token = "dead" THEN {Word("long", 0)}
  ELSE IF s.name THEN Names ELSE Bare

LengthToken(capture, word) ==
  IF word.kind = "int"
  THEN IF capture.kind = "want" THEN Have(word.value, 0)
       ELSE IF capture.kind = "have" /\ capture.after < AfterMax
       THEN [capture EXCEPT !.after = @ + 1] ELSE capture
  ELSE IF capture.kind = "want" THEN Idle ELSE capture

\* Mutant: any reference behind a value makes the value one.
LengthRAny(capture) == IF capture.kind = "have" THEN Idle ELSE capture

\* A reference discards the value it is made of.
LengthR(capture) ==
  IF capture.kind = "have" /\ capture.after = 1 THEN Idle ELSE capture

Captured(s, word) ==
  IF word.kind \in {"stream", "endobj"} THEN s.length
  ELSE IF word.kind = "R" THEN LengthR(s.length)
  ELSE IF word.kind = "Length" /\ s.dicts = 1 THEN WantValue
  ELSE LengthToken(s.length, word)

SignalOf(word) ==
  IF word.kind = "stream" THEN "streamBegins"
  ELSE IF word.kind = "endobj" THEN "objectEnds" ELSE "none"

\* A delimiter opens what it opens; a solidus begins a name.
Delimited(s, byte) ==
  [s EXCEPT !.token = "none", !.name = (byte = "/"),
            !.strings = IF byte = "(" THEN 1 ELSE 0,
            !.angle = IF byte \in {"<", ">"} THEN byte ELSE "none",
            !.comment = (byte = "%")]

AtDelimiter(s, byte) ==
  IF s.token = "none" THEN {Quiet(Delimited(s, byte))}
  ELSE {Closed(Delimited([s EXCEPT !.length = Captured(s, word)], byte),
               SignalOf(word), {word}) : word \in WordsOf(s)}

(***************************************************************************)
(* Angle brackets come in pairs, but for a hex string.                     *)
(***************************************************************************)
OpenDict(s) == [s EXCEPT !.angle = "none", !.dicts = @ + 1, !.wasOpen = TRUE]

CloseDict(s) ==
  LET left == IF s.dicts = 0 THEN 0 ELSE s.dicts - 1 IN
  Closed([s EXCEPT !.angle = "none", !.dicts = left],
         IF left = 0 /\ s.wasOpen THEN "dictClosed" ELSE "none", {})

\* ObjectScanner::consume.
Steps(s, byte) ==
  CASE s.comment -> {Quiet([s EXCEPT !.comment = (byte \notin LineEnds)])}
    [] s.strings > 0 -> {Quiet(InString(s, byte))}
    [] s.hex -> {Quiet([s EXCEPT !.hex = (byte # ">")])}
    [] s.angle = "<" /\ byte = "<" -> {Quiet(OpenDict(s))}
    [] s.angle = "<" /\ byte # "<" ->
         {Quiet([s EXCEPT !.angle = "none", !.hex = (byte # ">")])}
    [] s.angle = ">" /\ byte = ">" -> {CloseDict(s)}
    [] OTHER ->
         LET t == [s EXCEPT !.angle = "none"] IN
         IF byte \in White \cup Delimiters THEN AtDelimiter(t, byte)
         ELSE {Quiet([t EXCEPT !.token = token]) : token \in Grown(t.token)}
==============================================================================
