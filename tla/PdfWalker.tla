------------------------------ MODULE PdfWalker ------------------------------
(***************************************************************************)
(* The PDF walker (chunker/pdf/walker.rs): the header line, then objects   *)
(* with their stream payloads, comments, xref tables, trailers and         *)
(* startxref, through any number of updates, read once.                    *)
(*                                                                         *)
(* A byte is a member of the class the current state tells it by: letters  *)
(* of a keyword only where the keyword is matched letter by letter.  What  *)
(* a retained word or line says is chosen when it closes.                  *)
(***************************************************************************)
EXTENDS PdfScanner, SequencesExt

CONSTANTS
  MagicLen,     \* the length of the magic
  Endstream,    \* the letters of the keyword that ends a payload
  EntryLen,     \* the bytes of one xref entry
  Counts,       \* the entries an xref subsection declares
  TrailerLines, \* the lines that begin with `trailer`, as their parts
  LineMax,      \* LINE_MAX
  MaxDepth,     \* bound on the nesting of strings and dictionaries
  MaxWords      \* bound on the words of an object before its stream

ASSUME PdfAssumption ==
  /\ Lengths \subseteq Nat /\ Counts \subseteq Nat
  /\ {MagicLen, EntryLen, LineMax, MaxDepth, MaxWords} \subseteq Nat \ {0}
  /\ Endstream \in Seq(STRING) /\ Len(Endstream) > 0
  /\ \A line \in TrailerLines : Len(line) > 0

VARIABLES
  state,    \* what the walker is doing
  eofLast,  \* the last completed item was the end marker
  status,   \* "walking", "ended", or the fault
  words,    \* ghost: the words of the object since its last /Length
  tail,     \* ghost: the last bytes since the payload's scan began
  seen,     \* ghost: the bytes since the payload began
  last      \* ghost: what the item begun last turned out to be

vars == <<state, eofLast, status, words, tail, seen, last>>
ghosts == <<words, tail, seen, last>>

Faults == {"NotPdf", "BadObjectHeader", "BadKeyword", "BadStreamEol",
           "XrefGeometry", "Truncated", "MissingEof"}

EofMark == <<"%", "%", "E", "O", "F">>
MarkLen == Len(EofMark)

\* The keywords that begin an item, by their first letter.
Keyword == [xref |-> "x", trailer |-> "t", startxref |-> "s"]

(***************************************************************************)
(* The states.                                                             *)
(***************************************************************************)
Magic(matched) == [kind |-> "magic", matched |-> matched]
HeaderLine == [kind |-> "headerLine"]
Item == [kind |-> "item"]
Comment(len, isMark) == [kind |-> "comment", len |-> len, isMark |-> isMark]
ObjHeader(ints, seenDigits) ==
  [kind |-> "objHeader", ints |-> ints, seenDigits |-> seenDigits]
Object(scanner) == [kind |-> "object", scanner |-> scanner]
StreamEol(scanner) == [kind |-> "streamEol", scanner |-> scanner]
StreamBytes(scanner, remaining) ==
  [kind |-> "streamBytes", scanner |-> scanner, remaining |-> remaining]
StreamClose(scanner, matched) ==
  [kind |-> "streamClose", scanner |-> scanner, matched |-> matched]
StreamScan(scanner, matched) ==
  [kind |-> "streamScan", scanner |-> scanner, matched |-> matched]
ItemKeyword(first) == [kind |-> "itemKeyword", first |-> first]
XrefLine(len, dark) == [kind |-> "xrefLine", len |-> len, dark |-> dark]
XrefEntries(remaining) == [kind |-> "xrefEntries", remaining |-> remaining]
Trailer(scanner) == [kind |-> "trailer", scanner |-> scanner]
StartxrefLine(seenDigit) == [kind |-> "startxrefLine", seenDigit |-> seenDigit]

NewLine == XrefLine(0, FALSE)

At(kind) == status = "walking" /\ state.kind = kind

Init ==
  /\ state = Magic(0) /\ eofLast = FALSE /\ status = "walking"
  /\ words = <<>> /\ tail = <<>> /\ seen = 0 /\ last = "none"

\* The byte fails the walk; the driver never calls the walker again.
Refuse(fault) ==
  /\ status' = fault
  /\ UNCHANGED <<state, eofLast, ghosts>>

GoTo(next) == state' = next /\ UNCHANGED <<eofLast, status>>

\* Mutant: the marker counts wherever it stands.
ItemBeginsAfterMark == last' = "other" /\ UNCHANGED eofLast

\* The marker counts only until another item begins.
ItemBegins == last' = "other" /\ eofLast' = FALSE

(***************************************************************************)
(* The header, and what an item begins with.                               *)
(***************************************************************************)
MatchMagic ==
  /\ At("magic")
  /\ \/ Refuse("NotPdf")
     \/ /\ GoTo(IF state.matched + 1 = MagicLen THEN HeaderLine ELSE Magic(state.matched + 1))
        /\ UNCHANGED ghosts

FinishHeaderLine ==
  /\ At("headerLine")
  /\ \E byte \in {"eol", "other"} : GoTo(IF byte = "eol" THEN Item ELSE HeaderLine)
  /\ UNCHANGED ghosts

SkipWhite == At("item") /\ UNCHANGED vars

BeginItem ==
  /\ At("item")
  /\ ItemBegins
  /\ state' \in {Comment(1, TRUE), ObjHeader(0, TRUE)}
                \cup {ItemKeyword(Keyword[k]) : k \in DOMAIN Keyword}
  /\ UNCHANGED <<status, words, tail, seen>>

BadItem ==
  /\ At("item")
  /\ status' = "BadKeyword"
  /\ ItemBegins
  /\ UNCHANGED <<state, words, tail, seen>>

\* The item that ends with this byte.
Told(comment) == IF comment.isMark /\ comment.len = MarkLen THEN "mark" ELSE "comment"

IsMark(comment) == comment.isMark /\ comment.len = MarkLen

ReadComment ==
  /\ At("comment")
  /\ \/ \E byte \in Range(EofMark) \cup {"other"} :
          LET len == state.len + 1 IN
          /\ GoTo(Comment(IF len > MarkLen THEN MarkLen + 1 ELSE len,
                          state.isMark /\ (len <= MarkLen => byte = EofMark[len])))
          /\ UNCHANGED ghosts
     \/ /\ state' = Item /\ eofLast' = IsMark(state)
        /\ last' = Told(state)
        /\ UNCHANGED <<status, words, tail, seen>>

(***************************************************************************)
(* Objects.                                                                *)
(***************************************************************************)
\* The integers counted once the run of digits under way is over.
IntsSoFar == IF state.seenDigits THEN state.ints + 1 ELSE state.ints

ReadObjHeader ==
  /\ At("objHeader")
  /\ \E byte \in {"digit", "white", "o", "j", "other"} :
       CASE byte = "digit" -> GoTo(ObjHeader(state.ints, TRUE)) /\ UNCHANGED ghosts
         [] byte = "white" ->
              IF IntsSoFar > 2 THEN Refuse("BadObjectHeader")
              ELSE GoTo(ObjHeader(IntsSoFar, FALSE)) /\ UNCHANGED ghosts
         [] byte = "other" -> Refuse("BadObjectHeader")
         [] OTHER ->
              IF IntsSoFar # 2 THEN Refuse("BadObjectHeader")
              ELSE /\ GoTo(IF byte = "j" THEN Object(NewScanner) ELSE ObjHeader(2, FALSE))
                   /\ words' = <<>>
                   /\ UNCHANGED <<tail, seen, last>>

\* stream_payload: what the dictionary said of the payload decides.
PayloadState(scanner) ==
  IF ~HasLength(scanner) THEN StreamScan(scanner, 0)
  ELSE IF scanner.length.value = 0 THEN StreamClose(scanner, 0)
  ELSE StreamBytes(scanner, scanner.length.value)

\* Ghost: the words behind the last /Length; spent once a payload began.
Spent == <<Word("spent", 0)>>

BeginPayload(scanner) ==
  /\ GoTo(PayloadState(scanner))
  /\ words' = Spent /\ tail' = <<>> /\ seen' = 0
  /\ UNCHANGED last

\* Ghost: a word tells whether it is a number, and which if it is the value.
Noted(word) ==
  IF word.kind = "int" THEN (IF Len(words) = 1 THEN word ELSE Number(0))
  ELSE Word(IF word.kind = "R" THEN "R" ELSE "other", 0)

Heard(closed) ==
  IF closed = {} \/ words = Spent THEN words
  ELSE LET word == CHOOSE w \in closed : TRUE IN
       IF word.kind = "Length" /\ state.scanner.dicts = 1 THEN <<word>>
       ELSE IF words = <<>> THEN <<>> ELSE Append(words, Noted(word))

Bounded(scanner) == scanner.strings <= MaxDepth /\ scanner.dicts <= MaxDepth

ReadObject ==
  /\ At("object")
  /\ \E byte \in ObjectBytes : \E step \in Steps(state.scanner, byte) :
       /\ Bounded(step.scanner)
       /\ CASE step.signal = "streamBegins" ->
                 IF byte = "eol" THEN BeginPayload(step.scanner)
                 ELSE IF byte = "cr" THEN GoTo(StreamEol(step.scanner)) /\ UNCHANGED ghosts
                 ELSE Refuse("BadStreamEol")
            [] step.signal = "objectEnds" ->
                 /\ GoTo(Item)
                 /\ words' = <<>> /\ tail' = <<>> /\ seen' = 0 /\ UNCHANGED last
            [] OTHER ->
                 /\ words' = Heard(step.words) /\ Len(words') <= MaxWords
                 /\ GoTo(Object(step.scanner))
                 /\ UNCHANGED <<tail, seen, last>>

FinishStreamEol ==
  /\ At("streamEol")
  /\ \/ BeginPayload(state.scanner)
     \/ Refuse("BadStreamEol")

(***************************************************************************)
(* Stream payloads: counted, closed behind the count, or scanned.          *)
(***************************************************************************)
CountPayload ==
  /\ At("streamBytes")
  /\ GoTo(IF state.remaining = 1 THEN StreamClose(state.scanner, 0)
          ELSE StreamBytes(state.scanner, state.remaining - 1))
  /\ seen' = seen + 1
  /\ UNCHANGED <<words, tail, last>>

PayloadBytes == Range(Endstream) \cup {"white", "other"}

\* Ghost: the longest end of the payload that begins the keyword.
Scanned(byte) ==
  LET bytes == Append(tail, byte)
      Ends == {n \in 0..Len(bytes) :
                 IsPrefix(SubSeq(bytes, n + 1, Len(bytes)), Endstream)}
  IN tail' = SubSeq(bytes, Min(Ends) + 1, Len(bytes))

\* Mutant: what was matched before the mismatch counts on.
RestartedLate(matched, byte) == IF byte = Endstream[1] THEN matched + 1 ELSE 0

\* A mismatched byte may begin the keyword, and only begin it.
Restarted(matched, byte) == IF byte = Endstream[1] THEN 1 ELSE 0

\* The keyword's next letter; behind the last one the object goes on.
Matched(next) ==
  IF next = Len(Endstream) THEN Object(state.scanner)
  ELSE [state EXCEPT !.matched = next]

\* A declared length that does not land on the keyword falls back to scanning.
ClosePayload ==
  /\ At("streamClose")
  /\ \E byte \in PayloadBytes :
       /\ GoTo(IF state.matched = 0 /\ byte = "white" THEN state
               ELSE IF byte = Endstream[state.matched + 1] THEN Matched(state.matched + 1)
               ELSE StreamScan(state.scanner, Restarted(state.matched, byte)))
       /\ Scanned(byte)
  /\ UNCHANGED <<words, seen, last>>

ScanPayload ==
  /\ At("streamScan")
  /\ \E byte \in PayloadBytes :
       /\ GoTo(IF byte = Endstream[state.matched + 1] THEN Matched(state.matched + 1)
               ELSE StreamScan(state.scanner, Restarted(state.matched, byte)))
       /\ Scanned(byte)
  /\ UNCHANGED <<words, seen, last>>

(***************************************************************************)
(* Keywords, xref tables, trailers and startxref.                          *)
(***************************************************************************)
\* The word ends with this byte, which is not a lowercase letter.
ReadItemKeyword ==
  /\ At("itemKeyword")
  /\ \/ UNCHANGED vars
     \/ Refuse("BadKeyword")
     \/ \E byte \in ObjectBytes \cup {"digit"} :
          /\ CASE state.first = Keyword.xref -> GoTo(NewLine)
               [] state.first = Keyword.trailer ->
                    LET fed == IF byte = "digit" THEN Regular ELSE byte IN
                    \E step \in Steps(NewScanner, fed) : GoTo(Trailer(step.scanner))
               [] state.first = Keyword.startxref -> GoTo(StartxrefLine(byte = "digit"))
          /\ UNCHANGED ghosts

\* A scanner that is fed a line's bytes, until a dictionary closes.
Fed(steps, byte) ==
  UNION {IF step.signal = "dictClosed" THEN {step} ELSE Steps(step.scanner, byte) :
           step \in steps}

\* What the bytes glued to `trailer` signal is not heard.
FedUnheard(steps, byte) == {Quiet(step.scanner) : step \in Fed(steps, byte)}

FedPart(steps, part) == FoldLeft(Fed, Fed(steps, "blank"), part)

TrailerStates(line) ==
  LET glued == FoldLeft(FedUnheard, {Quiet(NewScanner)}, Head(line)) IN
  {IF step.signal = "dictClosed" THEN Item ELSE Trailer(step.scanner) :
     step \in FoldLeft(FedPart, glued, Tail(line))}

\* close_xref_line: two parts are a subsection header, whatever they say.
CloseXrefLine ==
  /\ At("xrefLine")
  /\ \/ /\ ~state.dark
        /\ GoTo(NewLine) /\ UNCHANGED ghosts
     \/ /\ state.dark
        /\ \E count \in Counts :
             GoTo(IF count = 0 THEN NewLine ELSE XrefEntries(count * EntryLen))
        /\ UNCHANGED ghosts
     \/ /\ state.dark
        /\ \E line \in {l \in TrailerLines : Len(l) # 2} :
             \E next \in TrailerStates(line) : GoTo(next)
        /\ UNCHANGED ghosts
     \/ /\ state.dark
        /\ Refuse("XrefGeometry")

ReadXrefLine ==
  /\ At("xrefLine")
  /\ IF state.len >= LineMax THEN Refuse("XrefGeometry")
     ELSE /\ \E dark \in {state.dark, TRUE} : GoTo(XrefLine(state.len + 1, dark))
          /\ UNCHANGED ghosts

SkipXrefEntries ==
  /\ At("xrefEntries")
  /\ GoTo(IF state.remaining = 1 THEN NewLine ELSE XrefEntries(state.remaining - 1))
  /\ UNCHANGED ghosts

ReadTrailer ==
  /\ At("trailer")
  /\ \E byte \in ObjectBytes : \E step \in Steps(state.scanner, byte) :
       /\ Bounded(step.scanner)
       /\ GoTo(IF step.signal = "dictClosed" THEN Item ELSE Trailer(step.scanner))
  /\ UNCHANGED ghosts

ReadStartxref ==
  /\ At("startxrefLine")
  /\ \/ GoTo(StartxrefLine(TRUE)) /\ UNCHANGED ghosts
     \/ GoTo(IF state.seenDigit THEN Item ELSE state) /\ UNCHANGED ghosts
     \/ Refuse("BadKeyword")

(***************************************************************************)
(* The end of the stream: Walker::finish.                                  *)
(***************************************************************************)
Verdict ==
  CASE state.kind = "item" /\ eofLast -> "ended"
    [] state.kind \in {"magic", "headerLine"} -> "NotPdf"
    [] state.kind = "comment" \/ (state.kind = "item" /\ ~eofLast) -> "MissingEof"
    [] OTHER -> "Truncated"

Finish ==
  /\ status = "walking" /\ status' = Verdict
  /\ UNCHANGED <<state, eofLast, ghosts>>

Done == status # "walking" /\ UNCHANGED vars

Next ==
  \/ MatchMagic \/ FinishHeaderLine \/ SkipWhite \/ BeginItem \/ BadItem
  \/ ReadComment \/ ReadObjHeader \/ ReadObject \/ FinishStreamEol
  \/ CountPayload \/ ClosePayload \/ ScanPayload
  \/ ReadItemKeyword \/ CloseXrefLine \/ ReadXrefLine \/ SkipXrefEntries
  \/ ReadTrailer \/ ReadStartxref \/ Finish \/ Done

Spec == Init /\ [][Next]_vars

(***************************************************************************)
(* Properties.                                                             *)
(***************************************************************************)
InPayload == {"streamBytes", "streamClose", "streamScan"}

\* Every counter the walker keeps has room for what it counts: it stops at
\* the length it counts to, and no step takes it past that or below one.
TypeOK ==
  /\ eofLast \in BOOLEAN
  /\ status \in {"walking", "ended"} \cup Faults
  /\ state.kind = "magic" => state.matched \in 0..(MagicLen - 1)
  /\ state.kind = "objHeader" => state.ints \in 0..2
  /\ state.kind = "streamBytes" => state.remaining \in Nat \ {0}
  /\ state.kind \in {"streamClose", "streamScan"} =>
       state.matched \in 0..(Len(Endstream) - 1)
  /\ state.kind = "xrefEntries" => state.remaining \in Nat \ {0}
  /\ state.kind = "xrefLine" => state.len \in 0..LineMax

\* The words behind /Length, read as a PDF reader reads them: a number is the
\* length unless two numbers and R make it a reference.
Reading ==
  CASE Len(words) < 2 -> "none"
    [] words[2].kind # "int" -> "none"
    [] Len(words) >= 4 /\ words[3].kind = "int" /\ words[4].kind = "R" -> "none"
    [] OTHER -> "direct"

\* Two numbers stand before every R of a well-formed dictionary.
WellFormed ==
  \A i \in DOMAIN words :
    words[i].kind = "R" =>
      i >= 4 /\ words[i - 1].kind = "int" /\ words[i - 2].kind = "int"

\* A payload is counted exactly when the dictionary gives its length directly,
\* and by that number: neither a reference, nor a nested dictionary's length,
\* nor the numbers of later entries are taken for it (object.rs, length_token
\* and length_r).
LengthIsTheDirectOne ==
  [][state.kind \in {"object", "streamEol"} /\ state'.kind \in InPayload
       /\ words # Spent /\ WellFormed
     => IF Reading = "none" THEN state'.kind = "streamScan"
        ELSE IF words[2].value = 0 THEN state'.kind = "streamClose"
        ELSE state'.kind = "streamBytes" /\ state'.remaining = words[2].value]_vars

\* A payload ends only with the letters of `endstream`, all of them and none
\* counted twice, and not before its declared length is behind it, whatever
\* was matched and given up before (consume, StreamClose and StreamScan).
PayloadEndsAtEndstream ==
  [][state.kind \in InPayload /\ state'.kind = "object"
     => /\ tail' = Endstream
        /\ HasLength(state.scanner) => seen = state.scanner.length.value]_vars

\* An accepted document ends with the marker, whatever number of updates it
\* holds and however many markers stood inside (finish, and the comment line).
FinishedWhole == status = "ended" => last = "mark"
==============================================================================
