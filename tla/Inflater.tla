------------------------------- MODULE Inflater -------------------------------
(***************************************************************************)
(* RawInflater (inflate.rs): compressed bytes staged before each call of   *)
(* the deflate decoder, output taken from it in windows of bounded length. *)
(*                                                                         *)
(* A compressed byte is how many bytes it decodes to and whether it is the *)
(* last of its stream, or malformed.  Output is a length.                  *)
(***************************************************************************)
EXTENDS Naturals, Sequences

CONSTANTS
  Stage,   \* STAGE_BYTES
  Window,  \* OUT_BYTES
  Dict,    \* what the decoder holds before it stops reading
  Growth   \* what a compressed byte may decode to

ASSUME InflaterAssumption ==
  {Stage, Window, Dict} \subseteq Nat \ {0} /\ Growth \subseteq Nat

CompressedByte == [grows : Growth, kind : {"block", "last", "bad"}]

(***************************************************************************)
(* The decoder (miniz_oxide), by how drain uses it.  It holds what found   *)
(* no room in the window; while it holds any it reads nothing.             *)
(***************************************************************************)
NewDecoder == [held |-> 0, over |-> FALSE, bad |-> FALSE]

\* How far the decoder reads: to the end marker, to a malformed byte, or
\* until it holds all it can.
Decoded(decoder, input) ==
  LET run[n \in 0..Len(input)] ==
        IF n = 0 THEN decoder
        ELSE LET before == run[n - 1] byte == input[n] IN
             [held |-> before.held + byte.grows,
              over |-> byte.kind = "last", bad |-> byte.kind = "bad"]
      Stops(n) == n = Len(input) \/ run[n].held >= Dict \/ run[n].over \/ run[n].bad
      read == CHOOSE n \in 0..Len(input) :
                /\ n > 0 /\ Stops(n)
                /\ \A m \in 1..(n - 1) : ~Stops(m)
  IN [after |-> run[read], read |-> read]

Result(decoder, read, written, status) ==
  [decoder |-> [decoder EXCEPT !.held = @ - written],
   read |-> read, written |-> written, status |-> status]

Room(held) == IF held < Window THEN held ELSE Window

Status(d) ==
  IF d.bad THEN "data"
  ELSE IF d.over /\ d.held <= Window THEN "streamEnd" ELSE "ok"

\* The finishing call wants all that is left to fit the window.
Finishing(d) ==
  IF Status(d) # "ok" THEN Status(d) ELSE IF d.held >= Window THEN "buf" ELSE "data"

HavingRead(decoded, finishing) ==
  LET d == decoded.after IN
  Result(d, decoded.read, Room(d.held), IF finishing THEN Finishing(d) ELSE Status(d))

Inflate(decoder, input, finishing) ==
  IF decoder.held > 0 THEN Result(decoder, 0, Room(decoder.held), Status(decoder))
  ELSE IF input = <<>>
  THEN Result(decoder, 0, 0, IF finishing THEN "data" ELSE "buf")
  ELSE HavingRead(Decoded(decoder, input), finishing)

(***************************************************************************)
(* RawInflater.                                                            *)
(***************************************************************************)
Inflaters ==
  [decoder : [held : Nat, over : BOOLEAN, bad : BOOLEAN], staged : Seq(CompressedByte),
   pending : Nat, produced : Nat, done : BOOLEAN, fault : {"none", "Malformed", "Geometry"}]

NewInflater ==
  [decoder |-> NewDecoder, staged |-> <<>>, pending |-> 0, produced |-> 0,
   done |-> FALSE, fault |-> "none"]

Faulted(inflater, fault) == [inflater EXCEPT !.fault = fault]

\* What the loop of drain does behind a call: go on, or stop.
Go(after, stop) == [after |-> after, stop |-> stop]

Behind(inflater, result, finishing) ==
  LET fed == [inflater EXCEPT
                !.decoder = result.decoder,
                !.staged = SubSeq(@, result.read + 1, Len(@)),
                !.pending = @ + result.written,
                !.produced = @ + result.written]
      stalled == result.read = 0 /\ result.written = 0
  IN CASE result.status = "streamEnd" -> Go([fed EXCEPT !.done = TRUE], TRUE)
       [] result.status = "data" -> Go(Faulted(fed, "Malformed"), TRUE)
       [] result.status = "buf" ->
            Go(IF finishing THEN Faulted(fed, "Geometry") ELSE fed, TRUE)
       [] OTHER ->
            IF finishing /\ stalled /\ fed.staged = <<>> THEN Go(Faulted(fed, "Geometry"), TRUE)
            ELSE Go(fed, fed.staged = <<>> /\ (~finishing \/ stalled))

\* One turn of the loop.
Turn(inflater, finishing) ==
  Behind(inflater, Inflate(inflater.decoder, inflater.staged, finishing), finishing)

\* The loop of drain: turn after turn, until one stops.
DrainLoop(inflater, finishing) ==
  LET loop[i \in Inflaters] ==
        LET turn == Turn(i, finishing) IN
        IF turn.stop THEN turn.after ELSE loop[turn.after]
  IN loop[inflater]

\* Drain once the stream is over does nothing.
Drain(inflater, finishing) ==
  IF inflater.done \/ inflater.fault # "none" THEN inflater
  ELSE DrainLoop(inflater, finishing)

DrainNow(inflater) == Drain(inflater, FALSE)

PushByte(inflater, byte) ==
  IF inflater.done THEN Faulted(inflater, "Geometry")
  ELSE LET fed == [inflater EXCEPT !.staged = Append(@, byte)] IN
       IF Len(fed.staged) >= Stage THEN Drain(fed, FALSE) ELSE fed

\* Mutant: the finishing call is the only one.
WindowedNot(inflater) == inflater

\* What is staged may decode to more than one window: read it all first.
Windowed(inflater) == Drain(inflater, FALSE)

\* The stream must be over, and nothing left behind it.
Complete(closed) ==
  IF closed.fault = "none" /\ (~closed.done \/ closed.staged # <<>>)
  THEN Faulted(closed, "Geometry") ELSE closed

CloseInflater(inflater) == Complete(Drain(Windowed(inflater), TRUE))

TakePending(inflater) == [inflater EXCEPT !.pending = 0]
TakeTrailing(inflater) == [inflater EXCEPT !.staged = <<>>]
==============================================================================
