------------------------------ MODULE Decomposer ------------------------------
(***************************************************************************)
(* The recursion driver of decompose/decomposer.rs: a stack of container   *)
(* levels, each with a reader that turns container bytes into events.  The *)
(* mutual recursion of feed_level, dispatch, route_bytes, decide_member,   *)
(* close_member and finish_levels_from is unrolled into steps: what is     *)
(* left of its call frames are the bytes (`input`) and the events          *)
(* (`queue`) a level has not worked off, and the deepest level with work   *)
(* is always the one that runs.                                            *)
(*                                                                         *)
(* Contents are abstracted to lengths.  What a reader finds in the next    *)
(* byte, what a prefix is recognised as, and whether a path is acceptable  *)
(* are nondeterministic; office facts and media types are left out.        *)
(***************************************************************************)
EXTENDS Integers, Sequences, FiniteSets

CONSTANTS
  MaxDepth,  \* MAX_DEPTH
  MaxTotal,  \* MAX_TOTAL_MEMBERS
  ProbeLen,  \* the bytes needed to recognise a container, TAR included
  Inflate,   \* bound on the bytes one compressed byte produces
  MaxInput,  \* bound on the length of the compound
  Lengths    \* the lengths a run of bytes can have

ASSUME DecomposerAssumption ==
  /\ MaxDepth \in Nat \ {0} /\ MaxTotal \in Nat /\ ProbeLen \in Nat \ {0}
  /\ Inflate \in Nat \ {0} /\ MaxInput \in Nat /\ Lengths \subseteq Nat

VARIABLES
  phase,   \* "detect", "run", "done", "rejected"
  outer,   \* the length of the outer prefix buffered for detection
  levels,  \* the levels, the outermost first; the depth of levels[i] is i - 1
  total,   \* members and entries counted in the whole walk
  ending,  \* finish has been called
  pushed,  \* how much of the compound was pushed
  heard    \* the sink callbacks of the last step that made any

vars == <<phase, outer, levels, total, ending, pushed, heard>>

(***************************************************************************)
(* Events and readers.  A reader that wraps gzip first buffers what it     *)
(* inflates ("detect") and then is a TAR reader or a single member.        *)
(***************************************************************************)
Announce == [is |-> "announce"]
Entry == [is |-> "entry"]
Start == [is |-> "start"]
Data(n) == [is |-> "bytes", n |-> n]
End(n) == [is |-> "end", n |-> n]

\* ReaderOut: bytes join bytes that wait at the back.
WithBytes(out, n) ==
  LET last == Len(out) IN
  IF n = 0 THEN out
  ELSE IF out # <<>> /\ out[last].is = "bytes"
  THEN [out EXCEPT ![last].n = @ + n]
  ELSE Append(out, Data(n))

\* inside: a member is open; made: its bytes so far.
Reader(format) ==
  [format |-> format, wrapped |-> format = "detect", buffered |-> 0,
   inside |-> FALSE, made |-> 0, out |-> <<>>]

\* A byte between members: more of a header, or the end of one.
BetweenMembers(r) ==
  {r, [r EXCEPT !.out = Append(@, Entry)],
      [r EXCEPT !.out = Append(@, Start), !.inside = TRUE, !.made = 0],
      [r EXCEPT !.out = @ \o <<Start, End(0)>>, !.made = 0]}

\* A byte that makes n member bytes, which may be the last ones.
InMember(r, n) ==
  LET grown == [r EXCEPT !.made = @ + n, !.out = WithBytes(@, n)] IN
  {grown, [grown EXCEPT !.inside = FALSE, !.out = Append(@, End(grown.made))]}

ArchiveByte(r) ==
  IF ~r.inside THEN BetweenMembers(r)
  ELSE IF r.format = "tar" THEN InMember(r, 1)
  ELSE UNION {InMember(r, n) : n \in 0..Inflate}

\* n bytes of the archive a gzip stream wraps.
TarRun(r, n) ==
  LET run[k \in 0..n] ==
        IF k = 0 THEN {r} ELSE UNION {ArchiveByte(s) : s \in run[k - 1]}
  IN run[n]

\* Mutant: what was inflated before the decision is not counted.
InflatedUncounted(r, n) ==
  (IF n < ProbeLen THEN {}
   ELSE TarRun([r EXCEPT !.format = "tar", !.buffered = 0, !.out = <<Announce>>], n))
  \cup {[r EXCEPT !.format = "single", !.buffered = 0, !.made = 0,
                  !.out = WithBytes(<<Announce, Start>>, n)]}

\* GzReader::decide on the n bytes inflated so far.
Inflated(r, n) ==
  (IF n < ProbeLen THEN {}
   ELSE TarRun([r EXCEPT !.format = "tar", !.buffered = 0, !.out = <<Announce>>], n))
  \cup {[r EXCEPT !.format = "single", !.buffered = 0, !.made = n,
                  !.out = WithBytes(<<Announce, Start>>, n)]}

GzipByte(r) ==
  UNION {CASE n = 0 -> {r}
           [] n > 0 /\ r.format = "detect" ->
                IF r.buffered + n < ProbeLen THEN {[r EXCEPT !.buffered = @ + n]}
                                             ELSE Inflated(r, r.buffered + n)
           [] n > 0 /\ r.format = "tar" -> TarRun(r, n)
           [] n > 0 /\ r.format = "single" ->
                {[r EXCEPT !.made = @ + n, !.out = WithBytes(@, n)]}
         : n \in 0..Inflate}

\* What a reader may make of its next byte, unless it finds a fault.
ReaderPush(r) == IF r.wrapped THEN GzipByte(r) ELSE ArchiveByte(r)

\* What it may make of the end of its bytes.
ReaderFinish(r) ==
  LET ended == IF r.format = "detect" THEN Inflated(r, r.buffered) ELSE {r} IN
  {[s EXCEPT !.out = IF s.format = "single" THEN Append(@, End(s.made)) ELSE @]
   : s \in {s \in ended : ~s.inside}}

KindOf(r) ==
  CASE r.format = "zip" -> "zip"
    [] r.format = "tar" -> IF r.wrapped THEN "tar+gzip" ELSE "tar"
    [] r.format = "single" -> "gzip"

(***************************************************************************)
(* Levels.  `open` is the member in flight: "probing" while the sink has   *)
(* not been told of it; `told` is what the sink received of it.            *)
(***************************************************************************)
\* The kinds n bytes may be recognised as: a TAR only by a whole block.
Formats(n) ==
  IF n = 0 THEN {} ELSE {"zip", "detect"} \cup IF n < ProbeLen THEN {} ELSE {"tar"}

\* new_level, about to be fed n bytes.
Level(format, n) ==
  [reader |-> Reader(format), known |-> format # "detect", ended |-> FALSE,
   open |-> "none", probe |-> 0, told |-> 0, members |-> 0, entries |-> 0,
   input |-> n, queue |-> <<>>]

Busy == {i \in DOMAIN levels : levels[i].input > 0 \/ levels[i].queue # <<>>}
AtWork(i) == phase = "run" /\ i \in Busy /\ \A j \in Busy : j <= i
Handling(i, event) ==
  AtWork(i) /\ levels[i].queue # <<>> /\ Head(levels[i].queue).is = event
Idle == Busy = {} /\ ~ending

Handled(i) == [levels EXCEPT ![i].queue = Tail(@)]

ContainerStart(format, depth) ==
  IF format = "detect" THEN <<>>
  ELSE <<[call |-> "container_start", kind |-> format, depth |-> depth]>>
MemberStart(nested, depth) ==
  [call |-> "member_start", nested |-> nested, depth |-> depth]
MemberBytes(n, depth) == [call |-> "member_bytes", bytes |-> n, depth |-> depth]

Reject == phase' = "rejected" /\ ending' = FALSE /\ UNCHANGED <<outer, pushed, heard>>

Init ==
  /\ phase = "detect" /\ outer = 0 /\ levels = <<>> /\ total = 0
  /\ ending = FALSE /\ pushed = 0 /\ heard = <<>>

------------------------------------------------------------------------------
(***************************************************************************)
(* Calls.                                                                  *)
(***************************************************************************)
\* start_outer on the n bytes buffered, called by push or by finish.
StartOuter(n, finishing) ==
  /\ phase = "detect" /\ outer' = 0
  /\ \/ /\ phase' = "rejected" \* NotAContainer
        /\ UNCHANGED <<levels, ending, heard>>
     \/ \E format \in Formats(n) :
          /\ phase' = "run" /\ ending' = finishing
          /\ levels' = <<Level(format, n)>>
          /\ heard' = ContainerStart(format, 0)

PushWindow(n) ==
  /\ pushed + n <= MaxInput /\ pushed' = pushed + n
  /\ \/ /\ phase = "detect" /\ outer + n < ProbeLen
        /\ outer' = outer + n
        /\ UNCHANGED <<phase, levels, ending, heard>>
     \/ outer + n >= ProbeLen /\ StartOuter(outer + n, FALSE)
     \/ /\ phase = "run" /\ Idle
        /\ levels' = [levels EXCEPT ![1].input = n]
        /\ UNCHANGED <<phase, outer, ending, heard>>
  /\ UNCHANGED total

Finish ==
  /\ \/ StartOuter(outer, TRUE)
     \/ /\ phase = "run" /\ Idle /\ ending' = TRUE
        /\ UNCHANGED <<phase, outer, levels, heard>>
  /\ UNCHANGED <<total, pushed>>

\* finish after the walk was done: the decomposer is rejected.
FinishAgain ==
  /\ phase = "done"
  /\ phase' = "rejected"
  /\ UNCHANGED <<outer, levels, total, ending, pushed, heard>>

------------------------------------------------------------------------------
(***************************************************************************)
(* Steps of a call.                                                        *)
(***************************************************************************)
\* The reader of level i consumes a byte.
Feed(i) ==
  /\ AtWork(i) /\ levels[i].queue = <<>>
  /\ \/ /\ \E r \in ReaderPush(levels[i].reader) :
             levels' = [levels EXCEPT ![i].reader = [r EXCEPT !.out = <<>>],
                                      ![i].queue = r.out, ![i].input = @ - 1]
        /\ UNCHANGED <<phase, outer, ending, pushed, heard>>
     \/ Reject /\ UNCHANGED levels
  /\ UNCHANGED total

Announced(i) ==
  /\ Handling(i, "announce")
  /\ levels' = [Handled(i) EXCEPT ![i].known = TRUE]
  /\ heard' = IF levels[i].known THEN heard
              ELSE <<[call |-> "container_start", kind |-> KindOf(levels[i].reader),
                      depth |-> i - 1]>>
  /\ UNCHANGED <<phase, outer, total, ending, pushed>>

\* The path is not acceptable, or there are too many members and entries.
NotCounted ==
  /\ \E i \in DOMAIN levels : Handling(i, "entry") \/ Handling(i, "start")
  /\ total' \in {total} \cup {n \in {total + 1} : n > MaxTotal}
  /\ Reject /\ UNCHANGED levels

CountOne == total' = total + 1 /\ total' <= MaxTotal

Entered(i) ==
  /\ Handling(i, "entry") /\ CountOne
  /\ levels' = [Handled(i) EXCEPT ![i].entries = @ + 1]
  /\ heard' = <<[call |-> "entry", depth |-> i - 1]>>
  /\ UNCHANGED <<phase, outer, ending, pushed>>

Started(i) ==
  /\ Handling(i, "start") /\ CountOne
  /\ levels' = [Handled(i) EXCEPT ![i].open = "probing", ![i].probe = 0]
  /\ UNCHANGED <<phase, outer, ending, pushed, heard>>

\* decide_member of the member of level i, of which n bytes are buffered.
Decide(lvls, i, n) ==
  \/ \E format \in Formats(n) :
       IF Len(lvls) >= MaxDepth THEN Reject /\ levels' = lvls
       ELSE /\ levels' = Append([lvls EXCEPT ![i].open = "nested", ![i].probe = 0],
                                Level(format, n))
            /\ heard' = <<MemberStart(TRUE, i - 1)>> \o ContainerStart(format, i)
            /\ UNCHANGED <<phase, outer, ending, pushed>>
  \/ /\ levels' = [lvls EXCEPT ![i].open = "plain", ![i].probe = 0, ![i].told = n]
     /\ heard' = <<MemberStart(FALSE, i - 1), MemberBytes(n, i - 1)>>
     /\ UNCHANGED <<phase, outer, ending, pushed>>

\* route_bytes: to nobody, to the nested level, to the probe, to the sink.
Routed(i) ==
  LET n == Head(levels[i].queue).n
      open == levels[i].open
  IN /\ Handling(i, "bytes")
     /\ open = "probing" => levels[i].probe + n < ProbeLen
     /\ levels' = CASE open = "none" -> Handled(i)
                    [] open = "nested" -> [Handled(i) EXCEPT ![i + 1].input = n]
                    [] open = "probing" -> [Handled(i) EXCEPT ![i].probe = @ + n]
                    [] open = "plain" -> [Handled(i) EXCEPT ![i].told = @ + n]
     /\ heard' = IF open = "plain" THEN <<MemberBytes(n, i - 1)>> ELSE heard
     /\ UNCHANGED <<phase, outer, total, ending, pushed>>

\* The probe is full.
DecidedByProbe(i) ==
  LET n == levels[i].probe + Head(levels[i].queue).n IN
  /\ Handling(i, "bytes") /\ levels[i].open = "probing" /\ n >= ProbeLen
  /\ Decide(Handled(i), i, n)
  /\ UNCHANGED total

\* Mutant: a nested member ends before its container.
ClosedEarly(i) ==
  /\ Handling(i, "end") /\ levels[i].open # "probing"
  /\ levels' = [Handled(i) EXCEPT ![i].open = "none", ![i].told = 0,
                                  ![i].members = @ + 1]
  /\ heard' = <<[call |-> "member_end", bytes |-> Head(levels[i].queue).n,
                 depth |-> i - 1]>>
  /\ UNCHANGED <<phase, outer, total, ending, pushed>>

\* close_member, once the member is decided and the levels above are gone.
Closed(i) ==
  LET open == levels[i].open IN
  /\ Handling(i, "end") /\ open # "probing" /\ (open = "nested" => i = Len(levels))
  /\ IF open = "none" THEN levels' = Handled(i) /\ UNCHANGED heard
     ELSE /\ levels' = [Handled(i) EXCEPT ![i].open = "none", ![i].told = 0,
                                          ![i].members = @ + 1]
          /\ heard' = <<[call |-> "member_end", bytes |-> Head(levels[i].queue).n,
                         depth |-> i - 1]>>
  /\ UNCHANGED <<phase, outer, total, ending, pushed>>

\* Before that: the whole member fits in the probe.
DecidedAtEnd(i) ==
  /\ Handling(i, "end") /\ levels[i].open = "probing"
  /\ Decide(levels, i, levels[i].probe)
  /\ UNCHANGED total

\* finish_levels_from is to finish the top level: for close_member of the
\* level below, or for finish.
Finishing ==
  /\ phase = "run" /\ levels # <<>>
  /\ \/ \E i \in 1..Len(levels) - 1 : Handling(i, "end") /\ levels[i].open = "nested"
     \/ ending /\ Busy = {}

\* Mutant: that the reader was finished is forgotten.
FinishTopAgain ==
  LET top == Len(levels) IN
  /\ Finishing /\ ~levels[top].ended
  /\ \/ /\ \E r \in ReaderFinish(levels[top].reader) :
             levels' = [levels EXCEPT ![top].reader = [r EXCEPT !.out = <<>>],
                                      ![top].queue = r.out]
        /\ UNCHANGED <<phase, outer, ending, pushed, heard>>
     \/ Reject /\ UNCHANGED levels
  /\ UNCHANGED total

FinishTop ==
  LET top == Len(levels) IN
  /\ Finishing /\ ~levels[top].ended
  /\ \/ /\ \E r \in ReaderFinish(levels[top].reader) :
             levels' = [levels EXCEPT ![top].reader = [r EXCEPT !.out = <<>>],
                                      ![top].queue = r.out, ![top].ended = TRUE]
        /\ UNCHANGED <<phase, outer, ending, pushed, heard>>
     \/ Reject /\ UNCHANGED levels
  /\ UNCHANGED total

PopTop ==
  LET top == Len(levels) IN
  /\ Finishing /\ levels[top].ended
  /\ levels' = SubSeq(levels, 1, top - 1)
  /\ IF levels[top].open # "none" THEN Reject
     ELSE /\ heard' = <<[call |-> "container_end", members |-> levels[top].members,
                         entries |-> levels[top].entries, depth |-> top - 1]>>
          /\ UNCHANGED <<phase, outer, ending, pushed>>
  /\ UNCHANGED total

Finished ==
  /\ phase = "run" /\ ending /\ levels = <<>>
  /\ phase' = "done" /\ ending' = FALSE
  /\ UNCHANGED <<outer, levels, total, pushed, heard>>

Step ==
  \/ \E i \in DOMAIN levels :
       Feed(i) \/ Announced(i) \/ Entered(i) \/ Started(i) \/ Routed(i)
       \/ DecidedByProbe(i) \/ Closed(i) \/ DecidedAtEnd(i)
  \/ NotCounted \/ FinishTop \/ PopTop \/ Finished

Next == Step \/ (\E n \in 1..MaxInput : PushWindow(n)) \/ Finish \/ FinishAgain

\* A call that was made runs on.
Spec == Init /\ [][Next]_vars /\ WF_vars(Step)

------------------------------------------------------------------------------
(***************************************************************************)
(* Properties.                                                             *)
(***************************************************************************)
Events ==
  [is : {"announce", "entry", "start"}] \cup [is : {"bytes", "end"}, n : Nat]

Readers ==
  [format : {"zip", "tar", "detect", "single"}, wrapped : BOOLEAN,
   buffered : 0..ProbeLen - 1, inside : BOOLEAN, made : Nat, out : {<<>>}]

Levels ==
  [reader : Readers, known : BOOLEAN, ended : BOOLEAN,
   open : {"none", "probing", "plain", "nested"}, probe : 0..ProbeLen - 1,
   told : Nat, members : 0..MaxTotal, entries : 0..MaxTotal,
   input : Nat, queue : Seq(Events)]

(* The types of the variables; every buffer of undecided bytes stays below  *)
(* the probe's length between two steps.                                    *)
DecomposerTypeOK ==
  /\ phase \in {"detect", "run", "done", "rejected"}
  /\ outer \in 0..ProbeLen - 1
  /\ levels \in Seq(Levels)
  /\ total \in 0..MaxTotal + 1
  /\ ending \in BOOLEAN /\ pushed \in 0..MaxInput

(* The stack is the path of nested members to the one in flight: it is      *)
(* never deeper than the limit, every level but the top is inside a nested  *)
(* member, and the bytes of a nested member find its level above            *)
(* (feed_level indexes it without a check).                                 *)
StackIsThePath ==
  /\ Len(levels) <= MaxDepth
  /\ \A i \in 1..Len(levels) - 1 : levels[i].open = "nested"
  /\ \A i \in DOMAIN levels :
       Handling(i, "bytes") /\ levels[i].open = "nested" => i < Len(levels)

(* What the sink has heard of the walk, as a DecompositionSink sees it.     *)
SinkStack ==
  LET told == Cardinality({i \in DOMAIN levels : levels[i].known})
      member(i) ==
        CASE levels[i].open \in {"none", "probing"} -> "none"
          [] levels[i].open = "plain" -> "plain"
          [] levels[i].open = "nested" ->
               IF i = Len(levels) THEN "walked" ELSE "nested"
  IN [i \in 1..told |->
        [member |-> member(i), told |-> levels[i].told,
         members |-> levels[i].members, entries |-> levels[i].entries]]

Walk ==
  CASE phase = "done" -> "complete"
    [] phase = "rejected" -> "refused"
    [] OTHER -> "open"

Sink == INSTANCE DecompositionSink WITH stack <- SinkStack, walk <- Walk

(* The driver keeps the protocol of the sink: whatever the compound holds   *)
(* and however it is cut into windows, the callbacks are those of one walk. *)
ImplementsSink == Sink!Spec

(* Every call returns: whatever the compound holds, the recursion and the   *)
(* finishing loop come to an end.                                           *)
CallsReturn == []<>(phase = "run" => Idle)
==============================================================================
