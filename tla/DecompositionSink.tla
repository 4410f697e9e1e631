-------------------------- MODULE DecompositionSink --------------------------
(***************************************************************************)
(* What a DecompositionSink may rely on (decompose/sink.rs): the callbacks *)
(* arrive in container order, one member in flight at a time; the events   *)
(* of a nested container arrive between its member_start and member_end,   *)
(* one level deeper; a nested member holds exactly one container and none  *)
(* of its bytes are delivered; the facts of an end agree with what was     *)
(* heard since the start; and nothing is heard after the walk is over.     *)
(***************************************************************************)
EXTENDS Naturals, Sequences

CONSTANT Lengths  \* the lengths a run of bytes may have

VARIABLES
  stack,  \* the containers under way, the outermost first
  walk,   \* "open", "complete" (finished), "refused" (not decomposable)
  heard   \* the callbacks of the last step that made any

sinkVars == <<stack, walk, heard>>

Kinds == {"zip", "tar", "tar+gzip", "gzip"}

\* The member in flight: "walked" is a nested one whose container ended.
Container == [member |-> "none", told |-> 0, members |-> 0, entries |-> 0]

Init == stack = <<>> /\ walk = "open" /\ heard = <<>>

Depth == Len(stack) - 1
Top == stack[Len(stack)]

\* The container on top, whose member in flight is `member`, becomes `now`.
InTop(member, now) ==
  /\ walk = "open" /\ stack # <<>> /\ Top.member = member
  /\ stack' = [stack EXCEPT ![Len(stack)] = now]
  /\ UNCHANGED walk

ContainerStart(kind) ==
  /\ walk = "open"
  /\ IF stack = <<>> THEN heard = <<>> ELSE Top.member = "nested"
  /\ stack' = Append(stack, Container)
  /\ heard' = <<[call |-> "container_start", kind |-> kind, depth |-> Depth + 1]>>
  /\ UNCHANGED walk

Entry ==
  /\ InTop("none", [Top EXCEPT !.entries = @ + 1])
  /\ heard' = <<[call |-> "entry", depth |-> Depth]>>

Started(nested) == [call |-> "member_start", nested |-> nested, depth |-> Depth]
Bytes(n) == [call |-> "member_bytes", bytes |-> n, depth |-> Depth]

\* A plain member starts with the bytes it was recognised by.
MemberStart(n) ==
  /\ InTop("none", [Top EXCEPT !.member = "plain", !.told = n])
  /\ heard' = <<Started(FALSE), Bytes(n)>>

\* A nested member whose container's kind is not known yet.
NestedStart ==
  /\ InTop("none", [Top EXCEPT !.member = "nested"])
  /\ heard' = <<Started(TRUE)>>

\* A nested member and the start of its container.
NestedContainerStart(kind) ==
  /\ walk = "open" /\ stack # <<>> /\ Top.member = "none"
  /\ stack' = Append([stack EXCEPT ![Len(stack)].member = "nested"], Container)
  /\ heard' = <<Started(TRUE), [call |-> "container_start", kind |-> kind,
                                depth |-> Depth + 1]>>
  /\ UNCHANGED walk

MemberBytes(n) ==
  /\ InTop("plain", [Top EXCEPT !.told = @ + n])
  /\ heard' = <<Bytes(n)>>

\* A plain member ends with the length that was delivered.
MemberEnd(n) ==
  /\ \/ InTop("plain", [Top EXCEPT !.member = "none", !.told = 0, !.members = @ + 1])
        /\ n = Top.told
     \/ InTop("walked", [Top EXCEPT !.member = "none", !.members = @ + 1])
  /\ heard' = <<[call |-> "member_end", bytes |-> n, depth |-> Depth]>>

ContainerEnd ==
  /\ walk = "open" /\ stack # <<>> /\ Top.member = "none"
  /\ LET below == SubSeq(stack, 1, Len(stack) - 1)
     IN stack' = IF below = <<>> THEN below
                 ELSE [below EXCEPT ![Len(below)].member = "walked"]
  /\ heard' = <<[call |-> "container_end", members |-> Top.members,
                 entries |-> Top.entries, depth |-> Depth]>>
  /\ UNCHANGED walk

\* The walk is complete when the outermost container has ended.
Complete ==
  /\ walk = "open" /\ stack = <<>> /\ heard # <<>>
  /\ walk' = "complete" /\ UNCHANGED <<stack, heard>>

\* Also what a second finish makes of a complete walk.
Refuse == walk # "refused" /\ walk' = "refused" /\ UNCHANGED <<stack, heard>>

Next ==
  \/ \E kind \in Kinds : ContainerStart(kind) \/ NestedContainerStart(kind)
  \/ Entry \/ NestedStart \/ ContainerEnd \/ Complete \/ Refuse
  \/ \E n \in Lengths : MemberStart(n) \/ MemberBytes(n) \/ MemberEnd(n)

Spec == Init /\ [][Next]_sinkVars
==============================================================================
