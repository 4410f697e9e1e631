---------------------------- MODULE WalkerReports ----------------------------
(***************************************************************************)
(* The contract between a structure walker and the driver of               *)
(* ContainerChunker: byte by byte the walker moves as UnitWalker allows,   *)
(* it may refuse any byte, and it accepts the end of the stream only where *)
(* no header is under way and no large unit is still owed bytes.           *)
(***************************************************************************)
EXTENDS UnitWalker

CONSTANT profile   \* the format, as in ContainerChunker

VARIABLES
  walker,   \* the state of UnitWalker
  report,   \* the header length the last byte reported, 0 for none
  phase     \* "walking", "ended" or "faulted"

Init ==
  /\ walker = NewWalker
  /\ report = 0
  /\ phase = "walking"

Consume ==
  /\ phase = "walking" /\ phase' = "walking"
  /\ \E seen \in HeaderBytes(profile, walker) \cup PayloadBytes(profile, walker)
                   \cup BlankBytes(profile, walker) :
       walker' = seen.next /\ report' = seen.large

\* The byte, or the end of the stream, is refused; nothing is reported of a
\* stream that is lost.
Fault ==
  /\ phase = "walking" /\ phase' = "faulted"
  /\ report' = 0

End ==
  /\ phase = "walking" /\ phase' = "ended"
  /\ walker.header = 0 /\ walker.owed = 0
  /\ UNCHANGED <<walker, report>>

Next == Consume \/ Fault \/ End

Spec == Init /\ [][Next]_<<walker, report, phase>>
==============================================================================
