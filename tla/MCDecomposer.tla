----------------------------- MODULE MCDecomposer -----------------------------
(***************************************************************************)
(* Decomposer on compounds of a few bytes, nested two deep at most.        *)
(***************************************************************************)
EXTENDS Decomposer

FewLengths == 0..(MaxInput * Inflate^MaxDepth + ProbeLen)
==============================================================================
