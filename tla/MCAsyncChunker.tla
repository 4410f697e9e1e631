---------------------------- MODULE MCAsyncChunker ----------------------------
(***************************************************************************)
(* The pipeline over two drivers: one with small and large units, one with *)
(* blanks and a unit minimum below the envelope's.                         *)
(***************************************************************************)
EXTENDS AsyncChunker

Driver(unitMin, large, unknown, blanks, canonical) ==
  [unitMin |-> unitMin, large |-> large, unknown |-> unknown,
   blanks |-> blanks, canonical |-> canonical]

Drivers == {Driver(ChunkMin, TRUE, "none", FALSE, FALSE),
            Driver(ChunkMin - 1, FALSE, "none", TRUE, FALSE)}
==============================================================================
