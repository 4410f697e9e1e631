-------------------------- MODULE MCContainerChunker --------------------------
(***************************************************************************)
(* ContainerChunker with one profile of each kind, on a small envelope.    *)
(***************************************************************************)
EXTENDS ContainerChunker

Profile(unitMin, large, unknown, blanks, canonical) ==
  [unitMin |-> unitMin, large |-> large, unknown |-> unknown,
   blanks |-> blanks, canonical |-> canonical]

Zip == Profile(ChunkMin, TRUE, "none", FALSE, FALSE)
Isobmff == Profile(ChunkMin, TRUE, "stream", FALSE, FALSE)
Matroska == Profile(ChunkMin, TRUE, "header", FALSE, FALSE)
Pdf == Profile(ChunkMin - 1, FALSE, "none", TRUE, FALSE)
Ooxml == Profile(ChunkMin - 1, TRUE, "boundary", FALSE, TRUE)

AllProfiles == {Zip, Isobmff, Matroska, Pdf, Ooxml}
==============================================================================
