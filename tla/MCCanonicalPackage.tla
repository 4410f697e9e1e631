-------------------------- MODULE MCCanonicalPackage --------------------------
(***************************************************************************)
(* Packages of up to three members, whose contents and offsets pass the    *)
(* greatest value of a 32-bit field.                                       *)
(***************************************************************************)
EXTENDS CanonicalPackage

MCNames ==
  [types |-> 2, word |-> 1, excel |-> 1, signature |-> 1]
==============================================================================
