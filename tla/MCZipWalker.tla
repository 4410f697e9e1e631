----------------------------- MODULE MCZipWalker -----------------------------
(***************************************************************************)
(* ZipWalker with short records, bytes of three values, and extra areas    *)
(* with no, one and two ZIP64 values, behind another field or broken.      *)
(***************************************************************************)
EXTENDS ZipWalker

Lens == [local |-> 2, central |-> 1, end |-> 1, zip64End |-> 1, zip64Locator |-> 1]

Zip64(values) == [kind |-> "zip64", values |-> values]
Other == [kind |-> "other"]
Malformed == [kind |-> "malformed"]

ExtraAreas ==
  {<<>>, <<Zip64(<<1>>)>>, <<Zip64(<<2, 2>>)>>, <<Zip64(<<1, 0>>)>>,
   <<Other, Zip64(<<3, 3, 0>>)>>, <<Malformed, Zip64(<<1, 1, 0>>)>>}
==============================================================================
