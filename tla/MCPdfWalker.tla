----------------------------- MODULE MCPdfWalker -----------------------------
(***************************************************************************)
(* The PDF walker on a small keyword that, like `endstream`, holds its own *)
(* first letter, and on every form of a line that begins with `trailer`.   *)
(***************************************************************************)
EXTENDS PdfWalker

MCEndstream == <<"e", "n", "e", "m">>

Open == <<"<", "<">>
Close == <<">", ">">>

\* trailer; trailer <<; trailer<<; trailer << >>; trailer<<>>;
\* trailer << x >>; trailer <<>> x.
MCTrailerLines ==
  {<<<<>>>>, <<<<>>, Open>>, <<Open>>, <<<<>>, Open, Close>>, <<Open \o Close>>,
   <<<<>>, Open, <<"regular">>, Close>>, <<<<>>, Open \o Close, <<"regular">>>>}
==============================================================================
