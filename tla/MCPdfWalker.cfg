SPECIFICATION Spec
CONSTANTS
  Lengths = {0, 1, 2}
  MagicLen = 3
  Endstream <- MCEndstream
  EntryLen = 2
  Counts = {0, 1, 2}
  TrailerLines <- MCTrailerLines
  LineMax = 3
  MaxDepth = 2
  MaxWords = 6
INVARIANT FinishedWhole
PROPERTIES LengthIsTheDirectOne PayloadEndsAtEndstream
