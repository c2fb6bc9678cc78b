--------------------------- MODULE MCBatchChunks ---------------------------
(* Files and channels for BatchChunks.                                     *)
EXTENDS BatchChunks

Sizes(files, winCapacity, decodedCapacity, embeddedCapacity, mayFail) ==
  [files |-> files, winCapacity |-> winCapacity, decodedCapacity |-> decodedCapacity,
   preparedCapacity |-> 1, embeddedCapacity |-> embeddedCapacity, mayFail |-> mayFail]

\* Calls that decline; calls that may fail, with room for all their chunks; and
\* narrow channels when nothing fails.
MCCalls ==
  {Sizes(<<>>, 2, 1, 1, TRUE), Sizes(<<2>>, 2, 1, 1, TRUE), Sizes(<<5, 0>>, 2, 1, 1, TRUE),
   Sizes(<<3, 2>>, 2, 3, 3, TRUE), Sizes(<<1, 4>>, 3, 3, 3, TRUE),
   Sizes(<<4, 3, 1>>, 2, 1, 1, FALSE), Sizes(<<2, 1, 2>>, 1, 1, 1, FALSE)}
=============================================================================
