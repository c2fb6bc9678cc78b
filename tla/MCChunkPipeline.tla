-------------------------- MODULE MCChunkPipeline --------------------------
(* Files and channels for ChunkPipeline.                                   *)
EXTENDS ChunkPipeline

Sizes(total, winCapacity, chunkCapacity, mayFail) ==
  [total |-> total, winCapacity |-> winCapacity, segCapacity |-> 1,
   chunkCapacity |-> chunkCapacity, prepCapacity |-> 1, embCapacity |-> 1, mayFail |-> mayFail]

\* All chunks fit in the chunk channel; or they do not, and no thread fails.
MCCalls == {Sizes(5, 2, 3, TRUE), Sizes(7, 2, 1, FALSE), Sizes(4, 4, 1, TRUE)}

\* A chunk channel that overflows when a thread fails.
MCOverflow == {Sizes(4, 1, 1, TRUE)}
=============================================================================
