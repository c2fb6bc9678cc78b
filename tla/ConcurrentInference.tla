------------------------- MODULE ConcurrentInference -------------------------
(***************************************************************************)
(* Concurrent segmentation and embedding of one file                       *)
(* (run_concurrent_inference, pipeline.rs).  A segmentation thread streams *)
(* windows in batches (run_streaming, inference/segmentation/run.rs)       *)
(* through a bounded channel; the calling thread decodes each of them and  *)
(* gathers the active speakers into embedding batches, along one of three  *)
(* paths (ConcurrentEmbeddingRunner, pipeline/concurrent.rs):              *)
(*   Split      speakers of several chunks share a batch, and refer to the *)
(*              features of their chunk by an index into a list;           *)
(*   MultiMask  whole chunks share a batch, a flat buffer holds one mask   *)
(*              per speaker, active or not;                                *)
(*   Masked     every speaker brings its own audio and mask.               *)
(* A mask is represented by the chunk and speaker it was made from, the    *)
(* features by the chunk whose audio they were computed from.              *)
(***************************************************************************)
EXTENDS Integers, Sequences

CONSTANTS
  MaxTotal,     \* bound: longest file, in windows
  NumSpeakers,  \* speakers of a window, 3 in the code
  SegBatch,     \* PRIMARY_BATCH_SIZE of the segmentation model
  TxCapacity,   \* capacity of the window channel, 64 in the code
  BatchSize     \* batch size of the embedding path

ASSUME SizesAssumption ==
  /\ MaxTotal \in Nat /\ NumSpeakers \in Nat \ {0}
  /\ SegBatch \in Nat \ {0} /\ TxCapacity \in Nat \ {0}
  /\ BatchSize \in Nat \ {0}   \* embedding_path rules out a batch size of 0

VARIABLES
  path,       \* embedding_path()
  batched,    \* the segmentation model has a batched session
  debug,      \* built with debug assertions
  total,      \* windows of the file
  segmenter,  \* "running", "ok", "failed", "disconnected", "panicked"
  nextIdx,    \* run_streaming: first window not yet predicted
  results,    \* predicted windows it still has to send
  stream,     \* window channel
  runner,     \* where the calling thread is
  chunkIdx,   \* windows received
  decoded,    \* seg_array: the window decoded into each chunk
  active,     \* the speakers found active in each chunk
  speaker,    \* cursor of the loop over the speakers
  pending,    \* speakers waiting for a batch
  features,   \* fbanks (Split), audio_buffer (MultiMask): the chunks they are of
  current,    \* current_fbank_idx
  masks,      \* flat_masks, one entry per slot of the batch
  flags,      \* active_flags
  indices,    \* chunk_indices
  embedded,   \* emb_array
  outcome     \* what run_concurrent_inference returns

config   == <<path, batched, debug, total>>
segVars  == <<segmenter, nextIdx, results>>
buffers  == <<speaker, pending, features, current, masks, flags, indices>>
vars == <<config, segVars, stream, runner, chunkIdx, decoded, active, buffers, embedded,
          outcome>>

Speakers == 0 .. NumSpeakers - 1
Chunks == 0 .. total - 1
Slots == 0 .. BatchSize * NumSpeakers - 1

Mask(chunk, s) == <<chunk, s>>

Embedding(audio, mask) == [audio |-> audio, mask |-> mask]

NoWindow == -1                   \* a row of seg_array that is still zero
NoMask == Mask(-1, -1)           \* a mask that is zero
NoEmbedding == Embedding(-1, NoMask)   \* an embedding that is still NaN

NoMasks == [slot \in Slots |-> NoMask]

Gone == runner \in {"done", "failed", "panicked"}

Init ==
  /\ path \in {"Split", "MultiMask", "Masked"}
  /\ batched \in BOOLEAN /\ debug \in BOOLEAN
  /\ total \in 0 .. MaxTotal
  /\ segmenter = "running" /\ nextIdx = 0 /\ results = <<>> /\ stream = <<>>
  /\ runner = "recv" /\ chunkIdx = 0
  /\ decoded = [c \in Chunks |-> NoWindow] /\ active = [c \in Chunks |-> {}]
  /\ speaker = 0 /\ pending = <<>> /\ features = <<>> /\ current = 0
  /\ masks = NoMasks /\ flags = <<>> /\ indices = <<>>
  /\ embedded = [c \in Chunks |-> [s \in Speakers |-> NoEmbedding]]
  /\ outcome = "none"
-----------------------------------------------------------------------------
(* run_streaming: a full batch, the tail padded to a batch, or one window. *)
SegPredict ==
  /\ segmenter = "running" /\ results = <<>>
  /\ nextIdx < total
  /\ LET remaining == total - nextIdx
         size == IF ~batched \/ remaining = 1 THEN 1
                 ELSE IF remaining >= SegBatch THEN SegBatch ELSE remaining
     IN  /\ results' = [i \in 1 .. size |-> nextIdx + i - 1]
         /\ nextIdx' = nextIdx + size
  /\ UNCHANGED <<config, segmenter, stream, runner, chunkIdx, decoded, active, buffers,
                 embedded, outcome>>

(* A prediction fails, or panics. *)
SegFail(how) ==
  /\ segmenter = "running" /\ results = <<>>
  /\ nextIdx < total
  /\ segmenter' = how
  /\ UNCHANGED <<config, nextIdx, results, stream, runner, chunkIdx, decoded, active, buffers,
                 embedded, outcome>>

SegSend ==
  /\ segmenter = "running" /\ results # <<>>
  /\ ~Gone /\ Len(stream) < TxCapacity
  /\ stream' = Append(stream, Head(results))
  /\ results' = Tail(results)
  /\ UNCHANGED <<config, segmenter, nextIdx, runner, chunkIdx, decoded, active, buffers,
                 embedded, outcome>>

(* Mutant: the receiver lives until the call returns.                      *)
SegDisconnectedLate ==
  /\ segmenter = "running" /\ results # <<>>
  /\ outcome # "none"
  /\ segmenter' = "disconnected"
  /\ results' = <<>>
  /\ UNCHANGED <<config, nextIdx, stream, runner, chunkIdx, decoded, active, buffers, embedded,
                 outcome>>

(* The embedding side has dropped the receiver. *)
SegDisconnected ==
  /\ segmenter = "running" /\ results # <<>>
  /\ Gone
  /\ segmenter' = "disconnected"
  /\ results' = <<>>
  /\ UNCHANGED <<config, nextIdx, stream, runner, chunkIdx, decoded, active, buffers, embedded,
                 outcome>>

SegEnd ==
  /\ segmenter = "running" /\ results = <<>>
  /\ nextIdx = total
  /\ segmenter' = "ok"
  /\ UNCHANGED <<config, nextIdx, results, stream, runner, chunkIdx, decoded, active, buffers,
                 embedded, outcome>>
-----------------------------------------------------------------------------
(* A window is received and decoded; the speakers in `found` are active.   *)
Receive(found) ==
  /\ runner = "recv" /\ stream # <<>>
  /\ stream' = Tail(stream)
  /\ decoded' = [decoded EXCEPT ![chunkIdx] = Head(stream)]
  /\ active' = [active EXCEPT ![chunkIdx] = found]

(* Split computes the features of the chunk at once.                       *)
ReceiveSpeakers(found) ==
  /\ path # "MultiMask"
  /\ Receive(found)
  /\ runner' = "speakers"
  /\ speaker' = 0
  /\ IF path = "Split"
       THEN features' = Append(features, chunkIdx) /\ current' = Len(features')
       ELSE UNCHANGED <<features, current>>
  /\ UNCHANGED <<config, segVars, chunkIdx, pending, masks, flags, indices, embedded, outcome>>

(* MultiMask writes the masks of the active speakers to the slots of the   *)
(* chunk; the slots of the others are left alone.                          *)
ReceiveMultiMask(found) ==
  /\ path = "MultiMask"
  /\ Receive(found)
  /\ features' = Append(features, chunkIdx)
  /\ indices' = Append(indices, chunkIdx)
  /\ LET base == Len(features) * NumSpeakers
     IN  masks' = [slot \in Slots |->
                     IF slot >= base /\ slot - base \in found
                       THEN Mask(chunkIdx, slot - base) ELSE masks[slot]]
  /\ flags' = flags \o [i \in 1 .. NumSpeakers |-> i - 1 \in found]
  /\ runner' = IF Len(features') = BatchSize THEN "flush" ELSE "recv"
  /\ chunkIdx' = chunkIdx + 1
  /\ UNCHANGED <<config, segVars, speaker, pending, current, embedded, outcome>>

(* An active speaker joins the batch, an inactive one is skipped.          *)
PushSpeaker ==
  /\ runner = "speakers" /\ speaker < NumSpeakers
  /\ IF speaker \in active[chunkIdx]
       THEN /\ pending' = Append(pending, [chunk |-> chunkIdx, speaker |-> speaker,
                                           fbank |-> current])
            /\ IF Len(pending') = BatchSize
                 THEN runner' = "flush" /\ UNCHANGED speaker
                 ELSE speaker' = speaker + 1 /\ UNCHANGED runner
       ELSE /\ speaker' = speaker + 1
            /\ UNCHANGED <<pending, runner>>
  /\ UNCHANGED <<config, segVars, stream, chunkIdx, decoded, active, features, current, masks,
                 flags, indices, embedded, outcome>>

NextChunk ==
  /\ runner = "speakers" /\ speaker = NumSpeakers
  /\ chunkIdx' = chunkIdx + 1
  /\ runner' = "recv"
  /\ UNCHANGED <<config, segVars, stream, decoded, active, buffers, embedded, outcome>>
-----------------------------------------------------------------------------
(* flush_split and flush_masked: the first n pending speakers.             *)
Audio(item) == IF path = "Split" THEN features[item.fbank] ELSE item.chunk

StorePending(n) ==
  embedded' = [c \in Chunks |-> [s \in Speakers |->
    IF \E i \in 1 .. n : pending[i].chunk = c /\ pending[i].speaker = s
      THEN LET i == CHOOSE i \in 1 .. n : pending[i].chunk = c /\ pending[i].speaker = s
           IN  Embedding(Audio(pending[i]), Mask(pending[i].chunk, pending[i].speaker))
      ELSE embedded[c][s]]]

(* flush_multi_mask_flat: row i * NumSpeakers + s of the prediction goes   *)
(* to speaker s of the i-th buffered chunk, if its flag is set.            *)
StoreMultiMask ==
  embedded' = [c \in Chunks |-> [s \in Speakers |->
    IF \E i \in 1 .. Len(indices) :
         indices[i] = c /\ flags[(i - 1) * NumSpeakers + s + 1]
      THEN LET i == CHOOSE i \in 1 .. Len(indices) : indices[i] = c
           IN  Embedding(features[i], masks[(i - 1) * NumSpeakers + s])
      ELSE embedded[c][s]]]

(* Mutant: the first features are kept, not those of the current chunk.    *)
FlushSpeakersKeepsFirst ==
  /\ runner = "flush" /\ path # "MultiMask"
  /\ StorePending(Len(pending))
  /\ pending' = <<>>
  /\ IF path = "Split" /\ speaker + 1 < NumSpeakers
       THEN features' = <<features[1]>> /\ current' = 1
       ELSE features' = <<>> /\ UNCHANGED current
  /\ speaker' = speaker + 1
  /\ runner' = "speakers"
  /\ UNCHANGED <<config, segVars, stream, chunkIdx, decoded, active, masks, flags, indices,
                 outcome>>

(* A full batch of speakers.  The features of the current chunk are kept   *)
(* for the speakers still to come, as the only ones.                       *)
FlushSpeakers ==
  /\ runner = "flush" /\ path # "MultiMask"
  /\ StorePending(Len(pending))
  /\ pending' = <<>>
  /\ IF path = "Split" /\ speaker + 1 < NumSpeakers
       THEN features' = <<features[current]>> /\ current' = 1
       ELSE features' = <<>> /\ UNCHANGED current
  /\ speaker' = speaker + 1
  /\ runner' = "speakers"
  /\ UNCHANGED <<config, segVars, stream, chunkIdx, decoded, active, masks, flags, indices,
                 outcome>>

(* A full batch of chunks.                                                 *)
FlushChunks ==
  /\ runner = "flush" /\ path = "MultiMask"
  /\ StoreMultiMask
  /\ features' = <<>> /\ masks' = NoMasks /\ flags' = <<>> /\ indices' = <<>>
  /\ runner' = "recv"
  /\ UNCHANGED <<config, segVars, stream, chunkIdx, decoded, active, speaker, pending, current,
                 outcome>>

(* The sender is gone and the channel is drained. *)
EndOfStream ==
  /\ runner = "recv" /\ stream = <<>>
  /\ segmenter # "running"
  /\ runner' = "tail"
  /\ UNCHANGED <<config, segVars, stream, chunkIdx, decoded, active, buffers, embedded, outcome>>

(* Mutant: what is left over when the stream ends is not embedded.         *)
FlushTailDropped ==
  /\ runner = "tail"
  /\ runner' = "finalize"
  /\ UNCHANGED <<config, segVars, stream, chunkIdx, decoded, active, buffers, embedded, outcome>>

(* Leftovers: at once (Split, MultiMask), one by one (Masked, where a      *)
(* smaller batch has no session: best_batch_len).                          *)
FlushTail ==
  /\ runner = "tail"
  /\ IF path = "MultiMask"
       THEN /\ StoreMultiMask
            /\ runner' = "finalize"
            /\ UNCHANGED pending
       ELSE LET n == IF path = "Masked" /\ pending # <<>> THEN 1 ELSE Len(pending)
            IN  /\ StorePending(n)
                /\ pending' = SubSeq(pending, n + 1, Len(pending))
                /\ runner' = IF pending' = <<>> THEN "finalize" ELSE "tail"
  /\ UNCHANGED <<config, segVars, stream, chunkIdx, decoded, active, speaker, features, current,
                 masks, flags, indices, outcome>>

(* Computing features or embeddings fails: the receiver is dropped.        *)
EmbedFail ==
  /\ \/ runner = "flush"
     \/ runner = "tail" /\ (pending # <<>> \/ indices # <<>>)
     \/ runner = "speakers" /\ path = "Split" /\ speaker = 0
  /\ runner' = "failed"
  /\ stream' = <<>>
  /\ UNCHANGED <<config, segVars, chunkIdx, decoded, active, buffers, embedded, outcome>>

(* finalize: debug_assert_eq on the number of windows, unless there was    *)
(* none; a release build truncates both arrays instead.                    *)
Finalize ==
  /\ runner = "finalize"
  /\ runner' = IF debug /\ chunkIdx \notin {0, total} THEN "panicked" ELSE "done"
  /\ UNCHANGED <<config, segVars, stream, chunkIdx, decoded, active, buffers, embedded, outcome>>
-----------------------------------------------------------------------------
(* The thread scope has joined the segmentation thread.  A panic of the    *)
(* calling thread goes on; otherwise the segmentation result is looked at  *)
(* first, so an embedding error that disconnects the stream is reported as *)
(* the disconnection.                                                      *)
Join ==
  /\ outcome = "none" /\ Gone
  /\ segmenter # "running"
  /\ outcome' = IF runner = "panicked" THEN "Panic"
                ELSE IF segmenter = "panicked" THEN "WorkerPanic"
                ELSE IF segmenter = "failed" THEN "Segmentation"
                ELSE IF segmenter = "disconnected" THEN "Disconnected"
                ELSE IF runner = "failed" THEN "Embedding" ELSE "Ok"
  /\ UNCHANGED <<config, segVars, stream, runner, chunkIdx, decoded, active, buffers, embedded>>

Returned == outcome # "none" /\ UNCHANGED vars

SegNext ==
  \/ SegPredict \/ SegSend \/ SegDisconnected \/ SegEnd
  \/ \E how \in {"failed", "panicked"} : SegFail(how)

RunnerNext ==
  \/ \E found \in SUBSET Speakers : ReceiveSpeakers(found) \/ ReceiveMultiMask(found)
  \/ PushSpeaker \/ NextChunk
  \/ FlushSpeakers \/ FlushChunks
  \/ EndOfStream \/ FlushTail
  \/ EmbedFail
  \/ Finalize \/ Join

Next == SegNext \/ RunnerNext \/ Returned

Spec == Init /\ [][Next]_vars

(* Both threads are scheduled, and every model call returns.               *)
FairSpec == Spec /\ WF_vars(SegNext) /\ WF_vars(RunnerNext)
-----------------------------------------------------------------------------
(* Whatever shares a batch with a speaker, and whichever batch it falls    *)
(* in, the embedding stored for a speaker of a chunk comes from the audio  *)
(* of that chunk and the mask of that speaker, and silent speakers get     *)
(* none.                                                                   *)
EmbeddingsAligned ==
  \A c \in Chunks :
    /\ decoded[c] \in {NoWindow, c}
    /\ \A s \in Speakers :
         embedded[c][s] # NoEmbedding =>
           s \in active[c] /\ embedded[c][s] = Embedding(c, Mask(c, s))

(* A failure of either side is never lost, the stream is reported as       *)
(* disconnected only if the embedding failed, and the calling thread       *)
(* panics only where the segmentation failed.  Ok means that every window  *)
(* arrived and that every active speaker of every window has an embedding, *)
(* the leftovers of the last batch included.                               *)
OutcomeTruthful ==
  /\ outcome = "Ok" =>
       /\ segmenter = "ok" /\ runner = "done"
       /\ \A c \in Chunks : decoded[c] = c /\ \A s \in active[c] : embedded[c][s] # NoEmbedding
  /\ outcome = "Disconnected" => runner = "failed"
  /\ outcome = "Panic" => segmenter \in {"failed", "panicked"}

(* The call returns, also when one side fails while the other is blocked   *)
(* on it.                                                                  *)
CallReturns == <>(outcome # "none")

(* "streaming window count mismatch: got .., expected ..": the assertion   *)
(* of finalize, which a stream that ends early with an error reaches too.  *)
StreamCountMatches == runner = "finalize" => chunkIdx \in {0, total}
=============================================================================
