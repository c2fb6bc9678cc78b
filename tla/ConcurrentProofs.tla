-------------------------- MODULE ConcurrentProofs --------------------------
(***************************************************************************)
(* Theorems about concurrent segmentation and embedding: embeddings stay   *)
(* with their chunk and speaker, and the outcome tells the truth, for      *)
(* files, batches and channels of any size.                                *)
(***************************************************************************)
EXTENDS ConcurrentInference, SequenceTheorems, TLAPS

(* Windows received: chunkIdx counts those that are finished.              *)
InChunk == path # "MultiMask" /\ runner \in {"speakers", "flush"}
Received == IF InChunk THEN chunkIdx + 1 ELSE chunkIdx
Ended == runner \in {"tail", "finalize", "done", "panicked"}

Pending == [chunk : Chunks, speaker : Speakers, fbank : Nat]

ThreadTypes ==
  /\ path \in {"Split", "MultiMask", "Masked"}
  /\ total \in Nat
  /\ segmenter \in {"running", "ok", "failed", "disconnected", "panicked"}
  /\ runner \in {"recv", "speakers", "flush", "tail", "finalize", "done", "failed", "panicked"}
  /\ nextIdx \in 0 .. total
  /\ results \in Seq(Chunks) /\ stream \in Seq(Chunks)
  /\ chunkIdx \in 0 .. total

ChunkTypes ==
  /\ decoded \in [Chunks -> Int]
  /\ active \in [Chunks -> SUBSET Speakers]
  /\ embedded = [c \in Chunks |-> [s \in Speakers |-> embedded[c][s]]]

BufferTypes ==
  /\ speaker \in 0 .. NumSpeakers
  /\ pending \in Seq(Pending)
  /\ features \in Seq(Chunks) /\ current \in Nat
  /\ masks = [slot \in Slots |-> masks[slot]]
  /\ flags \in Seq(BOOLEAN) /\ indices \in Seq(Chunks)

TypeInv == ThreadTypes /\ ChunkTypes /\ BufferTypes

(* Windows on their way continue those received, and the sides end in this *)
(* order.                                                                  *)
StreamInv ==
  /\ ~Gone =>
       /\ Received + Len(stream) + Len(results) = nextIdx
       /\ \A i \in 1 .. Len(stream) : stream[i] = Received + i - 1
       /\ \A i \in 1 .. Len(results) : results[i] = Received + Len(stream) + i - 1
  /\ results # <<>> => segmenter = "running"
  /\ segmenter = "disconnected" => runner = "failed"
  /\ segmenter = "ok" => nextIdx = total
  /\ Ended => segmenter # "running" /\ chunkIdx = nextIdx
  /\ Ended /\ ~Gone => stream = <<>>
  /\ runner = "panicked" => chunkIdx # total

(* What was received is where it belongs, and nothing else is touched.     *)
ChunksInv ==
  /\ \A c \in Chunks : decoded[c] \in {NoWindow, c} /\ (c < Received => decoded[c] = c)
  /\ ~Gone => \A c \in Chunks, s \in Speakers : c >= Received => embedded[c][s] = NoEmbedding

Aligned ==
  \A c \in Chunks, s \in Speakers :
    embedded[c][s] # NoEmbedding =>
      s \in active[c] /\ embedded[c][s] = Embedding(c, Mask(c, s))

(* The speakers waiting for a batch know the features of their chunk.      *)
PendingInv ==
  path # "MultiMask" /\ ~Gone =>
    /\ \A i \in 1 .. Len(pending) :
         /\ pending[i].chunk < Received
         /\ pending[i].speaker \in active[pending[i].chunk]
         /\ path = "Split" =>
              /\ pending[i].fbank \in 1 .. Len(features)
              /\ features[pending[i].fbank] = pending[i].chunk
    /\ InChunk => chunkIdx < total
    /\ runner = "flush" => speaker < NumSpeakers
    /\ InChunk /\ speaker < NumSpeakers /\ path = "Split" =>
         current \in 1 .. Len(features) /\ features[current] = chunkIdx

(* The row of a speaker of the i-th chunk in the buffers of a batch.       *)
Row(i, s) == (i - 1) * NumSpeakers + s

(* The buffers of a batch of chunks go together.                           *)
BatchInv ==
  path = "MultiMask" /\ ~Gone =>
    /\ runner # "speakers"
    /\ Len(indices) = Len(features) /\ Len(flags) = Len(features) * NumSpeakers
    /\ Len(features) <= BatchSize
    /\ runner = "recv" => Len(features) < BatchSize
    /\ \A i \in 1 .. Len(indices) : features[i] = indices[i] /\ indices[i] < chunkIdx
    /\ \A i, j \in 1 .. Len(indices) : indices[i] = indices[j] => i = j
    /\ \A i \in 1 .. Len(indices), s \in Speakers :
         /\ flags[Row(i, s) + 1] <=> s \in active[indices[i]]
         /\ s \in active[indices[i]] => masks[Row(i, s)] = Mask(indices[i], s)

(* No active speaker is forgotten.                                         *)
Waiting(c, s) ==
  \/ \E i \in 1 .. Len(pending) : pending[i].chunk = c /\ pending[i].speaker = s
  \/ \E i \in 1 .. Len(indices) : indices[i] = c
  \/ runner = "speakers" /\ c = chunkIdx /\ s >= speaker
  \/ runner = "flush" /\ c = chunkIdx /\ s > speaker

CompleteInv ==
  /\ runner # "failed" =>
       \A c \in Chunks : c < Received =>
         \A s \in active[c] : embedded[c][s] # NoEmbedding \/
           (runner \notin {"finalize", "done", "panicked"} /\ Waiting(c, s))
  /\ path = "MultiMask" \/ indices = <<>>
  /\ path # "MultiMask" \/ pending = <<>>

OutcomeInv ==
  /\ outcome # "none" => Gone /\ segmenter # "running"
  /\ outcome = "Ok" => segmenter = "ok" /\ runner = "done"
  /\ outcome = "Disconnected" => segmenter = "disconnected"
  /\ outcome = "Panic" => runner = "panicked"

ConcurrentInv ==
  TypeInv /\ StreamInv /\ ChunksInv /\ Aligned /\ PendingInv /\ BatchInv /\ CompleteInv
    /\ OutcomeInv
-----------------------------------------------------------------------------
(* The beginning and the segmentation thread.                              *)

LEMMA InitInv == Init => ConcurrentInv
  <1> SUFFICES ASSUME Init PROVE ConcurrentInv
    OBVIOUS
  <1>1. TypeInv
    BY SizesAssumption
       DEF Init, TypeInv, ThreadTypes, ChunkTypes, BufferTypes, Chunks, NoMasks, NoWindow, Speakers
  <1>2. StreamInv
    <2>1. Received = 0 /\ ~Ended /\ Len(stream) = 0 /\ Len(results) = 0
      BY DEF Init, Received, InChunk, Ended
    <2> QED
      BY <2>1 DEF Init, StreamInv
  <1>3. ChunksInv /\ Aligned
    BY DEF Init, ChunksInv, Aligned, Received, InChunk, Chunks
  <1>4. PendingInv /\ BatchInv /\ CompleteInv /\ OutcomeInv
    BY SizesAssumption
       DEF Init, PendingInv, BatchInv, CompleteInv, OutcomeInv, Received, InChunk, Gone, Chunks
  <1> QED
    BY <1>1, <1>2, <1>3, <1>4 DEF ConcurrentInv

(* What the segmentation thread leaves alone.                              *)
LEMMA SegFrame ==
  ASSUME ConcurrentInv,
         UNCHANGED <<config, runner, chunkIdx, decoded, active, buffers, embedded, outcome>>,
         TypeInv', StreamInv', outcome = "none" \/ UNCHANGED segmenter
  PROVE  ConcurrentInv'
  <1> USE DEF config, buffers
  <1>1. ChunksInv' /\ Aligned'
    BY DEF ConcurrentInv, ChunksInv, Aligned, Received, InChunk, Gone, Chunks
  <1>2. PendingInv'
    BY DEF ConcurrentInv, PendingInv, Received, InChunk, Gone
  <1>3. BatchInv'
    BY DEF ConcurrentInv, BatchInv, Gone, Row
  <1>4. CompleteInv'
    BY DEF ConcurrentInv, CompleteInv, Received, InChunk, Waiting, Chunks
  <1>5. OutcomeInv'
    BY DEF ConcurrentInv, OutcomeInv, Gone
  <1> QED
    BY <1>1, <1>2, <1>3, <1>4, <1>5 DEF ConcurrentInv

LEMMA SegInv ==
  ASSUME ConcurrentInv, SegNext
  PROVE  ConcurrentInv'
  <1> USE DEF config, buffers, segVars
  <1>1. TypeInv /\ StreamInv /\ OutcomeInv
    BY DEF ConcurrentInv
  <1>2. Received \in Nat /\ chunkIdx \in Nat /\ nextIdx \in Nat /\ total \in Nat
    BY <1>1 DEF TypeInv, ThreadTypes, ChunkTypes, BufferTypes, Received
  <1>3. CASE SegPredict
    <2> DEFINE remaining == total - nextIdx
               size == IF ~batched \/ remaining = 1 THEN 1
                       ELSE IF remaining >= SegBatch THEN SegBatch ELSE remaining
    <2>1. /\ segmenter = "running" /\ results = <<>> /\ nextIdx < total
          /\ results' = [i \in 1 .. size |-> nextIdx + i - 1]
          /\ nextIdx' = nextIdx + size
          /\ UNCHANGED <<config, segmenter, stream, runner, chunkIdx, decoded, active, buffers,
                         embedded, outcome>>
      BY <1>3 DEF SegPredict
    <2>2. size \in Nat /\ size >= 1 /\ size <= total - nextIdx
      BY <1>2, <2>1, SizesAssumption
    <2> HIDE DEF size
    <2>3. /\ results' \in Seq(Chunks) /\ Len(results') = size
          /\ \A i \in 1 .. size : results'[i] = nextIdx + i - 1
      BY <1>2, <2>1, <2>2 DEF Chunks
    <2>4. Received' = Received /\ Gone' = Gone /\ Ended' = Ended
      BY <2>1 DEF Received, InChunk, Gone, Ended
    <2>5. TypeInv'
      BY <1>1, <2>1, <2>2, <2>3, SMTT(20)
         DEF TypeInv, ThreadTypes, ChunkTypes, BufferTypes, Chunks, Slots, Pending, Speakers
    <2>6. StreamInv'
      <3>1. Len(stream) \in Nat /\ Len(results) = 0 /\ ~Ended
        BY <1>1, <2>1 DEF TypeInv, ThreadTypes, ChunkTypes, BufferTypes, StreamInv
      <3>2. ~Gone => /\ Received + Len(stream) = nextIdx
                     /\ \A i \in 1 .. Len(stream) : stream[i] = Received + i - 1
        BY <1>1, <1>2, <3>1 DEF StreamInv
      <3>3. ~Gone => /\ Received + Len(stream) + Len(results') = nextIdx'
                     /\ \A i \in 1 .. Len(results') :
                          results'[i] = Received + Len(stream) + i - 1
        BY <1>2, <2>1, <2>2, <2>3, <3>1, <3>2
      <3>4. /\ segmenter' = "running" /\ stream' = stream
            /\ chunkIdx' = chunkIdx /\ total' = total /\ runner' = runner
        BY <2>1
      <3>5. ~Ended' /\ (Gone' <=> Gone)
        BY <2>4, <3>1
      <3>6. runner = "panicked" => chunkIdx # total
        BY <1>1 DEF StreamInv
      <3>7. ~Gone' => /\ Received' + Len(stream') + Len(results') = nextIdx'
                      /\ \A i \in 1 .. Len(stream') : stream'[i] = Received' + i - 1
                      /\ \A i \in 1 .. Len(results') :
                           results'[i] = Received' + Len(stream') + i - 1
        BY <2>4, <3>2, <3>3, <3>4, <3>5
      <3> HIDE DEF config, buffers, segVars
      <3> QED
        BY <3>4, <3>5, <3>6, <3>7 DEF StreamInv
    <2> QED
      BY <2>1, <2>5, <2>6, SegFrame
  <1>4. ASSUME NEW how \in {"failed", "panicked"}, SegFail(how)
        PROVE  ConcurrentInv'
    <2>1. /\ segmenter = "running" /\ segmenter' = how /\ results = <<>>
          /\ UNCHANGED <<config, nextIdx, results, stream, runner, chunkIdx, decoded, active,
                         buffers, embedded, outcome>>
      BY <1>4 DEF SegFail
    <2>2. TypeInv'
      BY <1>1, <2>1
         DEF TypeInv, ThreadTypes, ChunkTypes, BufferTypes, Chunks, Slots, Pending, Speakers
    <2>3. StreamInv'
      BY <1>1, <2>1 DEF StreamInv, Received, InChunk, Ended, Gone
    <2> QED
      BY <1>1, <2>1, <2>2, <2>3, SegFrame DEF OutcomeInv
  <1>5. CASE SegSend
    <2>1. /\ segmenter = "running" /\ results # <<>> /\ ~Gone
          /\ stream' = Append(stream, Head(results)) /\ results' = Tail(results)
          /\ UNCHANGED <<config, segmenter, nextIdx, runner, chunkIdx, decoded, active, buffers,
                         embedded, outcome>>
      BY <1>5 DEF SegSend
    <2>2. /\ Len(results) \in Nat /\ Len(results) >= 1 /\ Len(stream) \in Nat
          /\ Head(results) = results[1] /\ Head(results) \in Chunks
          /\ results' \in Seq(Chunks) /\ Len(results') = Len(results) - 1
          /\ \A i \in 1 .. Len(results) - 1 : results'[i] = results[i + 1]
      BY <1>1, <2>1, SMTT(20) DEF TypeInv, ThreadTypes, ChunkTypes, BufferTypes
    <2>3. /\ stream' \in Seq(Chunks) /\ Len(stream') = Len(stream) + 1
          /\ \A i \in 1 .. Len(stream) : stream'[i] = stream[i]
          /\ stream'[Len(stream) + 1] = Head(results)
      BY <1>1, <2>1, <2>2 DEF TypeInv, ThreadTypes, ChunkTypes, BufferTypes
    <2>4. Received' = Received /\ Gone' = Gone /\ Ended' = Ended
      BY <2>1 DEF Received, InChunk, Gone, Ended
    <2>5. TypeInv'
      BY <1>1, <2>1, <2>2, <2>3
         DEF TypeInv, ThreadTypes, ChunkTypes, BufferTypes, Chunks, Slots, Pending, Speakers
    <2>6. StreamInv'
      <3>1. ~Ended
        BY <1>1, <2>1 DEF StreamInv
      <3>2. /\ Received + Len(stream) + Len(results) = nextIdx
            /\ \A i \in 1 .. Len(stream) : stream[i] = Received + i - 1
            /\ \A i \in 1 .. Len(results) : results[i] = Received + Len(stream) + i - 1
        BY <1>1, <2>1 DEF StreamInv
      <3>3. Received + Len(stream') + Len(results') = nextIdx
        <4>1. /\ Len(stream) \in Nat /\ Len(stream') = Len(stream) + 1
              /\ Len(results) \in Nat /\ Len(results') = Len(results) - 1
          BY <2>2, <2>3
        <4>2. Received + Len(stream) + Len(results) = nextIdx /\ Received \in Nat
          BY <1>2, <3>2
        <4> QED
          BY <4>1, <4>2
      <3>4. \A i \in 1 .. Len(stream') : stream'[i] = Received + i - 1
        BY <1>2, <2>2, <2>3, <3>2
      <3>5. \A i \in 1 .. Len(results') : results'[i] = Received + Len(stream') + i - 1
        BY <1>2, <2>2, <2>3, <3>2
      <3> QED
        BY <1>1, <2>1, <2>4, <3>1, <3>3, <3>4, <3>5 DEF StreamInv
    <2> QED
      BY <2>1, <2>5, <2>6, SegFrame
  <1>6. CASE SegDisconnected
    <2>1. /\ segmenter = "running" /\ segmenter' = "disconnected" /\ results' = <<>> /\ Gone
          /\ UNCHANGED <<config, nextIdx, stream, runner, chunkIdx, decoded, active, buffers,
                         embedded, outcome>>
      BY <1>6 DEF SegDisconnected
    <2>2. TypeInv'
      BY <1>1, <2>1
         DEF TypeInv, ThreadTypes, ChunkTypes, BufferTypes, Chunks, Slots, Pending, Speakers
    <2>3. StreamInv'
      BY <1>1, <2>1 DEF StreamInv, Received, InChunk, Ended, Gone
    <2> QED
      BY <1>1, <2>1, <2>2, <2>3, SegFrame DEF OutcomeInv
  <1>7. CASE SegEnd
    <2>1. /\ segmenter = "running" /\ segmenter' = "ok" /\ results = <<>> /\ nextIdx = total
          /\ UNCHANGED <<config, nextIdx, results, stream, runner, chunkIdx, decoded, active,
                         buffers, embedded, outcome>>
      BY <1>7 DEF SegEnd
    <2>2. TypeInv'
      BY <1>1, <2>1
         DEF TypeInv, ThreadTypes, ChunkTypes, BufferTypes, Chunks, Slots, Pending, Speakers
    <2>3. StreamInv'
      BY <1>1, <2>1 DEF StreamInv, Received, InChunk, Ended, Gone
    <2> QED
      BY <1>1, <2>1, <2>2, <2>3, SegFrame DEF OutcomeInv
  <1> QED
    BY <1>3, <1>4, <1>5, <1>6, <1>7 DEF SegNext
-----------------------------------------------------------------------------
(* The calling thread.                                                     *)

LEMMA Numbers ==
  ASSUME ConcurrentInv
  PROVE  /\ chunkIdx \in Nat /\ nextIdx \in Nat /\ total \in Nat /\ speaker \in Nat
         /\ NumSpeakers \in Nat /\ NumSpeakers >= 1 /\ BatchSize \in Nat /\ BatchSize >= 1
         /\ Received \in Nat
         /\ \A c \in Chunks : c \in Nat /\ c < total
  <1>1. chunkIdx \in Nat /\ nextIdx \in Nat /\ total \in Nat
    BY DEF ConcurrentInv, TypeInv, ThreadTypes
  <1>2. NumSpeakers \in Nat /\ NumSpeakers >= 1 /\ BatchSize \in Nat /\ BatchSize >= 1
    BY SizesAssumption
  <1>3. speaker \in Nat
    BY <1>2 DEF ConcurrentInv, TypeInv, BufferTypes
  <1> QED
    BY <1>1, <1>2, <1>3 DEF Received, Chunks

(* Nothing is returned before the calling thread is through.               *)
LEMMA NotYet ==
  ASSUME ConcurrentInv, ~Gone, UNCHANGED outcome
  PROVE  OutcomeInv'
  BY DEF ConcurrentInv, OutcomeInv

(* The window that is received is the next one.                            *)
LEMMA ReceiveNext ==
  ASSUME ConcurrentInv, NEW found \in SUBSET Speakers, Receive(found),
         UNCHANGED <<config, segVars>>,
         ~Gone', ~Ended', Received' = chunkIdx + 1
  PROVE  /\ runner = "recv" /\ ~Gone /\ Received = chunkIdx
         /\ chunkIdx \in Chunks /\ Chunks' = Chunks
         /\ stream' \in Seq(Chunks)
         /\ decoded' = [decoded EXCEPT ![chunkIdx] = chunkIdx]
         /\ active' = [active EXCEPT ![chunkIdx] = found]
         /\ StreamInv'
  <1>1. /\ runner = "recv" /\ stream # <<>> /\ stream' = Tail(stream)
        /\ decoded' = [decoded EXCEPT ![chunkIdx] = Head(stream)]
        /\ active' = [active EXCEPT ![chunkIdx] = found]
    BY DEF Receive
  <1>2. ~Gone /\ Received = chunkIdx /\ Chunks' = Chunks
    BY <1>1 DEF Gone, Received, InChunk, Chunks, config
  <1>3. /\ Received + Len(stream) + Len(results) = nextIdx
        /\ \A i \in 1 .. Len(stream) : stream[i] = chunkIdx + i - 1
        /\ \A i \in 1 .. Len(results) : results[i] = chunkIdx + Len(stream) + i - 1
    BY <1>2 DEF ConcurrentInv, StreamInv
  <1>4. /\ Head(stream) \in Chunks /\ Head(stream) = stream[1]
        /\ Len(stream) \in Nat /\ Len(stream) >= 1 /\ Len(results) \in Nat
        /\ stream' \in Seq(Chunks) /\ Len(stream') = Len(stream) - 1
        /\ \A i \in 1 .. Len(stream) - 1 : stream'[i] = stream[i + 1]
    BY <1>1 DEF ConcurrentInv, TypeInv, ThreadTypes, ChunkTypes, BufferTypes
  <1>5. Head(stream) = chunkIdx
    BY <1>3, <1>4, Numbers
  <1>6. StreamInv'
    <2>1. results' = results /\ nextIdx' = nextIdx /\ chunkIdx \in Nat
      BY Numbers DEF segVars
    <2>2. Received' + Len(stream') = chunkIdx + Len(stream)
      BY <1>4, <2>1
    <2>3. /\ Received' + Len(stream') + Len(results') = nextIdx'
          /\ \A i \in 1 .. Len(results') : results'[i] = Received' + Len(stream') + i - 1
      BY <1>2, <1>3, <2>1, <2>2
    <2>4. \A i \in 1 .. Len(stream') : stream'[i] = Received' + i - 1
      <3> SUFFICES ASSUME NEW i \in 1 .. Len(stream) - 1
                   PROVE  stream[i + 1] = (chunkIdx + 1) + i - 1
        BY <1>4
      <3>1. i + 1 \in 1 .. Len(stream) /\ i \in Nat
        BY <1>4
      <3>2. stream[i + 1] = chunkIdx + (i + 1) - 1
        BY <1>3, <3>1
      <3> QED
        BY <2>1, <3>1, <3>2
    <2>5. segmenter' = segmenter /\ nextIdx' = nextIdx /\ total' = total /\ results' = results
      BY DEF segVars, config
    <2>6. segmenter # "disconnected" /\ runner' # "panicked"
      BY <1>1 DEF ConcurrentInv, StreamInv, Gone
    <2> QED
      BY <2>3, <2>4, <2>5, <2>6 DEF ConcurrentInv, StreamInv
  <1> QED
    BY <1>1, <1>2, <1>4, <1>5, <1>6

(* Neither the chunks nor their embeddings before the new one change.      *)
LEMMA ReceiveChunks ==
  ASSUME ConcurrentInv, NEW found \in SUBSET Speakers, Chunks' = Chunks,
         runner = "recv", chunkIdx \in Chunks, Received' = chunkIdx + 1,
         decoded' = [decoded EXCEPT ![chunkIdx] = chunkIdx],
         active' = [active EXCEPT ![chunkIdx] = found],
         UNCHANGED embedded
  PROVE  /\ ChunksInv' /\ Aligned'
         /\ decoded' \in [Chunks -> Int] /\ active' \in [Chunks -> SUBSET Speakers]
         /\ active'[chunkIdx] = found
         /\ \A c \in Chunks : c # chunkIdx => active'[c] = active[c]
  <1>1. Received = chunkIdx /\ ~Gone
    BY DEF Received, InChunk, Gone
  <1>2. /\ decoded \in [Chunks -> Int] /\ active \in [Chunks -> SUBSET Speakers]
        /\ \A c \in Chunks : decoded[c] \in {NoWindow, c} /\ (c < chunkIdx => decoded[c] = c)
        /\ \A c \in Chunks, s \in Speakers : c >= chunkIdx => embedded[c][s] = NoEmbedding
    BY <1>1 DEF ConcurrentInv, TypeInv, ThreadTypes, ChunkTypes, BufferTypes, ChunksInv
  <1>3. ChunksInv'
    BY <1>2, Numbers DEF ChunksInv
  <1>4. /\ active'[chunkIdx] = found
        /\ \A c \in Chunks : c # chunkIdx => active'[c] = active[c]
    BY <1>2
  <1>5. Aligned'
    BY <1>2, <1>4, Numbers DEF ConcurrentInv, Aligned
  <1>6. decoded' \in [Chunks -> Int] /\ active' \in [Chunks -> SUBSET Speakers]
    BY <1>2, Numbers
  <1> QED
    BY <1>3, <1>4, <1>5, <1>6

LEMMA ReceiveSpeakersInv ==
  ASSUME ConcurrentInv, NEW found \in SUBSET Speakers, ReceiveSpeakers(found)
  PROVE  ConcurrentInv'
  <1> USE DEF config, segVars
  <1>1. /\ path # "MultiMask" /\ Receive(found) /\ runner' = "speakers" /\ speaker' = 0
        /\ UNCHANGED <<config, segVars, chunkIdx, pending, masks, flags, indices, embedded,
                       outcome>>
        /\ IF path = "Split"
             THEN features' = Append(features, chunkIdx) /\ current' = Len(features')
             ELSE UNCHANGED <<features, current>>
    BY DEF ReceiveSpeakers
  <1>2. InChunk' /\ Received' = chunkIdx + 1 /\ ~Gone' /\ ~Ended'
    BY <1>1 DEF Received, InChunk, Gone, Ended
  <1>3. /\ runner = "recv" /\ ~Gone /\ Received = chunkIdx
        /\ chunkIdx \in Chunks /\ Chunks' = Chunks /\ stream' \in Seq(Chunks)
        /\ decoded' = [decoded EXCEPT ![chunkIdx] = chunkIdx]
        /\ active' = [active EXCEPT ![chunkIdx] = found]
        /\ StreamInv'
    BY <1>1, <1>2, ReceiveNext
  <1>4. /\ ChunksInv' /\ Aligned'
        /\ decoded' \in [Chunks -> Int] /\ active' \in [Chunks -> SUBSET Speakers]
        /\ active'[chunkIdx] = found
        /\ \A c \in Chunks : c # chunkIdx => active'[c] = active[c]
    BY <1>1, <1>2, <1>3, ReceiveChunks
  <1>5. /\ features' \in Seq(Chunks) /\ Len(features) \in Nat /\ current' \in Nat
        /\ \A i \in 1 .. Len(features) : i \in 1 .. Len(features') /\ features'[i] = features[i]
        /\ path = "Split" =>
             current' \in 1 .. Len(features') /\ features'[current'] = chunkIdx
    <2>1. features \in Seq(Chunks) /\ Len(features) \in Nat /\ current \in Nat
      BY DEF ConcurrentInv, TypeInv, ThreadTypes, ChunkTypes, BufferTypes
    <2>2. CASE path = "Split"
      BY <1>1, <1>3, <2>1, <2>2, SMTT(20)
    <2>3. CASE path # "Split"
      BY <1>1, <2>1, <2>3
    <2> QED
      BY <2>2, <2>3
  <1>6. TypeInv'
    <2>1. ThreadTypes' /\ ChunkTypes'
      BY <1>1, <1>3, <1>4 DEF ConcurrentInv, TypeInv, ThreadTypes, ChunkTypes
    <2>2. BufferTypes'
      BY <1>1, <1>3, <1>5, Numbers DEF ConcurrentInv, TypeInv, BufferTypes, Pending
    <2> QED
      BY <2>1, <2>2 DEF TypeInv
  <1>7. PendingInv'
    <2>1. /\ pending' = pending /\ path' = path /\ chunkIdx' = chunkIdx /\ runner' = "speakers"
          /\ total' = total
      BY <1>1
    <2>2. ASSUME NEW i \in 1 .. Len(pending)
          PROVE  /\ pending[i].chunk < chunkIdx + 1
                 /\ pending[i].speaker \in active'[pending[i].chunk]
                 /\ path = "Split" =>
                      /\ pending[i].fbank \in 1 .. Len(features')
                      /\ features'[pending[i].fbank] = pending[i].chunk
      <3>1. pending[i] \in Pending
        BY <2>2, ElementOfSeq DEF ConcurrentInv, TypeInv, BufferTypes
      <3>2. pending[i].chunk \in Chunks /\ pending[i].chunk \in Nat
        BY <3>1, Numbers DEF Pending
      <3>3. /\ pending[i].chunk < chunkIdx
            /\ pending[i].speaker \in active[pending[i].chunk]
            /\ path = "Split" =>
                 /\ pending[i].fbank \in 1 .. Len(features)
                 /\ features[pending[i].fbank] = pending[i].chunk
        BY <1>1, <1>3, <2>2 DEF ConcurrentInv, PendingInv
      <3>4. active'[pending[i].chunk] = active[pending[i].chunk]
        BY <1>4, <3>2, <3>3, Numbers
      <3>5. pending[i].chunk < chunkIdx + 1
        BY <3>2, <3>3, Numbers
      <3> QED
        BY <1>5, <3>3, <3>4, <3>5
    <2> QED
      BY <1>2, <1>3, <1>5, <2>1, <2>2, Numbers DEF PendingInv
  <1>8. BatchInv'
    BY <1>1 DEF BatchInv
  <1>9. CompleteInv'
    <2>1. ASSUME NEW c \in Chunks, c < chunkIdx + 1, NEW s \in active'[c]
          PROVE  embedded'[c][s] # NoEmbedding \/ Waiting(c, s)'
      <3>1. CASE c = chunkIdx
        <4>1. s >= 0
          BY <1>4, <2>1, <3>1 DEF Speakers
        <4> QED
          BY <1>1, <3>1, <4>1 DEF Waiting
      <3>2. CASE c < chunkIdx
        <4>1. s \in active[c]
          BY <1>4, <2>1, <3>2, Numbers
        <4>2. embedded[c][s] # NoEmbedding \/ Waiting(c, s)
          BY <1>3, <3>2, <4>1 DEF ConcurrentInv, CompleteInv
        <4> QED
          BY <1>1, <1>3, <4>2 DEF Waiting
      <3> QED
        BY <2>1, <3>1, <3>2, Numbers
    <2> QED
      BY <1>1, <1>2, <1>3, <2>1 DEF ConcurrentInv, CompleteInv
  <1> QED
    BY <1>1, <1>3, <1>4, <1>6, <1>7, <1>8, <1>9, NotYet DEF ConcurrentInv

(* Steps of the calling thread that receive nothing.                       *)
LEMMA StreamFrame ==
  ASSUME ConcurrentInv, UNCHANGED <<segVars, stream, config>>,
         ~Gone, ~Ended, ~Gone', ~Ended', Received' = Received
  PROVE  StreamInv'
  <1>1. runner' # "panicked" /\ segmenter # "disconnected"
    BY DEF Ended, Gone, ConcurrentInv, StreamInv
  <1>2. /\ total' = total /\ segmenter' = segmenter /\ nextIdx' = nextIdx /\ results' = results
        /\ stream' = stream
    BY DEF segVars, config
  <1> QED
    BY <1>1, <1>2 DEF ConcurrentInv, StreamInv

LEMMA ChunksFrame ==
  ASSUME ConcurrentInv, UNCHANGED <<config, decoded, active, embedded>>,
         ~Gone, Received' = Received
  PROVE  ChunksInv' /\ Aligned' /\ ChunkTypes'
  BY DEF ConcurrentInv, TypeInv, ChunkTypes, ChunksInv, Aligned, Chunks, config

LEMMA PushSpeakerInv ==
  ASSUME ConcurrentInv, PushSpeaker
  PROVE  ConcurrentInv'
  <1> DEFINE item == [chunk |-> chunkIdx, speaker |-> speaker, fbank |-> current]
             found == speaker \in active[chunkIdx]
  <1>1. /\ runner = "speakers" /\ speaker < NumSpeakers
        /\ \/ /\ found /\ pending' = Append(pending, item)
              /\ \/ runner' = "flush" /\ speaker' = speaker
                 \/ runner' = "speakers" /\ speaker' = speaker + 1
           \/ ~found /\ pending' = pending /\ runner' = "speakers" /\ speaker' = speaker + 1
        /\ UNCHANGED <<config, segVars, stream, chunkIdx, decoded, active, features, current,
                       masks, flags, indices, embedded, outcome>>
    BY DEF PushSpeaker
  <1>2. path # "MultiMask" /\ ~Gone /\ ~Ended
    BY <1>1 DEF ConcurrentInv, BatchInv, Gone, Ended
  <1>3. /\ InChunk /\ Received = chunkIdx + 1 /\ ~Gone' /\ ~Ended' /\ InChunk'
        /\ Received' = Received /\ path' = path /\ total' = total /\ Chunks' = Chunks
    BY <1>1, <1>2 DEF Received, InChunk, Gone, Ended, config, Chunks
  <1>4. StreamInv' /\ ChunksInv' /\ Aligned' /\ ChunkTypes' /\ OutcomeInv'
    BY <1>1, <1>2, <1>3, StreamFrame, ChunksFrame, NotYet
  <1>5. chunkIdx \in Chunks /\ speaker \in Speakers /\ current \in Nat
    <2>1. chunkIdx < total
      BY <1>2, <1>3 DEF ConcurrentInv, PendingInv
    <2> QED
      BY <1>1, <2>1, Numbers, SMTT(20) DEF Chunks, Speakers, ConcurrentInv, TypeInv, BufferTypes
  <1>6. /\ pending \in Seq(Pending) /\ pending' \in Seq(Pending) /\ Len(pending) \in Nat
        /\ \A i \in 1 .. Len(pending) : i \in 1 .. Len(pending') /\ pending'[i] = pending[i]
        /\ found => Len(pending) + 1 \in 1 .. Len(pending') /\ pending'[Len(pending) + 1] = item
        /\ \A i \in 1 .. Len(pending') : i \in 1 .. Len(pending) \/ (found /\ pending'[i] = item)
    <2>1. pending \in Seq(Pending) /\ Len(pending) \in Nat /\ item \in Pending
      BY <1>5 DEF ConcurrentInv, TypeInv, BufferTypes, Pending
    <2> HIDE DEF item, found
    <2> QED
      BY <1>1, <2>1
  <1>7. TypeInv'
    <2>1. ThreadTypes'
      BY <1>1, <1>3 DEF ConcurrentInv, TypeInv, ThreadTypes, segVars
    <2>2. BufferTypes'
      <3>1. Pending' = Pending /\ speaker' \in 0 .. NumSpeakers
        BY <1>1, <1>3, Numbers DEF Pending
      <3> QED
        BY <1>1, <1>3, <1>6, <3>1 DEF ConcurrentInv, TypeInv, BufferTypes
    <2> QED
      BY <1>4, <2>1, <2>2 DEF TypeInv
  <1>8. PendingInv'
    <2>1. /\ chunkIdx < total
          /\ path = "Split" => current \in 1 .. Len(features) /\ features[current] = chunkIdx
      BY <1>1, <1>2, <1>3 DEF ConcurrentInv, PendingInv
    <2>2. ASSUME NEW i \in 1 .. Len(pending')
          PROVE  /\ pending'[i].chunk < Received
                 /\ pending'[i].speaker \in active[pending'[i].chunk]
                 /\ path = "Split" =>
                      /\ pending'[i].fbank \in 1 .. Len(features)
                      /\ features[pending'[i].fbank] = pending'[i].chunk
      <3>1. CASE i \in 1 .. Len(pending)
        BY <1>2, <1>6, <3>1 DEF ConcurrentInv, PendingInv
      <3>2. CASE found /\ pending'[i] = item
        BY <1>3, <2>1, <3>2, Numbers
      <3> QED
        BY <1>6, <2>2, <3>1, <3>2
    <2>3. runner' = "flush" => speaker' < NumSpeakers
      BY <1>1
    <2> QED
      BY <1>1, <1>3, <2>1, <2>2, <2>3 DEF PendingInv
  <1>9. BatchInv'
    BY <1>2, <1>3 DEF BatchInv
  <1>10. CompleteInv'
    <2>1. ASSUME NEW c \in Chunks, c < Received, NEW s \in active[c]
          PROVE  embedded[c][s] # NoEmbedding \/ Waiting(c, s)'
      <3>1. CASE embedded[c][s] # NoEmbedding
        BY <3>1
      <3>2. CASE \E i \in 1 .. Len(pending) : pending[i].chunk = c /\ pending[i].speaker = s
        BY <1>6, <3>2 DEF Waiting
      <3>3. CASE c = chunkIdx /\ s = speaker
        BY <1>6, <3>3, <2>1 DEF Waiting
      <3>4. CASE c = chunkIdx /\ s >= speaker /\ s # speaker
        <4>1. s \in Nat
          BY <2>1, Numbers DEF ConcurrentInv, TypeInv, ChunkTypes, Speakers
        <4>2. s > speaker /\ s >= speaker + 1 /\ chunkIdx' = chunkIdx
          BY <1>1, <3>4, <4>1, Numbers
        <4> QED
          BY <1>1, <3>4, <4>2 DEF Waiting
      <3>5. embedded[c][s] # NoEmbedding \/ Waiting(c, s)
        BY <1>1, <2>1 DEF ConcurrentInv, CompleteInv
      <3>6. indices = <<>>
        BY <1>2 DEF ConcurrentInv, CompleteInv
      <3> QED
        BY <1>1, <3>1, <3>2, <3>3, <3>4, <3>5, <3>6 DEF Waiting
    <2>2. indices' = <<>> /\ embedded' = embedded /\ active' = active
      BY <1>1, <1>2 DEF ConcurrentInv, CompleteInv
    <2> QED
      BY <1>1, <1>2, <1>3, <2>1, <2>2 DEF CompleteInv
  <1> QED
    BY <1>4, <1>7, <1>8, <1>9, <1>10 DEF ConcurrentInv

LEMMA NextChunkInv ==
  ASSUME ConcurrentInv, NextChunk
  PROVE  ConcurrentInv'
  <1> USE DEF config, buffers, segVars
  <1>1. /\ runner = "speakers" /\ speaker = NumSpeakers
        /\ chunkIdx' = chunkIdx + 1 /\ runner' = "recv"
        /\ UNCHANGED <<config, segVars, stream, decoded, active, buffers, embedded, outcome>>
    BY DEF NextChunk
  <1>2. path # "MultiMask" /\ ~Gone /\ ~Ended
    BY <1>1 DEF ConcurrentInv, BatchInv, Gone, Ended
  <1>3. /\ InChunk /\ Received = chunkIdx + 1 /\ ~Gone' /\ ~Ended' /\ ~InChunk'
        /\ Received' = Received /\ Chunks' = Chunks
    BY <1>1, <1>2 DEF Received, InChunk, Gone, Ended, Chunks
  <1>4. StreamInv' /\ ChunksInv' /\ Aligned' /\ ChunkTypes' /\ OutcomeInv'
    BY <1>1, <1>2, <1>3, StreamFrame, ChunksFrame, NotYet
  <1>5. TypeInv'
    <2>1. chunkIdx' \in 0 .. total
      BY <1>1, <1>2, <1>3, Numbers DEF ConcurrentInv, PendingInv
    <2>2. ThreadTypes' /\ BufferTypes'
      BY <1>1, <1>3, <2>1 DEF ConcurrentInv, TypeInv, ThreadTypes, BufferTypes, Pending
    <2> QED
      BY <1>4, <2>2 DEF TypeInv
  <1>6. PendingInv' /\ BatchInv'
    BY <1>1, <1>2, <1>3 DEF ConcurrentInv, PendingInv, BatchInv
  <1>7. CompleteInv'
    <2>1. ASSUME NEW c \in Chunks, c < Received, NEW s \in active[c]
          PROVE  embedded[c][s] # NoEmbedding \/ Waiting(c, s)'
      <3>1. ~(s >= speaker)
        BY <1>1, <2>1, Numbers DEF ConcurrentInv, TypeInv, ChunkTypes, Speakers
      <3>2. embedded[c][s] # NoEmbedding \/ Waiting(c, s)
        BY <1>1, <2>1 DEF ConcurrentInv, CompleteInv
      <3> QED
        BY <1>1, <3>1, <3>2 DEF Waiting
    <2> QED
      BY <1>1, <1>2, <1>3, <2>1 DEF ConcurrentInv, CompleteInv
  <1> QED
    BY <1>4, <1>5, <1>6, <1>7 DEF ConcurrentInv

LEMMA EndOfStreamInv ==
  ASSUME ConcurrentInv, EndOfStream
  PROVE  ConcurrentInv'
  <1> USE DEF config, buffers, segVars
  <1>1. /\ runner = "recv" /\ stream = <<>> /\ segmenter # "running" /\ runner' = "tail"
        /\ UNCHANGED <<config, segVars, stream, chunkIdx, decoded, active, buffers, embedded,
                       outcome>>
    BY DEF EndOfStream
  <1>2. /\ ~Gone /\ ~Gone' /\ ~InChunk /\ ~InChunk' /\ Received = chunkIdx
        /\ Received' = Received /\ Chunks' = Chunks
    BY <1>1 DEF Gone, InChunk, Received, Chunks
  <1>3. ChunksInv' /\ Aligned' /\ ChunkTypes' /\ OutcomeInv'
    BY <1>1, <1>2, ChunksFrame, NotYet
  <1>4. TypeInv'
    <2>1. ThreadTypes' /\ BufferTypes'
      BY <1>1, <1>2 DEF ConcurrentInv, TypeInv, ThreadTypes, BufferTypes, Pending
    <2> QED
      BY <1>3, <2>1 DEF TypeInv
  <1>5. StreamInv'
    <2>1. results = <<>> /\ Len(stream) = 0 /\ Len(results) = 0
      BY <1>1 DEF ConcurrentInv, StreamInv
    <2>2. chunkIdx = nextIdx
      BY <1>2, <2>1, Numbers DEF ConcurrentInv, StreamInv
    <2>3. segmenter # "disconnected"
      BY <1>1 DEF ConcurrentInv, StreamInv
    <2> QED
      BY <1>1, <1>2, <2>1, <2>2, <2>3 DEF ConcurrentInv, StreamInv
  <1>6. PendingInv' /\ BatchInv'
    BY <1>1, <1>2 DEF ConcurrentInv, PendingInv, BatchInv, Row
  <1>7. CompleteInv'
    BY <1>1, <1>2 DEF ConcurrentInv, CompleteInv, Waiting
  <1> QED
    BY <1>3, <1>4, <1>5, <1>6, <1>7 DEF ConcurrentInv

LEMMA EmbedFailInv ==
  ASSUME ConcurrentInv, EmbedFail
  PROVE  ConcurrentInv'
  <1> USE DEF config, buffers, segVars
  <1>1. /\ runner \in {"flush", "tail", "speakers"} /\ runner' = "failed" /\ stream' = <<>>
        /\ UNCHANGED <<config, segVars, chunkIdx, decoded, active, buffers, embedded, outcome>>
    BY DEF EmbedFail
  <1>2. ~Gone /\ Gone' /\ ~Ended' /\ Received' = chunkIdx /\ Chunks' = Chunks
    BY <1>1 DEF Gone, Ended, InChunk, Received, Chunks
  <1>3. OutcomeInv'
    BY <1>1, <1>2, NotYet
  <1>4. TypeInv'
    <2>1. ThreadTypes' /\ BufferTypes' /\ ChunkTypes'
      BY <1>1, <1>2
         DEF ConcurrentInv, TypeInv, ThreadTypes, BufferTypes, ChunkTypes, Pending
    <2> QED
      BY <2>1 DEF TypeInv
  <1>5. StreamInv'
    BY <1>1, <1>2 DEF ConcurrentInv, StreamInv
  <1>6. ChunksInv'
    <2>1. \A c \in Chunks : c < chunkIdx => c < Received
      BY Numbers DEF Received
    <2> QED
      BY <1>1, <1>2, <2>1 DEF ConcurrentInv, ChunksInv
  <1>7. Aligned'
    BY <1>1, <1>2 DEF ConcurrentInv, Aligned
  <1>8. PendingInv' /\ BatchInv' /\ CompleteInv'
    BY <1>1, <1>2 DEF ConcurrentInv, PendingInv, BatchInv, CompleteInv
  <1> QED
    BY <1>3, <1>4, <1>5, <1>6, <1>7, <1>8 DEF ConcurrentInv

LEMMA FinalizeInv ==
  ASSUME ConcurrentInv, Finalize
  PROVE  ConcurrentInv'
  <1> USE DEF config, buffers, segVars
  <1>1. /\ runner = "finalize"
        /\ runner' = "done" \/ (runner' = "panicked" /\ chunkIdx # total)
        /\ UNCHANGED <<config, segVars, stream, chunkIdx, decoded, active, buffers, embedded,
                       outcome>>
    BY DEF Finalize
  <1>2. /\ ~Gone /\ Gone' /\ Ended /\ Ended' /\ Received = chunkIdx
        /\ Received' = Received /\ Chunks' = Chunks
    BY <1>1 DEF Gone, Ended, InChunk, Received, Chunks
  <1>3. ChunksInv' /\ Aligned' /\ ChunkTypes' /\ OutcomeInv'
    BY <1>1, <1>2, ChunksFrame, NotYet
  <1>4. TypeInv'
    <2>1. ThreadTypes' /\ BufferTypes'
      BY <1>1, <1>2 DEF ConcurrentInv, TypeInv, ThreadTypes, BufferTypes, Pending
    <2> QED
      BY <1>3, <2>1 DEF TypeInv
  <1>5. StreamInv'
    BY <1>1, <1>2 DEF ConcurrentInv, StreamInv
  <1>6. PendingInv' /\ BatchInv'
    BY <1>2 DEF PendingInv, BatchInv
  <1>7. CompleteInv'
    BY <1>1, <1>2 DEF ConcurrentInv, CompleteInv
  <1> QED
    BY <1>3, <1>4, <1>5, <1>6, <1>7 DEF ConcurrentInv

LEMMA JoinInv ==
  ASSUME ConcurrentInv, Join
  PROVE  ConcurrentInv'
  <1> USE DEF config, buffers, segVars
  <1>1. /\ Gone /\ segmenter # "running"
        /\ outcome' = "Ok" => segmenter \notin {"failed", "panicked", "disconnected"}
                              /\ runner \notin {"failed", "panicked"}
        /\ outcome' = "Disconnected" => segmenter = "disconnected"
        /\ outcome' = "Panic" => runner = "panicked"
        /\ UNCHANGED <<config, segVars, stream, runner, chunkIdx, decoded, active, buffers,
                       embedded>>
    BY DEF Join
  <1>2. /\ Gone' = Gone /\ Ended' = Ended /\ InChunk' = InChunk /\ Received' = Received
        /\ Chunks' = Chunks
    BY <1>1 DEF Gone, Ended, InChunk, Received, Chunks
  <1>3. OutcomeInv'
    <2>1. /\ segmenter \in {"running", "ok", "failed", "disconnected", "panicked"}
          /\ runner \in {"done", "failed", "panicked"}
      BY <1>1 DEF ConcurrentInv, TypeInv, ThreadTypes, Gone
    <2> QED
      BY <1>1, <1>2, <2>1 DEF OutcomeInv
  <1>4. TypeInv'
    <2>1. ThreadTypes' /\ BufferTypes' /\ ChunkTypes'
      BY <1>1, <1>2
         DEF ConcurrentInv, TypeInv, ThreadTypes, BufferTypes, ChunkTypes, Pending
    <2> QED
      BY <2>1 DEF TypeInv
  <1>5. StreamInv'
    BY <1>1, <1>2 DEF ConcurrentInv, StreamInv
  <1>6. ChunksInv' /\ Aligned'
    BY <1>1, <1>2 DEF ConcurrentInv, ChunksInv, Aligned
  <1>7. PendingInv' /\ BatchInv'
    BY <1>1, <1>2 DEF PendingInv, BatchInv
  <1>8. CompleteInv'
    BY <1>1, <1>2 DEF ConcurrentInv, CompleteInv, Waiting
  <1> QED
    BY <1>3, <1>4, <1>5, <1>6, <1>7, <1>8 DEF ConcurrentInv

LEMMA RealEmbedding == \A c \in Nat : \A m : Embedding(c, m) # NoEmbedding
  BY DEF Embedding, NoEmbedding

(* A batch of speakers: each gets the embedding of its own chunk and mask. *)
Stored(n, c, s) == \E i \in 1 .. n : pending[i].chunk = c /\ pending[i].speaker = s

LEMMA StoreFacts ==
  ASSUME ConcurrentInv, path # "MultiMask", ~Gone,
         NEW n \in 0 .. Len(pending), StorePending(n), UNCHANGED <<config, active, decoded>>
  PROVE  /\ ChunkTypes' /\ Aligned'
         /\ \A c \in Chunks, s \in Speakers :
              /\ Stored(n, c, s) => embedded'[c][s] # NoEmbedding
              /\ ~Stored(n, c, s) => embedded'[c][s] = embedded[c][s]
         /\ \A c \in Chunks, s \in Speakers : c >= Received => embedded'[c][s] = NoEmbedding
  <1>1. Len(pending) \in Nat /\ Chunks' = Chunks
    BY DEF ConcurrentInv, TypeInv, BufferTypes, Chunks, config
  <1>2. ASSUME NEW i \in 1 .. n
        PROVE  /\ pending[i].chunk \in Chunks /\ pending[i].chunk < Received
               /\ pending[i].speaker \in active[pending[i].chunk]
               /\ Audio(pending[i]) = pending[i].chunk
    <2>1. i \in 1 .. Len(pending)
      BY <1>1, <1>2
    <2>2. pending[i] \in Pending
      BY <2>1, ElementOfSeq DEF ConcurrentInv, TypeInv, BufferTypes
    <2> QED
      BY <2>1, <2>2 DEF ConcurrentInv, PendingInv, Pending, Audio
  <1>3. ASSUME NEW c \in Chunks, NEW s \in Speakers
        PROVE  /\ Stored(n, c, s) =>
                    embedded'[c][s] = Embedding(c, Mask(c, s)) /\ s \in active[c] /\ c < Received
               /\ ~Stored(n, c, s) => embedded'[c][s] = embedded[c][s]
    <2>1. embedded'[c][s] =
            IF Stored(n, c, s)
              THEN LET i == CHOOSE i \in 1 .. n : pending[i].chunk = c /\ pending[i].speaker = s
                   IN  Embedding(Audio(pending[i]), Mask(pending[i].chunk, pending[i].speaker))
              ELSE embedded[c][s]
      BY <1>3 DEF StorePending, Stored
    <2>2. CASE Stored(n, c, s)
      <3>1. PICK i \in 1 .. n :
              /\ i = CHOOSE k \in 1 .. n : pending[k].chunk = c /\ pending[k].speaker = s
              /\ pending[i].chunk = c /\ pending[i].speaker = s
        BY <2>2 DEF Stored
      <3> QED
        BY <1>2, <2>1, <2>2, <3>1
    <2> QED
      BY <2>1, <2>2
  <1>4. ChunkTypes'
    BY <1>1 DEF StorePending, ConcurrentInv, TypeInv, ChunkTypes
  <1>5. Aligned'
    BY <1>1, <1>3 DEF ConcurrentInv, Aligned
  <1>6. \A c \in Chunks, s \in Speakers : Stored(n, c, s) => embedded'[c][s] # NoEmbedding
    BY <1>3, RealEmbedding, Numbers
  <1>7. \A c \in Chunks, s \in Speakers : c >= Received => embedded'[c][s] = NoEmbedding
    BY <1>3, Numbers DEF ConcurrentInv, ChunksInv
  <1> QED
    BY <1>3, <1>4, <1>5, <1>6, <1>7

LEMMA FlushSpeakersInv ==
  ASSUME ConcurrentInv, FlushSpeakers
  PROVE  ConcurrentInv'
  <1> USE DEF config, segVars
  <1>1. /\ runner = "flush" /\ path # "MultiMask" /\ StorePending(Len(pending))
        /\ pending' = <<>> /\ speaker' = speaker + 1 /\ runner' = "speakers"
        /\ UNCHANGED <<config, segVars, stream, chunkIdx, decoded, active, masks, flags, indices,
                       outcome>>
    BY DEF FlushSpeakers
  <1>2. /\ ~Gone /\ ~Ended /\ ~Gone' /\ ~Ended' /\ InChunk /\ InChunk'
        /\ Received = chunkIdx + 1 /\ Received' = Received /\ Chunks' = Chunks
    BY <1>1 DEF Gone, Ended, InChunk, Received, Chunks
  <1>3. StreamInv' /\ OutcomeInv'
    BY <1>1, <1>2, StreamFrame, NotYet
  <1>4. Len(pending) \in Nat /\ Len(pending) \in 0 .. Len(pending) /\ Len(pending') = 0
    BY <1>1 DEF ConcurrentInv, TypeInv, BufferTypes
  <1>5. /\ ChunkTypes' /\ Aligned'
        /\ \A c \in Chunks, s \in Speakers :
             /\ Stored(Len(pending), c, s) => embedded'[c][s] # NoEmbedding
             /\ ~Stored(Len(pending), c, s) => embedded'[c][s] = embedded[c][s]
        /\ \A c \in Chunks, s \in Speakers : c >= Received => embedded'[c][s] = NoEmbedding
    BY <1>1, <1>2, <1>4, StoreFacts
  <1>6. ChunksInv'
    BY <1>1, <1>2, <1>5 DEF ConcurrentInv, ChunksInv
  <1>7. /\ speaker < NumSpeakers /\ chunkIdx < total
        /\ path = "Split" => current \in 1 .. Len(features) /\ features[current] = chunkIdx
    BY <1>1, <1>2 DEF ConcurrentInv, PendingInv
  <1>8. /\ features' \in Seq(Chunks) /\ current' \in Nat
        /\ path = "Split" /\ speaker' < NumSpeakers =>
             current' \in 1 .. Len(features') /\ features'[current'] = chunkIdx
    <2>1. CASE path = "Split" /\ speaker + 1 < NumSpeakers
      <3>1. features' = <<features[current]>> /\ current' = 1
        BY <2>1 DEF FlushSpeakers
      <3>2. chunkIdx \in Chunks
        BY <1>7, Numbers DEF Chunks
      <3> QED
        BY <1>7, <2>1, <3>1, <3>2
    <2>2. CASE ~(path = "Split" /\ speaker + 1 < NumSpeakers)
      <3>1. features' = <<>> /\ current' = current
        BY <2>2 DEF FlushSpeakers
      <3> QED
        BY <1>1, <2>2, <3>1 DEF ConcurrentInv, TypeInv, BufferTypes
    <2> QED
      BY <2>1, <2>2
  <1>9. TypeInv'
    <2>1. speaker' \in 0 .. NumSpeakers
      BY <1>1, <1>7, Numbers
    <2>2. ThreadTypes' /\ BufferTypes'
      BY <1>1, <1>2, <1>8, <2>1 DEF ConcurrentInv, TypeInv, ThreadTypes, BufferTypes, Pending
    <2> QED
      BY <1>5, <2>2 DEF TypeInv
  <1>10. PendingInv'
    BY <1>1, <1>2, <1>4, <1>7, <1>8 DEF PendingInv
  <1>11. BatchInv'
    BY <1>1 DEF BatchInv
  <1>12. CompleteInv'
    <2>1. ASSUME NEW c \in Chunks, c < Received, NEW s \in active[c]
          PROVE  embedded'[c][s] # NoEmbedding \/ Waiting(c, s)'
      <3>1. s \in Speakers /\ s \in Nat
        BY <2>1 DEF ConcurrentInv, TypeInv, ChunkTypes, Speakers
      <3>2. CASE Stored(Len(pending), c, s) \/ embedded[c][s] # NoEmbedding
        BY <1>5, <3>1, <3>2
      <3>3. CASE c = chunkIdx /\ s > speaker
        <4>1. s >= speaker' /\ chunkIdx' = chunkIdx /\ runner' = "speakers"
          BY <1>1, <3>1, <3>3, Numbers
        <4> QED
          BY <3>3, <4>1 DEF Waiting
      <3>4. embedded[c][s] # NoEmbedding \/ Waiting(c, s)
        BY <1>1, <2>1 DEF ConcurrentInv, CompleteInv
      <3>5. indices = <<>>
        BY <1>1 DEF ConcurrentInv, CompleteInv
      <3> QED
        BY <1>1, <3>2, <3>3, <3>4, <3>5 DEF Waiting, Stored
    <2> QED
      BY <1>1, <1>2, <2>1 DEF ConcurrentInv, CompleteInv
  <1> QED
    BY <1>3, <1>5, <1>6, <1>9, <1>10, <1>11, <1>12 DEF ConcurrentInv

LEMMA FlushTailSpeakersInv ==
  ASSUME ConcurrentInv, FlushTail, path # "MultiMask"
  PROVE  ConcurrentInv'
  <1> USE DEF config, segVars
  <1> DEFINE n == IF path = "Masked" /\ pending # <<>> THEN 1 ELSE Len(pending)
  <1>1. /\ runner = "tail" /\ StorePending(n)
        /\ pending' = SubSeq(pending, n + 1, Len(pending))
        /\ runner' = IF pending' = <<>> THEN "finalize" ELSE "tail"
        /\ UNCHANGED <<config, segVars, stream, chunkIdx, decoded, active, speaker, features,
                       current, masks, flags, indices, outcome>>
    BY DEF FlushTail
  <1>2. /\ ~Gone /\ ~Gone' /\ Ended /\ Ended' /\ ~InChunk /\ ~InChunk'
        /\ Received = chunkIdx /\ Received' = Received /\ Chunks' = Chunks
    BY <1>1 DEF Gone, Ended, InChunk, Received, Chunks
  <1>3. OutcomeInv'
    BY <1>1, <1>2, NotYet
  <1>4. StreamInv'
    BY <1>1, <1>2 DEF ConcurrentInv, StreamInv
  <1>5. pending \in Seq(Pending) /\ Len(pending) \in Nat /\ n \in 0 .. Len(pending)
    BY DEF ConcurrentInv, TypeInv, BufferTypes
  <1> HIDE DEF n
  <1>6. /\ ChunkTypes' /\ Aligned'
        /\ \A c \in Chunks, s \in Speakers :
             /\ Stored(n, c, s) => embedded'[c][s] # NoEmbedding
             /\ ~Stored(n, c, s) => embedded'[c][s] = embedded[c][s]
        /\ \A c \in Chunks, s \in Speakers : c >= Received => embedded'[c][s] = NoEmbedding
    BY <1>1, <1>2, <1>5, StoreFacts
  <1>7. ChunksInv'
    BY <1>1, <1>2, <1>6 DEF ConcurrentInv, ChunksInv
  <1>8. /\ pending' \in Seq(Pending) /\ Len(pending') = Len(pending) - n
        /\ \A i \in 1 .. Len(pending) - n :
             n + i \in 1 .. Len(pending) /\ pending'[i] = pending[n + i]
    <2>1. \A i \in n + 1 .. Len(pending) : pending[i] \in Pending
      BY <1>5, ElementOfSeq
    <2>2. n + 1 \in Int /\ Len(pending) \in Int
      BY <1>5
    <2> DEFINE rest == SubSeq(pending, n + 1, Len(pending))
    <2>3. /\ rest \in Seq(Pending)
          /\ Len(rest) = IF n + 1 <= Len(pending) THEN Len(pending) - (n + 1) + 1 ELSE 0
          /\ \A i \in 1 .. Len(pending) - (n + 1) + 1 : rest[i] = pending[(n + 1) + i - 1]
      BY <2>1, <2>2, SubSeqProperties
    <2> HIDE DEF rest
    <2>4. pending' = rest
      BY <1>1 DEF rest
    <2>5. Len(rest) = Len(pending) - n
      BY <1>5, <2>3
    <2>6. ASSUME NEW i \in 1 .. Len(pending) - n
          PROVE  n + i \in 1 .. Len(pending) /\ rest[i] = pending[n + i]
      <3>1. i \in Nat /\ i \in 1 .. Len(pending) - (n + 1) + 1 /\ (n + 1) + i - 1 = n + i
        BY <1>5
      <3>2. rest[i] = pending[(n + 1) + i - 1]
        BY <2>3, <3>1
      <3> QED
        BY <1>5, <3>1, <3>2
    <2> QED
      BY <2>3, <2>4, <2>5, <2>6
  <1>9. TypeInv'
    <2>1. ThreadTypes' /\ BufferTypes'
      BY <1>1, <1>2, <1>8 DEF ConcurrentInv, TypeInv, ThreadTypes, BufferTypes, Pending
    <2> QED
      BY <1>6, <2>1 DEF TypeInv
  <1>10. PendingInv'
    <2>1. ASSUME NEW i \in 1 .. Len(pending')
          PROVE  /\ pending'[i].chunk < Received
                 /\ pending'[i].speaker \in active[pending'[i].chunk]
                 /\ path = "Split" =>
                      /\ pending'[i].fbank \in 1 .. Len(features)
                      /\ features[pending'[i].fbank] = pending'[i].chunk
      BY <1>2, <1>8 DEF ConcurrentInv, PendingInv
    <2> QED
      BY <1>1, <1>2, <2>1 DEF PendingInv
  <1>11. BatchInv'
    BY <1>1 DEF BatchInv
  <1>12. CompleteInv'
    <2>1. ASSUME NEW c \in Chunks, c < Received, NEW s \in active[c],
                 embedded'[c][s] = NoEmbedding
          PROVE  runner' = "tail" /\ Waiting(c, s)'
      <3>1. s \in Speakers
        BY <2>1 DEF ConcurrentInv, TypeInv, ChunkTypes
      <3>2. ~Stored(n, c, s) /\ embedded[c][s] = NoEmbedding
        BY <1>6, <2>1, <3>1
      <3>3. Waiting(c, s) /\ indices = <<>>
        BY <1>1, <2>1, <3>2 DEF ConcurrentInv, CompleteInv
      <3>4. PICK k \in 1 .. Len(pending) : pending[k].chunk = c /\ pending[k].speaker = s
        BY <1>1, <3>3 DEF Waiting
      <3>5. k \notin 1 .. n
        BY <3>2, <3>4 DEF Stored
      <3>6. k - n \in 1 .. Len(pending) - n /\ n + (k - n) = k
        BY <1>5, <3>5
      <3>7. k - n \in 1 .. Len(pending') /\ pending'[k - n] = pending[k]
        BY <1>8, <3>6
      <3>8. pending' # <<>>
        BY <1>5, <1>8, <3>6
      <3> QED
        BY <1>1, <3>4, <3>7, <3>8 DEF Waiting
    <2> QED
      BY <1>1, <1>2, <2>1 DEF ConcurrentInv, CompleteInv
  <1> QED
    BY <1>3, <1>4, <1>6, <1>7, <1>9, <1>10, <1>11, <1>12 DEF ConcurrentInv
-----------------------------------------------------------------------------
(* The path that batches whole chunks.                                     *)

(* Rows of different chunks of a batch are different.                      *)
LEMMA RowFacts ==
  ASSUME NEW k \in Nat, NEW i \in 1 .. k, NEW s \in Speakers
  PROVE  /\ Row(i, s) \in Nat
         /\ Row(i, s) < k * NumSpeakers
         /\ k <= BatchSize => Row(i, s) \in Slots
         /\ Row(k + 1, s) = k * NumSpeakers + s
  <1>1. NumSpeakers \in Nat /\ BatchSize \in Nat /\ s \in Nat /\ s < NumSpeakers
    BY SizesAssumption DEF Speakers
  <1>2. (i - 1) * NumSpeakers \in Nat /\ (i - 1) * NumSpeakers + NumSpeakers = i * NumSpeakers
    BY <1>1
  <1>3. i * NumSpeakers <= k * NumSpeakers
    BY <1>1
  <1>4. Row(i, s) \in Nat /\ Row(i, s) < k * NumSpeakers
    BY <1>1, <1>2, <1>3 DEF Row
  <1>5. ASSUME k <= BatchSize PROVE k * NumSpeakers <= BatchSize * NumSpeakers
    BY <1>1, <1>5
  <1>6. k <= BatchSize => Row(i, s) \in Slots
    BY <1>1, <1>4, <1>5 DEF Slots
  <1> QED
    BY <1>1, <1>4, <1>6 DEF Row

LEMMA ReceiveMultiMaskInv ==
  ASSUME ConcurrentInv, NEW found \in SUBSET Speakers, ReceiveMultiMask(found)
  PROVE  ConcurrentInv'
  <1> USE DEF config, segVars
  <1> DEFINE k == Len(features)
             base == k * NumSpeakers
             row == [i \in 1 .. NumSpeakers |-> i - 1 \in found]
  <1>1. /\ path = "MultiMask" /\ Receive(found)
        /\ features' = Append(features, chunkIdx) /\ indices' = Append(indices, chunkIdx)
        /\ masks' = [slot \in Slots |-> IF slot >= base /\ slot - base \in found
                                          THEN Mask(chunkIdx, slot - base) ELSE masks[slot]]
        /\ flags' = flags \o row
        /\ runner' = IF Len(features') = BatchSize THEN "flush" ELSE "recv"
        /\ chunkIdx' = chunkIdx + 1
        /\ UNCHANGED <<config, segVars, speaker, pending, current, embedded, outcome>>
    BY DEF ReceiveMultiMask
  <1>2. ~InChunk' /\ Received' = chunkIdx + 1 /\ ~Gone' /\ ~Ended'
    BY <1>1 DEF Received, InChunk, Gone, Ended
  <1>3. /\ runner = "recv" /\ ~Gone /\ Received = chunkIdx
        /\ chunkIdx \in Chunks /\ Chunks' = Chunks /\ stream' \in Seq(Chunks)
        /\ decoded' = [decoded EXCEPT ![chunkIdx] = chunkIdx]
        /\ active' = [active EXCEPT ![chunkIdx] = found]
        /\ StreamInv'
    BY <1>1, <1>2, ReceiveNext
  <1>4. /\ ChunksInv' /\ Aligned'
        /\ decoded' \in [Chunks -> Int] /\ active' \in [Chunks -> SUBSET Speakers]
        /\ active'[chunkIdx] = found
        /\ \A c \in Chunks : c # chunkIdx => active'[c] = active[c]
    BY <1>1, <1>2, <1>3, ReceiveChunks
  <1>5. /\ Len(indices) = k /\ Len(flags) = base /\ k < BatchSize
        /\ \A i \in 1 .. k : features[i] = indices[i] /\ indices[i] < chunkIdx
        /\ \A i, j \in 1 .. k : indices[i] = indices[j] => i = j
        /\ \A i \in 1 .. k, s \in Speakers :
             /\ flags[Row(i, s) + 1] <=> s \in active[indices[i]]
             /\ s \in active[indices[i]] => masks[Row(i, s)] = Mask(indices[i], s)
    BY <1>1, <1>3 DEF ConcurrentInv, BatchInv
  <1>6. /\ features \in Seq(Chunks) /\ indices \in Seq(Chunks) /\ flags \in Seq(BOOLEAN)
        /\ k \in Nat /\ row \in Seq(BOOLEAN) /\ Len(row) = NumSpeakers
        /\ NumSpeakers \in Nat /\ base \in Nat
    <2>1. features \in Seq(Chunks) /\ indices \in Seq(Chunks) /\ flags \in Seq(BOOLEAN) /\ k \in Nat
      BY DEF ConcurrentInv, TypeInv, BufferTypes
    <2>2. NumSpeakers \in Nat
      BY Numbers
    <2> QED
      BY <2>1, <2>2
  <1>7. /\ features' \in Seq(Chunks) /\ Len(features') = k + 1
        /\ indices' \in Seq(Chunks) /\ Len(indices') = k + 1
        /\ features'[k + 1] = chunkIdx /\ indices'[k + 1] = chunkIdx
        /\ \A i \in 1 .. k : features'[i] = features[i] /\ indices'[i] = indices[i]
    BY <1>1, <1>3, <1>5, <1>6
  <1>8. /\ flags' \in Seq(BOOLEAN) /\ Len(flags') = base + NumSpeakers
        /\ \A i \in 1 .. base : flags'[i] = flags[i]
        /\ \A s \in Speakers : flags'[base + s + 1] <=> s \in found
    <2> HIDE DEF row, base
    <2>1. /\ flags' \in Seq(BOOLEAN) /\ Len(flags') = base + NumSpeakers
          /\ \A i \in 1 .. base + NumSpeakers :
               flags'[i] = IF i <= base THEN flags[i] ELSE row[i - base]
      <3>1. /\ flags \o row \in Seq(BOOLEAN) /\ Len(flags \o row) = Len(flags) + Len(row)
            /\ \A i \in 1 .. Len(flags) + Len(row) :
                 (flags \o row)[i] = IF i <= Len(flags) THEN flags[i] ELSE row[i - Len(flags)]
        BY <1>6, ConcatProperties
      <3> QED
        BY <1>1, <1>5, <1>6, <3>1
    <2>2. ASSUME NEW s \in Speakers PROVE flags'[base + s + 1] <=> s \in found
      <3>1. s \in Nat /\ s + 1 \in 1 .. NumSpeakers /\ (base + s + 1) - base = s + 1
        BY <1>6 DEF Speakers
      <3>2. base + s + 1 \in 1 .. base + NumSpeakers /\ ~(base + s + 1 <= base)
        BY <1>6, <3>1
      <3>3. flags'[base + s + 1] = row[s + 1]
        BY <2>1, <3>1, <3>2
      <3>4. row[s + 1] <=> s \in found
        <4>1. row[s + 1] = ((s + 1) - 1 \in found)
          BY <3>1 DEF row
        <4>2. (s + 1) - 1 = s
          BY <3>1
        <4> QED
          BY <4>1, <4>2
      <3> QED
        BY <3>3, <3>4
    <2>3. \A i \in 1 .. base : flags'[i] = flags[i]
      BY <1>6, <2>1
    <2> QED
      BY <2>1, <2>2, <2>3
  <1> HIDE DEF base, row
  <1>9. base = k * NumSpeakers /\ (k + 1) * NumSpeakers = base + NumSpeakers
    BY <1>6 DEF base
  <1>10. ASSUME NEW i \in 1 .. k + 1, NEW s \in Speakers
         PROVE  /\ flags'[Row(i, s) + 1] <=> s \in active'[indices'[i]]
                /\ s \in active'[indices'[i]] => masks'[Row(i, s)] = Mask(indices'[i], s)
    <2>1. Row(i, s) \in Slots
      <3>1. k + 1 \in Nat /\ k + 1 <= BatchSize
        BY <1>5, <1>6, Numbers
      <3> QED
        BY <3>1, RowFacts
    <2>2. CASE i \in 1 .. k
      <3>1. Row(i, s) \in Nat /\ Row(i, s) < base
        BY <1>6, <1>9, <2>2, RowFacts
      <3>2. flags'[Row(i, s) + 1] = flags[Row(i, s) + 1]
        BY <1>6, <1>8, <3>1
      <3>3. masks'[Row(i, s)] = masks[Row(i, s)]
        BY <1>1, <1>6, <2>1, <3>1
      <3>4. indices'[i] = indices[i] /\ indices[i] \in Chunks /\ indices[i] < chunkIdx
        BY <1>5, <1>6, <1>7, <2>2, ElementOfSeq
      <3>5. active'[indices'[i]] = active[indices[i]]
        BY <1>4, <3>4, Numbers
      <3> QED
        BY <1>5, <2>2, <3>2, <3>3, <3>4, <3>5, SMTT(20)
    <2>3. CASE i = k + 1
      <3>1. Row(i, s) = base + s
        BY <1>6, <1>9, <2>3 DEF Row
      <3>2. indices'[i] = chunkIdx /\ active'[indices'[i]] = found
        BY <1>4, <1>7, <2>3
      <3>3. base + s >= base /\ (base + s) - base = s
        BY <1>6 DEF Speakers
      <3>4. s \in found => masks'[Row(i, s)] = Mask(chunkIdx, s)
        BY <1>1, <2>1, <3>1, <3>3
      <3> QED
        BY <1>8, <3>1, <3>2, <3>4
    <2> QED
      BY <1>6, <2>2, <2>3
  <1>11. BatchInv'
    <2>1. k + 1 <= BatchSize /\ (runner' = "recv" => k + 1 < BatchSize) /\ runner' # "speakers"
      BY <1>1, <1>5, <1>6, <1>7, Numbers
    <2>2. \A i \in 1 .. k + 1 : features'[i] = indices'[i] /\ indices'[i] < chunkIdx'
      <3> SUFFICES ASSUME NEW i \in 1 .. k + 1
                   PROVE  features'[i] = indices'[i] /\ indices'[i] < chunkIdx + 1
        BY <1>1
      <3>1. CASE i \in 1 .. k
        <4>1. features'[i] = indices'[i] /\ indices'[i] < chunkIdx
          BY <1>5, <1>7, <3>1
        <4>2. indices'[i] \in Nat
          BY <1>7, ElementOfSeq, Numbers
        <4> QED
          BY <4>1, <4>2, Numbers
      <3>2. CASE i = k + 1
        BY <1>7, <3>2, Numbers
      <3> QED
        BY <1>6, <3>1, <3>2
    <2>3. \A i, j \in 1 .. k + 1 : indices'[i] = indices'[j] => i = j
      <3> SUFFICES ASSUME NEW i \in 1 .. k + 1, NEW j \in 1 .. k + 1, indices'[i] = indices'[j]
                   PROVE  i = j
        OBVIOUS
      <3>1. ASSUME NEW m \in 1 .. k PROVE indices'[m] = indices[m] /\ indices'[m] # chunkIdx
        <4>1. indices'[m] = indices[m] /\ indices[m] < chunkIdx
          BY <1>5, <1>7
        <4> QED
          BY <4>1, Numbers
      <3>2. (i \in 1 .. k \/ i = k + 1) /\ (j \in 1 .. k \/ j = k + 1)
        BY <1>6
      <3>3. CASE i \in 1 .. k /\ j \in 1 .. k
        BY <1>5, <3>1, <3>3
      <3> QED
        BY <1>7, <3>1, <3>2, <3>3
    <2> QED
      BY <1>7, <1>8, <1>9, <1>10, <2>1, <2>2, <2>3 DEF BatchInv
  <1>12. TypeInv'
    <2>1. ThreadTypes'
      <3>1. chunkIdx' \in 0 .. total
        BY <1>1, <1>3, Numbers
      <3> QED
        BY <1>1, <1>3, <3>1 DEF ConcurrentInv, TypeInv, ThreadTypes
    <2>2. ChunkTypes'
      BY <1>1, <1>3, <1>4 DEF ConcurrentInv, TypeInv, ChunkTypes
    <2>3. BufferTypes'
      BY <1>1, <1>3, <1>7, <1>8 DEF ConcurrentInv, TypeInv, BufferTypes, Pending
    <2> QED
      BY <2>1, <2>2, <2>3 DEF TypeInv
  <1>13. PendingInv'
    BY <1>1 DEF PendingInv
  <1>14. CompleteInv'
    <2>1. ASSUME NEW c \in Chunks, c < chunkIdx + 1, NEW s \in active'[c]
          PROVE  embedded'[c][s] # NoEmbedding \/ Waiting(c, s)'
      <3>1. CASE c = chunkIdx
        BY <1>6, <1>7, <3>1 DEF Waiting
      <3>2. CASE c < chunkIdx
        <4>1. s \in active[c]
          BY <1>4, <2>1, <3>2, Numbers
        <4>2. embedded[c][s] # NoEmbedding \/ Waiting(c, s)
          BY <1>3, <3>2, <4>1 DEF ConcurrentInv, CompleteInv
        <4>3. (\E i \in 1 .. Len(indices) : indices[i] = c)
                => \E i \in 1 .. Len(indices') : indices'[i] = c
          BY <1>5, <1>6, <1>7
        <4>4. pending = <<>>
          BY <1>1 DEF ConcurrentInv, CompleteInv
        <4> QED
          BY <1>1, <1>3, <4>2, <4>3, <4>4 DEF Waiting
      <3> QED
        BY <2>1, <3>1, <3>2, Numbers
    <2> QED
      BY <1>1, <1>2, <1>3, <2>1 DEF ConcurrentInv, CompleteInv
  <1>15. OutcomeInv'
    BY <1>1, <1>3, NotYet
  <1> QED
    BY <1>3, <1>4, <1>11, <1>12, <1>13, <1>14, <1>15 DEF ConcurrentInv

(* A batch of chunks: the rows of the active speakers go to their chunks.  *)
Buffered(c) == \E i \in 1 .. Len(indices) : indices[i] = c

LEMMA StoreMultiMaskFacts ==
  ASSUME ConcurrentInv, path = "MultiMask", ~Gone, StoreMultiMask,
         UNCHANGED <<config, active, decoded>>
  PROVE  /\ ChunkTypes' /\ Aligned'
         /\ \A c \in Chunks : \A s \in active[c] :
              /\ Buffered(c) => embedded'[c][s] # NoEmbedding
              /\ embedded[c][s] # NoEmbedding => embedded'[c][s] # NoEmbedding
         /\ \A c \in Chunks, s \in Speakers : c >= Received => embedded'[c][s] = NoEmbedding
  <1>1. Chunks' = Chunks /\ Received = chunkIdx
    BY DEF Chunks, config, Received, InChunk
  <1>2. /\ \A i \in 1 .. Len(indices) : features[i] = indices[i] /\ indices[i] < chunkIdx
        /\ \A i, j \in 1 .. Len(indices) : indices[i] = indices[j] => i = j
        /\ \A i \in 1 .. Len(indices), s \in Speakers :
             /\ flags[(i - 1) * NumSpeakers + s + 1] <=> s \in active[indices[i]]
             /\ s \in active[indices[i]] =>
                  masks[(i - 1) * NumSpeakers + s] = Mask(indices[i], s)
    BY DEF ConcurrentInv, BatchInv, Row
  <1>3. ASSUME NEW c \in Chunks, NEW s \in Speakers
        PROVE  /\ Buffered(c) /\ s \in active[c] =>
                    embedded'[c][s] = Embedding(c, Mask(c, s)) /\ c < chunkIdx
               /\ ~(Buffered(c) /\ s \in active[c]) => embedded'[c][s] = embedded[c][s]
    <2> DEFINE chosen == CHOOSE i \in 1 .. Len(indices) : indices[i] = c
    <2>1. embedded'[c][s] =
            IF \E i \in 1 .. Len(indices) :
                 indices[i] = c /\ flags[(i - 1) * NumSpeakers + s + 1]
              THEN Embedding(features[chosen], masks[(chosen - 1) * NumSpeakers + s])
              ELSE embedded[c][s]
      BY <1>3 DEF StoreMultiMask
    <2>2. (\E i \in 1 .. Len(indices) : indices[i] = c /\ flags[(i - 1) * NumSpeakers + s + 1])
            <=> Buffered(c) /\ s \in active[c]
      BY <1>2 DEF Buffered
    <2>3. Buffered(c) => chosen \in 1 .. Len(indices) /\ indices[chosen] = c
      BY DEF Buffered
    <2> HIDE DEF chosen
    <2>4. ASSUME Buffered(c), s \in active[c]
          PROVE  /\ Embedding(features[chosen], masks[(chosen - 1) * NumSpeakers + s]) =
                      Embedding(c, Mask(c, s))
                 /\ c < chunkIdx
      BY <1>2, <2>3, <2>4
    <2> QED
      BY <2>1, <2>2, <2>4
  <1>4. ChunkTypes'
    BY <1>1 DEF StoreMultiMask, ConcurrentInv, TypeInv, ChunkTypes
  <1>5. Aligned'
    BY <1>1, <1>3 DEF ConcurrentInv, Aligned
  <1>6. ASSUME NEW c \in Chunks, NEW s \in active[c]
        PROVE  /\ Buffered(c) => embedded'[c][s] # NoEmbedding
               /\ embedded[c][s] # NoEmbedding => embedded'[c][s] # NoEmbedding
    <2>1. s \in Speakers
      BY <1>6 DEF ConcurrentInv, TypeInv, ChunkTypes
    <2> QED
      BY <1>3, <2>1, RealEmbedding, Numbers
  <1>7. \A c \in Chunks, s \in Speakers : c >= Received => embedded'[c][s] = NoEmbedding
    BY <1>1, <1>3, Numbers DEF ConcurrentInv, ChunksInv
  <1> QED
    BY <1>4, <1>5, <1>6, <1>7

LEMMA FlushChunksInv ==
  ASSUME ConcurrentInv, FlushChunks
  PROVE  ConcurrentInv'
  <1> USE DEF config, segVars
  <1>1. /\ runner = "flush" /\ path = "MultiMask" /\ StoreMultiMask
        /\ features' = <<>> /\ masks' = NoMasks /\ flags' = <<>> /\ indices' = <<>>
        /\ runner' = "recv"
        /\ UNCHANGED <<config, segVars, stream, chunkIdx, decoded, active, speaker, pending,
                       current, outcome>>
    BY DEF FlushChunks
  <1>2. /\ ~Gone /\ ~Ended /\ ~Gone' /\ ~Ended' /\ ~InChunk'
        /\ Received = chunkIdx /\ Received' = Received /\ Chunks' = Chunks
    BY <1>1 DEF Gone, Ended, InChunk, Received, Chunks
  <1>3. StreamInv' /\ OutcomeInv'
    BY <1>1, <1>2, StreamFrame, NotYet
  <1>4. /\ ChunkTypes' /\ Aligned'
        /\ \A c \in Chunks : \A s \in active[c] :
             /\ Buffered(c) => embedded'[c][s] # NoEmbedding
             /\ embedded[c][s] # NoEmbedding => embedded'[c][s] # NoEmbedding
        /\ \A c \in Chunks, s \in Speakers : c >= Received => embedded'[c][s] = NoEmbedding
    BY <1>1, <1>2, StoreMultiMaskFacts
  <1>5. ChunksInv'
    BY <1>1, <1>2, <1>4 DEF ConcurrentInv, ChunksInv
  <1>6. TypeInv'
    <2>1. ThreadTypes' /\ BufferTypes'
      BY <1>1, <1>2 DEF ConcurrentInv, TypeInv, ThreadTypes, BufferTypes, Pending, NoMasks
    <2> QED
      BY <1>4, <2>1 DEF TypeInv
  <1>7. PendingInv'
    BY <1>1 DEF PendingInv
  <1>8. BatchInv'
    <2>1. Len(features') = 0 /\ Len(flags') = 0 /\ Len(indices') = 0 /\ 0 * NumSpeakers = 0
      BY <1>1, Numbers
    <2> QED
      BY <1>1, <2>1, Numbers DEF BatchInv
  <1>9. CompleteInv'
    <2>1. ASSUME NEW c \in Chunks, c < Received, NEW s \in active[c]
          PROVE  embedded'[c][s] # NoEmbedding
      <3>1. embedded[c][s] # NoEmbedding \/ Waiting(c, s)
        BY <1>1, <2>1 DEF ConcurrentInv, CompleteInv
      <3>2. pending = <<>> /\ c # chunkIdx
        BY <1>1, <1>2, <2>1, Numbers DEF ConcurrentInv, CompleteInv
      <3>3. embedded[c][s] # NoEmbedding \/ Buffered(c)
        BY <3>1, <3>2 DEF Waiting, Buffered
      <3> QED
        BY <1>4, <3>3
    <2> QED
      BY <1>1, <1>2, <2>1 DEF ConcurrentInv, CompleteInv
  <1> QED
    BY <1>3, <1>4, <1>5, <1>6, <1>7, <1>8, <1>9 DEF ConcurrentInv

LEMMA FlushTailChunksInv ==
  ASSUME ConcurrentInv, FlushTail, path = "MultiMask"
  PROVE  ConcurrentInv'
  <1> USE DEF config, segVars
  <1>1. /\ runner = "tail" /\ StoreMultiMask /\ runner' = "finalize"
        /\ UNCHANGED <<config, segVars, stream, chunkIdx, decoded, active, speaker, pending,
                       features, current, masks, flags, indices, outcome>>
    BY DEF FlushTail
  <1>2. /\ ~Gone /\ ~Gone' /\ Ended /\ Ended' /\ ~InChunk /\ ~InChunk'
        /\ Received = chunkIdx /\ Received' = Received /\ Chunks' = Chunks
    BY <1>1 DEF Gone, Ended, InChunk, Received, Chunks
  <1>3. OutcomeInv'
    BY <1>1, <1>2, NotYet
  <1>4. StreamInv'
    BY <1>1, <1>2 DEF ConcurrentInv, StreamInv
  <1>5. /\ ChunkTypes' /\ Aligned'
        /\ \A c \in Chunks : \A s \in active[c] :
             /\ Buffered(c) => embedded'[c][s] # NoEmbedding
             /\ embedded[c][s] # NoEmbedding => embedded'[c][s] # NoEmbedding
        /\ \A c \in Chunks, s \in Speakers : c >= Received => embedded'[c][s] = NoEmbedding
    BY <1>1, <1>2, StoreMultiMaskFacts
  <1>6. ChunksInv'
    BY <1>1, <1>2, <1>5 DEF ConcurrentInv, ChunksInv
  <1>7. TypeInv'
    <2>1. ThreadTypes' /\ BufferTypes'
      BY <1>1, <1>2 DEF ConcurrentInv, TypeInv, ThreadTypes, BufferTypes, Pending
    <2> QED
      BY <1>5, <2>1 DEF TypeInv
  <1>8. PendingInv' /\ BatchInv'
    BY <1>1, <1>2 DEF ConcurrentInv, PendingInv, BatchInv
  <1>9. CompleteInv'
    <2>1. ASSUME NEW c \in Chunks, c < Received, NEW s \in active[c]
          PROVE  embedded'[c][s] # NoEmbedding
      <3>1. embedded[c][s] # NoEmbedding \/ Waiting(c, s)
        BY <1>1, <2>1 DEF ConcurrentInv, CompleteInv
      <3>2. pending = <<>>
        BY DEF ConcurrentInv, CompleteInv
      <3>3. embedded[c][s] # NoEmbedding \/ Buffered(c)
        BY <1>1, <3>1, <3>2 DEF Waiting, Buffered
      <3> QED
        BY <1>5, <3>3
    <2> QED
      BY <1>1, <1>2, <2>1 DEF ConcurrentInv, CompleteInv
  <1> QED
    BY <1>3, <1>4, <1>5, <1>6, <1>7, <1>8, <1>9 DEF ConcurrentInv

LEMMA NextInv == ConcurrentInv /\ [Next]_vars => ConcurrentInv'
  <1> SUFFICES ASSUME ConcurrentInv, [Next]_vars PROVE ConcurrentInv'
    OBVIOUS
  <1>1. CASE RunnerNext
    BY <1>1, ReceiveSpeakersInv, ReceiveMultiMaskInv, PushSpeakerInv, NextChunkInv,
       FlushSpeakersInv, FlushChunksInv, EndOfStreamInv, FlushTailSpeakersInv,
       FlushTailChunksInv, EmbedFailInv, FinalizeInv, JoinInv
       DEF RunnerNext
  <1>2. CASE UNCHANGED vars
    <2>1. UNCHANGED <<config, runner, chunkIdx, decoded, active, buffers, embedded, outcome>>
      BY <1>2 DEF vars
    <2>2. UNCHANGED <<segmenter, nextIdx, results, stream>>
      BY <1>2 DEF vars, segVars
    <2>3. TypeInv'
      BY <2>1, <2>2
         DEF ConcurrentInv, TypeInv, ThreadTypes, ChunkTypes, BufferTypes, config, buffers, Chunks,
             Pending
    <2>4. StreamInv'
      BY <2>1, <2>2
         DEF ConcurrentInv, StreamInv, config, Received, InChunk, Ended, Gone
    <2> QED
      BY <2>1, <2>2, <2>3, <2>4, SegFrame
  <1> QED
    BY <1>1, <1>2, SegInv DEF Next, Returned

(* The bookkeeping of stream, chunks and batches is consistent.            *)
LEMMA ConcurrentInvariant == Spec => []ConcurrentInv
  BY InitInv, NextInv, PTL DEF Spec

(* Whichever batch a speaker falls in, and whoever shares it, its embedding *)
(* comes from the audio of its own chunk and its own mask, and each window *)
(* is decoded into its own chunk, for files and batches of any size        *)
(* (ConcurrentEmbeddingRunner).                                            *)
THEOREM EmbeddingsStayAligned == Spec => []EmbeddingsAligned
  <1>1. ConcurrentInv => EmbeddingsAligned
    BY DEF ConcurrentInv, ChunksInv, Aligned, EmbeddingsAligned
  <1> QED
    BY <1>1, ConcurrentInvariant, PTL

(* Ok means that every window arrived and every active speaker of it has   *)
(* an embedding; a disconnected stream means that the embedding failed,    *)
(* and a panic of the calling thread that the segmentation did             *)
(* (run_concurrent_inference, finalize).                                   *)
THEOREM ConcurrentOutcomeTruthful == Spec => []OutcomeTruthful
  <1>1. ConcurrentInv => OutcomeTruthful
    <2> SUFFICES ASSUME ConcurrentInv PROVE OutcomeTruthful
      OBVIOUS
    <2>1. ASSUME outcome = "Ok"
          PROVE  /\ segmenter = "ok" /\ runner = "done"
                 /\ \A c \in Chunks :
                      decoded[c] = c /\ \A s \in active[c] : embedded[c][s] # NoEmbedding
      <3>1. segmenter = "ok" /\ runner = "done"
        BY <2>1 DEF ConcurrentInv, OutcomeInv
      <3>2. Received = total
        BY <3>1 DEF ConcurrentInv, StreamInv, Ended, Received, InChunk
      <3>3. \A c \in Chunks : c < Received
        BY <3>2, Numbers
      <3> QED
        BY <3>1, <3>3 DEF ConcurrentInv, ChunksInv, CompleteInv
    <2>2. ASSUME outcome = "Disconnected" PROVE runner = "failed"
      BY <2>2 DEF ConcurrentInv, OutcomeInv, StreamInv
    <2>3. ASSUME outcome = "Panic" PROVE segmenter \in {"failed", "panicked"}
      <3>1. runner = "panicked" /\ segmenter # "running"
        BY <2>3 DEF ConcurrentInv, OutcomeInv
      <3>2. chunkIdx # total /\ chunkIdx = nextIdx
        BY <3>1 DEF ConcurrentInv, StreamInv, Ended
      <3>3. segmenter # "ok" /\ segmenter # "disconnected"
        BY <3>1, <3>2 DEF ConcurrentInv, StreamInv
      <3> QED
        BY <3>1, <3>3 DEF ConcurrentInv, TypeInv, ThreadTypes
    <2> QED
      BY <2>1, <2>2, <2>3 DEF OutcomeTruthful
  <1> QED
    BY <1>1, ConcurrentInvariant, PTL
=============================================================================
