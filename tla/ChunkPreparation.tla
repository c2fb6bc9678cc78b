-------------------------- MODULE ChunkPreparation --------------------------
(***************************************************************************)
(* What the chunk embedding of one file computes, whatever the order its   *)
(* threads run in (ChunkPipeline): the features and masks that are         *)
(* prepared for a chunk of windows (pipeline/chunk_embedding/prep.rs), the *)
(* session that embeds it and the slots its results are stored in          *)
(* (orchestrate.rs), and the frames of the file the windows are laid over  *)
(* (pipeline/types/layout.rs).                                             *)
(*                                                                         *)
(* A sample stands for one hop of the features: frame r of the features is *)
(* computed from the three samples that follow r, as 400 samples make more *)
(* than two hops of 160.  p is [step, window, speakers, minSamples,        *)
(* minActivity, chunkScope, whole, sessions]: whole is the length of the   *)
(* input of the long features model, and sessions are [windows, frames,    *)
(* masks], the smallest first.  An embedding is the pair of the features   *)
(* and the mask it was computed from.                                      *)
(***************************************************************************)
EXTENDS Clustering, SegmentationSetup

NoFeatures == <<>>
Features(audio) == [r \in Upto(Len(audio) - 2) |-> SubSeq(audio, r + 1, r + 3)]
ZeroPadded(audio, n) == [i \in 1..n |-> IF i \in DOMAIN audio THEN audio[i] ELSE 0]

\* FBANK_FRAMES, and the audio consumed for them.
FbankFramesOf(p) == p.window - 2
FbankSegmentSamples(p) == FbankFramesOf(p)

WindowAudio(p, audio, n) == SubSeq(audio, n * p.step + 1, Min({n * p.step + p.window, Len(audio)}))

ChunkAudio(p, audio, start, windows) ==
  SubSeq(audio, start * p.step + 1,
         Min({start * p.step + p.window + (windows - 1) * p.step, Len(audio)}))

\* The features of a chunk that fits in the long model, and of one that is
\* stitched from the features of segments.
WholeFbank(p, audio, frames) ==
  LET all == Features(ZeroPadded(audio, p.whole))
  IN  [r \in Upto(frames) |-> IF r \in DOMAIN all THEN all[r] ELSE NoFeatures]

StitchedFbank(p, audio, frames) ==
  [r \in Upto(frames) |->
     LET offset == (r \div FbankFramesOf(p)) * FbankSegmentSamples(p)
         segment == SubSeq(audio, offset + 1, Min({offset + p.window, Len(audio)}))
     IN  IF offset < Len(audio)
         THEN Features(ZeroPadded(segment, p.window))[r % FbankFramesOf(p)]
         ELSE NoFeatures]

ComputeChunkFbanks(p, audio, frames) ==
  IF p.chunkScope /\ Len(audio) <= p.whole THEN WholeFbank(p, audio, frames)
  ELSE StitchedFbank(p, audio, frames)

\* The rows of the masks: [active, dest].  Rows past the last window stay empty.
CollectChunkMasks(p, chunk, audio, masks) ==
  LET empty(seg) == [f \in DOMAIN seg |-> 0]
  IN  [k \in Upto(masks) |->
         LET local == k \div p.speakers
         IN  IF local >= Len(chunk.decoded) THEN [active |-> FALSE, dest |-> <<>>]
             ELSE LET seg == chunk.decoded[local + 1]
                  IN  WriteSpeakerMask(seg, k % p.speakers,
                        Len(WindowAudio(p, audio, chunk.start + local)), p.minSamples,
                        p.minActivity, empty(seg))]

\* The embeddings of a chunk: <<local window, speaker>> -> <<features, mask>>.
EmbedChunk(p, session, chunk, audio) ==
  LET heard == ChunkAudio(p, audio, chunk.start, Len(chunk.decoded))
      fbank == ComputeChunkFbanks(p, heard, session.frames)
      masks == CollectChunkMasks(p, chunk, audio, session.masks)
      active == {k \in DOMAIN masks : masks[k].active}
  IN  [at \in {<<k \div p.speakers, k % p.speakers>> : k \in active} |->
         <<fbank, masks[at[1] * p.speakers + at[2]].dest>>]

\* The bridge: groups of as many windows as the largest session takes.
Chunks(p, decoded) ==
  LET capacity == Last(p.sessions).windows
  IN  [i \in 1..CeilDiv(Len(decoded), capacity) |->
         [start |-> (i - 1) * capacity,
          decoded |-> SubSeq(decoded, (i - 1) * capacity + 1,
                             Min({i * capacity, Len(decoded)}))]]

\* A chunk lands in its slots: those of its start if several are in flight, the
\* next ones if they come one after the other.
Stored(slots, slot, chunk, embeddings) ==
  [segs |-> Over([n \in slot..slot + Len(chunk.decoded) - 1 |-> chunk.decoded[n - slot + 1]],
                 slots.segs),
   embs |-> Over([at \in {<<slot + e[1], e[2]>> : e \in DOMAIN embeddings} |->
                    embeddings[<<at[1] - slot, at[2]>>]], slots.embs)]

\* Several chunks are embedded by the largest session, a single one by the
\* smallest that takes it.
SessionFor(p, pipelined, chunk) ==
  IF pipelined THEN Last(p.sessions)
  ELSE p.sessions[SelectInSeq(p.sessions, LAMBDA s : s.windows >= Len(chunk.decoded))]

StoreChunk(p, pipelined, audio, acc, chunk) ==
  [slots |-> Stored(acc.slots, IF pipelined THEN chunk.start ELSE acc.next, chunk,
                    EmbedChunk(p, SessionFor(p, pipelined, chunk), chunk, audio)),
   next |-> acc.next + Len(chunk.decoded)]

TryChunkEmbedding(p, decoded, audio) ==
  LET chunks == Chunks(p, decoded)
      pipelined == Len(chunks) >= 2
  IN  FoldLeft(LAMBDA acc, c : StoreChunk(p, pipelined, audio, acc, c),
               [slots |-> [segs |-> <<>>, embs |-> <<>>], next |-> 0], chunks).slots
-----------------------------------------------------------------------------
(* layout.rs.  A frame step is 270 samples, a window 160000.               *)

ClosestFrame(samples) == (2 * samples + 270) \div 540
StartFrames(windows, step) == [c \in 1..windows |-> ClosestFrame((c - 1) * step)]
OutputFrames(windows, step) ==
  IF windows = 0 THEN 0 ELSE ClosestFrame(160000 + (windows - 1) * step) + 1
=============================================================================
