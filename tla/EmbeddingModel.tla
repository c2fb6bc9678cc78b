--------------------------- MODULE EmbeddingModel ---------------------------
(***************************************************************************)
(* The speaker embedding model: which sessions it loads from the files of  *)
(* a model directory, at once (load/sessions.rs) or when they are first    *)
(* needed (native.rs), which embedding path the pipeline takes with them   *)
(* (embedding_path, pipeline.rs), and the calls that fill its              *)
(* preallocated buffers and run a session on them (run.rs, batch.rs,       *)
(* tail.rs, fbank.rs).                                                     *)
(*                                                                         *)
(* A file is <<part, batch, format>>.  A model m is a record; a call       *)
(* returns [m, ok, out].  A network is modelled by what it is given: an    *)
(* embedding is the pair of the row of audio (or features) and the row of  *)
(* weights it was computed from, and features are the row of audio.  A row *)
(* of a buffer has RowLength places; 0 is silence.                         *)
(***************************************************************************)
EXTENDS Integers, Sequences, FiniteSets, SequencesExt

CONSTANTS
  PrimaryBatch,       \* PRIMARY_BATCH_SIZE, 64 in the code
  SmallBatch,         \* MULTI_MASK_BATCH_SIZE and FBANK_BATCH_SIZE, 32
  ChunkSpeakerBatch,  \* CHUNK_SPEAKER_BATCH_SIZE and NUM_SPEAKERS, 3
  RowLength           \* window_samples, mask_frames and FBANK_FRAMES

ASSUME BatchAssumption ==
  /\ {PrimaryBatch, SmallBatch, ChunkSpeakerBatch, RowLength} \subseteq Nat \ {0, 1}
  /\ Cardinality({PrimaryBatch, SmallBatch, ChunkSpeakerBatch}) = 3

Onnx(part, batch) == <<part, batch, "onnx">>
Native(part, batch) == <<part, batch, "mlmodelc">>
IsCoreMl(mode) == mode \in {"coreml", "coreml-fast"}
-----------------------------------------------------------------------------
(* models.rs: the files from_pretrained downloads, as far as the embedding *)
(* model is concerned.                                                     *)

ChunkWindows(layout, ladder) ==
  CASE layout = "p1s" /\ ladder = "full" -> <<21, 36, 51, 81, 111>>
    [] layout = "p1s" /\ ladder = "reduced" -> <<21, 51, 111>>
    [] layout = "s25" /\ ladder = "full" -> <<11, 16, 21, 26, 36, 46, 56>>
    [] OTHER -> <<>>

CoreMlFiles(layout) ==
  {Onnx("embedding", 1), Onnx("fbank", 1), Onnx("fbank", SmallBatch), Onnx("tail", 1),
   Onnx("tail", ChunkSpeakerBatch), Onnx("tail", SmallBatch), Native("fbank", 1),
   Native("fbank", SmallBatch), Native("fbank-30s", 1), Native("multimask", SmallBatch),
   Native("tail", 1), Native("tail", ChunkSpeakerBatch), Native("tail", SmallBatch)}
  \cup {Native(layout, w) : w \in Range(ChunkWindows(layout, "full"))}

RequiredFiles(mode) ==
  CASE mode = "cpu" -> {Onnx("embedding", 1)}
    [] mode = "coreml" -> CoreMlFiles("p1s")
    [] mode = "coreml-fast" -> CoreMlFiles("s25")
    [] OTHER -> {Onnx("embedding", 1), Onnx("embedding", PrimaryBatch), Onnx("fbank", 1),
                 Onnx("fbank", SmallBatch), Onnx("multimask", 1), Onnx("multimask", SmallBatch)}
-----------------------------------------------------------------------------
(* native/loaders.rs.  An experiment is <<>> or <<[layout, ladder]>>.      *)

ChunkSessionConfig(mode, experiment) ==
  IF experiment # <<>> THEN ChunkWindows(experiment[1].layout, experiment[1].ladder)
  ELSE CASE mode = "coreml-fast" -> ChunkWindows("s25", "full")
         [] mode = "coreml" -> ChunkWindows("p1s", "full")
         [] OTHER -> <<>>

ChunkLayoutOf(mode, experiment) ==
  IF experiment # <<>> THEN experiment[1].layout
  ELSE IF mode = "coreml-fast" THEN "s25" ELSE "p1s"

UsesNativeChunkSessions(mode, experiment) ==
  IF experiment # <<>> THEN experiment[1].layout # "per-window" ELSE IsCoreMl(mode)

\* The full-precision bundle if there is one, else the quantized one.
ChunkAssets(files, layout, w) ==
  LET quantized == <<layout, w, "w8a16">>
  IN  IF Native(layout, w) \in files THEN {Native(layout, w)} ELSE {quantized} \cap files

ValidateNativeAssets(files, mode, experiment) ==
  IsCoreMl(mode) =>
    /\ {Native("fbank", 1), Native("fbank", SmallBatch), Native("tail", 1),
        Native("tail", ChunkSpeakerBatch), Native("multimask", SmallBatch)} \subseteq files
    /\ UsesNativeChunkSessions(mode, experiment) =>
         /\ Native("fbank-30s", 1) \in files
         /\ \A w \in Range(ChunkSessionConfig(mode, experiment)) :
              ChunkAssets(files, ChunkLayoutOf(mode, experiment), w) # {}

FbankFrames(layout, w) == (w - 1) * (IF layout = "s25" THEN 25 * 8 ELSE 100) + 1000

ChunkSessionSpecs(files, mode, experiment) ==
  LET layout == ChunkLayoutOf(mode, experiment)
      config == ChunkSessionConfig(mode, experiment)
      spec(w) == [asset |-> CHOOSE a \in ChunkAssets(files, layout, w) : TRUE,
                  windows |-> w, frames |-> FbankFrames(layout, w), masks |-> 3 * w]
  IN  IF ~IsCoreMl(mode) THEN <<>>
      ELSE FlattenSeq([i \in DOMAIN config |->
                         IF ChunkAssets(files, layout, config[i]) = {} THEN <<>>
                         ELSE <<spec(config[i])>>])
-----------------------------------------------------------------------------
(* load.rs and load/sessions.rs                                            *)

SplitBackendAvailable(files) ==
  /\ Onnx("fbank", 1) \in files
  /\ Onnx("tail", 1) \in files \/ Onnx("multimask", 1) \in files

\* Sessions that are built whether their file exists or not.
DemandedSessions(files) ==
  {Onnx("embedding", 1)}
  \cup IF SplitBackendAvailable(files) THEN {Onnx("fbank", 1), Onnx("tail", 1)} ELSE {}

OptionalSessions(files) ==
  files \cap ({Onnx("embedding", PrimaryBatch), Onnx("multimask", 1),
               Onnx("multimask", PrimaryBatch)}
              \cup IF SplitBackendAvailable(files)
                   THEN {Onnx("fbank", SmallBatch), Onnx("tail", ChunkSpeakerBatch),
                         Onnx("tail", PrimaryBatch)} ELSE {})

ExperimentValid(mode, experiment) ==
  experiment # <<>> =>
    /\ <<mode, experiment[1].layout>> \in
         {<<"coreml", "p1s">>, <<"coreml", "per-window">>, <<"coreml-fast", "s25">>}
    /\ experiment[1].ladder = "reduced" => experiment[1].layout = "p1s"

Loads(files, mode, experiment) ==
  /\ ExperimentValid(mode, experiment)
  /\ ValidateNativeAssets(files, mode, experiment)
  /\ DemandedSessions(files) \subseteq files

Silence == [i \in 1..RowLength |-> 0]
Buffer(rows) == [r \in 1..rows |-> Silence]

LoadedModel(files, mode, experiment) ==
  [files |-> files, mode |-> mode, ort |-> DemandedSessions(files) \cup OptionalSessions(files),
   native |-> {}, chunkSpecs |-> ChunkSessionSpecs(files, mode, experiment),
   chunkSessions |-> <<>>, wave |-> Buffer(1), weights |-> Buffer(1),
   primaryWave |-> Buffer(PrimaryBatch), primaryWeights |-> Buffer(PrimaryBatch),
   splitWave |-> Buffer(1), fbankBatch |-> Buffer(SmallBatch),
   features |-> Buffer(ChunkSpeakerBatch), splitWeights |-> Buffer(ChunkSpeakerBatch),
   primaryFeatures |-> Buffer(PrimaryBatch), primaryTail |-> Buffer(PrimaryBatch),
   multiFeatures |-> Buffer(SmallBatch), multiMasks |-> Buffer(SmallBatch * ChunkSpeakerBatch)]
-----------------------------------------------------------------------------
(* embedding.rs: what the model offers, and the path the pipeline takes.   *)

HasNative(m, part, batch) == IsCoreMl(m.mode) /\ Native(part, batch) \in m.files
Offers(m, part, batch) ==
  IF IsCoreMl(m.mode) THEN HasNative(m, part, batch) ELSE Onnx(part, batch) \in m.ort

PrimaryBatchSize(m) == IF Onnx("embedding", PrimaryBatch) \in m.ort THEN PrimaryBatch ELSE 1
BestBatchLen(m, pending) ==
  IF pending >= PrimaryBatch /\ PrimaryBatchSize(m) > 1 THEN PrimaryBatch
  ELSE IF pending = 0 THEN 0 ELSE 1
PrefersChunkEmbeddingPath(m) == Offers(m, "fbank", 1) /\ Offers(m, "tail", 1)
SplitPrimaryBatchSize(m) == IF Offers(m, "tail", PrimaryBatch) THEN PrimaryBatch ELSE 0
HasBatchedFbank(m) == Offers(m, "fbank", SmallBatch)
PrefersMultiMaskPath(m) ==
  IF IsCoreMl(m.mode) THEN HasNative(m, "multimask", SmallBatch) ELSE Onnx("multimask", 1) \in m.ort
MultiMaskBatchSize(m) ==
  IF IsCoreMl(m.mode) THEN (IF HasNative(m, "multimask", SmallBatch) THEN SmallBatch ELSE 0)
  ELSE IF Onnx("multimask", PrimaryBatch) \in m.ort THEN SmallBatch
  ELSE IF Onnx("multimask", 1) \in m.ort THEN 1 ELSE 0

PathOf(m) ==
  IF PrefersMultiMaskPath(m) /\ MultiMaskBatchSize(m) > 0 THEN "multi-mask"
  ELSE IF PrefersChunkEmbeddingPath(m) /\ SplitPrimaryBatchSize(m) > 0 THEN "split"
  ELSE "masked"
-----------------------------------------------------------------------------
Answer(m, ok, out) == [m |-> m, ok |-> ok, out |-> out]

\* Loads a native session once; other modes have none.
EnsureNative(m, part, batch) ==
  IF Native(part, batch) \in m.native \/ ~IsCoreMl(m.mode) THEN Answer(m, TRUE, <<>>)
  ELSE IF Native(part, batch) \in m.files
  THEN Answer([m EXCEPT !.native = @ \cup {Native(part, batch)}], TRUE, <<>>)
  ELSE Answer(m, FALSE, <<>>)

\* A native session if it is there, else the ONNX one: result out of m.
Predict(m, nativeKey, onnxKey, out) ==
  LET ensured == EnsureNative(m, nativeKey[1], nativeKey[2])
      there == ensured.ok /\ (Native(nativeKey[1], nativeKey[2]) \in ensured.m.native
                              \/ Onnx(onnxKey[1], onnxKey[2]) \in m.ort)
  IN  Answer(ensured.m, there, IF there THEN out ELSE <<>>)

\* Mutant: what an earlier, longer input left behind the new one stays.
FillRowOver(row, values) == [i \in 1..RowLength |-> IF i \in DOMAIN values THEN values[i] ELSE row[i]]

\* prepare_waveform and prepare_weights: the values, then zeros.
FillRow(row, values) == [i \in 1..RowLength |-> IF i \in DOMAIN values THEN values[i] ELSE 0]

FillRows(buffer, inputs) ==
  [r \in DOMAIN buffer |-> IF r \in DOMAIN inputs THEN FillRow(buffer[r], inputs[r]) ELSE buffer[r]]
FillRest(buffer, from) == [r \in DOMAIN buffer |-> IF r > from THEN Silence ELSE buffer[r]]
RowPairs(left, right, n) == [r \in 1..n |-> <<left[r], right[r]>>]

\* run.rs: embed_single, after select_mask.
EmbedSingle(m, audio, mask) ==
  LET filled == [m EXCEPT !.wave = FillRows(@, <<audio>>), !.weights = FillRows(@, <<mask>>)]
  IN  Answer(filled, TRUE, RowPairs(filled.wave, filled.weights, 1))

\* Calls one after the other; the first failure ends them.
InTurn(m, items, Call(_, _)) ==
  FoldLeft(LAMBDA acc, x : IF ~acc.ok THEN acc
                           ELSE LET r == Call(acc.m, x)
                                IN  Answer(r.m, r.ok, IF r.ok THEN acc.out \o r.out ELSE <<>>),
           Answer(m, TRUE, <<>>), items)

\* batch.rs: inputs are [audio, mask].
EmbedBatch(m, inputs) ==
  LET filled == [m EXCEPT
        !.primaryWave = FillRows(@, [i \in DOMAIN inputs |-> inputs[i].audio]),
        !.primaryWeights = FillRows(@, [i \in DOMAIN inputs |-> inputs[i].mask])]
  IN  IF Onnx("embedding", PrimaryBatch) \in m.ort /\ Len(inputs) = PrimaryBatch
      THEN Answer(filled, TRUE, RowPairs(filled.primaryWave, filled.primaryWeights, PrimaryBatch))
      ELSE InTurn(m, inputs, LAMBDA n, x : EmbedSingle(n, x.audio, x.mask))

\* fbank.rs
ComputeChunkFbank(m, audio) ==
  LET filled == [m EXCEPT !.splitWave = FillRows(@, <<audio>>)]
  IN  Predict(filled, <<"fbank", 1>>, <<"fbank", 1>>, <<filled.splitWave[1]>>)

\* A batch the code cannot run whole is run audio by audio.
FbankBatch(m, audios) ==
  LET filled == [m EXCEPT !.fbankBatch = FillRows(Buffer(SmallBatch), audios)]
      ensured == EnsureNative(filled, "fbank", SmallBatch)
      rows == [i \in DOMAIN audios |-> filled.fbankBatch[i]]
      single(n) == InTurn(n, audios, ComputeChunkFbank)
  IN  IF Len(audios) = 1 THEN single(m)
      ELSE IF ~ensured.ok \/ Native("fbank", SmallBatch) \in ensured.m.native
      THEN Answer(ensured.m, ensured.ok, IF ensured.ok THEN rows ELSE <<>>)
      ELSE IF Len(audios) < SmallBatch THEN single(ensured.m)
      ELSE Answer(ensured.m, TRUE, rows)

ComputeChunkFbanksBatch(m, audios) ==
  LET batches == [b \in 1..((Len(audios) + SmallBatch - 1) \div SmallBatch) |->
                    SubSeq(audios, (b - 1) * SmallBatch + 1,
                           IF b * SmallBatch < Len(audios) THEN b * SmallBatch ELSE Len(audios))]
  IN  IF HasBatchedFbank(m) THEN InTurn(m, batches, FbankBatch)
      ELSE InTurn(m, audios, ComputeChunkFbank)

\* batch.rs: inputs are [features, mask], at most PrimaryBatch of them; equal
\* neighbours are copied from the row before.
EmbedTailBatchInputs(m, inputs) ==
  LET n == Len(inputs)
      filled == [m EXCEPT
        !.primaryFeatures = FillRows(@, [i \in DOMAIN inputs |-> inputs[i].features]),
        !.primaryTail = FillRest(FillRows(@, [i \in DOMAIN inputs |-> inputs[i].mask]), n)]
  IN  Predict(filled, <<"tail", PrimaryBatch>>, <<"tail", PrimaryBatch>>,
              RowPairs(filled.primaryFeatures, filled.primaryTail, n))

\* tail.rs
EmbedTailSingle(m, features, mask) ==
  LET filled == [m EXCEPT !.features = FillRows(@, <<features>>),
                          !.splitWeights = FillRows(@, <<mask>>)]
  IN  Predict(filled, <<"tail", 1>>, <<"tail", 1>>,
              RowPairs(filled.features, filled.splitWeights, 1))

EmbedTailBatch(m, features, masks) ==
  LET filled == [m EXCEPT !.features = FillRows(@, [i \in DOMAIN masks |-> features]),
                          !.splitWeights = FillRows(@, masks)]
  IN  Predict(filled, <<"tail", ChunkSpeakerBatch>>, <<"tail", ChunkSpeakerBatch>>,
              RowPairs(filled.features, filled.splitWeights, Len(masks)))

EmbedChunkSpeakers(m, audio, masks) ==
  LET fbank == ComputeChunkFbank(m, audio)
      batched == Offers(m, "tail", ChunkSpeakerBatch) /\ Len(masks) = ChunkSpeakerBatch
  IN  IF ~PrefersChunkEmbeddingPath(m)
      THEN InTurn(m, masks, LAMBDA n, mask : EmbedSingle(n, audio, mask))
      ELSE IF ~fbank.ok THEN fbank
      ELSE IF batched THEN EmbedTailBatch(fbank.m, fbank.out[1], masks)
      ELSE InTurn(fbank.m, masks, LAMBDA n, mask : EmbedTailSingle(n, fbank.out[1], mask))

\* batch.rs: ChunkSpeakerBatch masks per row of features; a full batch takes
\* the batched ONNX session, others one row after the other.
EmbedMultiMaskBatch(m, features, masks) ==
  LET n == Len(features)
      filled == [m EXCEPT !.multiFeatures = FillRest(FillRows(@, features), n),
                          !.multiMasks = FillRest(FillRows(@, masks), Len(masks))]
      out == [i \in DOMAIN masks |->
                <<filled.multiFeatures[(i - 1) \div ChunkSpeakerBatch + 1], filled.multiMasks[i]>>]
      key == IF n = SmallBatch /\ Onnx("multimask", PrimaryBatch) \in m.ort
             THEN PrimaryBatch ELSE 1
  IN  Predict(filled, <<"multimask", SmallBatch>>, <<"multimask", key>>, out)
-----------------------------------------------------------------------------
(* native.rs: the sessions that embed whole chunks of windows.             *)

ChunkWindowCapacity(m) == IF m.chunkSpecs = <<>> THEN {} ELSE {Last(m.chunkSpecs).windows}

EnsureChunkSession(m, windows) ==
  LET fitting == SelectSeq(m.chunkSpecs, LAMBDA s : s.windows >= windows)
      loaded == \E i \in DOMAIN m.chunkSessions : m.chunkSessions[i].windows = fitting[1].windows
  IN  IF fitting = <<>> THEN Answer(m, FALSE, <<>>)
      ELSE IF loaded THEN Answer(m, TRUE, <<>>)
      ELSE Answer([m EXCEPT !.chunkSessions =
                     SetToSortSeq(Range(@) \cup {fitting[1]},
                                  LAMBDA s, t : s.windows < t.windows)], TRUE, <<>>)

\* The first loaded session that is large enough.
ChunkSessionForWindows(m, windows) ==
  LET ensured == EnsureChunkSession(m, windows)
  IN  Answer(ensured.m, ensured.ok,
             IF ensured.ok
             THEN <<SelectSeq(ensured.m.chunkSessions, LAMBDA s : s.windows >= windows)[1]>>
             ELSE <<>>)

\* The largest session, and those loaded before; none without a capacity.
PrepareChunkResources(m) ==
  LET capacity == ChunkWindowCapacity(m)
      ensured == EnsureChunkSession(m, CHOOSE w \in capacity : TRUE)
      long == EnsureNative(ensured.m, "fbank-30s", 1)
      short == EnsureNative(long.m, "fbank", 1)
  IN  IF capacity = {} THEN Answer(m, TRUE, <<>>)
      ELSE Answer(short.m, long.ok /\ short.ok, ensured.m.chunkSessions)
=============================================================================
