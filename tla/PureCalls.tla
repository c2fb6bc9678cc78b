----------------------------- MODULE PureCalls -----------------------------
(***************************************************************************)
(* One call of one of the program's sequential algorithms.  A behaviour    *)
(* picks a call, with one of the inputs the constants give, and makes it:  *)
(* the answer of the code is then compared with a definition of what it    *)
(* should be that follows none of its steps.                               *)
(***************************************************************************)
EXTENDS ChunkPreparation, Metrics, ExperimentReport, ExperimentSpec

CONSTANTS
  DecodeInputs,      \* [speakers, maxSet]
  SegmentInputs,     \* [segs, starts, outputFrames, clusters, config]
  FilterInputs,      \* [scores, config]
  AssignInputs,      \* [seg, valid, similarity, clusters]
  CutInputs,         \* [observations, steps, threshold]
  MaskInputs,        \* [seg, audioLen, minSamples, minActivity]
  ExtractInputs,     \* [active, batchSize, largest]
  ChunkInputs,       \* [p, len, decoded]
  LayoutInputs,      \* [windows, step]
  DerInputs,         \* [reference, hypothesis]
  MappingInputs,     \* [cooccurrence, nRef, nHyp]
  WindowInputs,      \* [len, spec, plan]
  EmbeddingInputs,   \* [files, mode, experiment, calls]
  SessionInputs,     \* [files, mode, experiment, requests]
  ReportInputs,      \* [records, candidates, walls, external, documented, policy]
  SpecInputs         \* [spec, files]

\* Chunks are of one shape, and a speaker of a chunk has a cluster or none.
SegmentsShaped(x) ==
  /\ x.outputFrames \in Nat /\ x.starts \in Seq(Nat)
  /\ x.config.epsilon2 \in 0..2 /\ x.config.mergeGap \in Int
  /\ x.config.onset \in Int /\ x.config.offset \in Int
  /\ x.config.minOn \in Nat /\ x.config.minOff \in Nat
  /\ x.config.padOnset \in Nat /\ x.config.padOffset \in Nat
  /\ x.segs # <<>> =>
       /\ ChunkFrames(x.segs) \in Nat /\ IsFiniteSet(Speakers(x.segs))
       /\ x.segs \in Seq([Upto(ChunkFrames(x.segs)) -> [Speakers(x.segs) -> {0, 1}]])
       /\ x.clusters \in [DOMAIN x.segs -> [Speakers(x.segs) -> Int]]

ASSUME DecodeAssumption ==
  \A x \in DecodeInputs : x.speakers \in Nat /\ x.maxSet \in Nat

ASSUME SegmentAssumption == \A x \in SegmentInputs : SegmentsShaped(x)

ASSUME FilterAssumption ==
  \A x \in FilterInputs :
    /\ FramesOf(x.scores) \in Nat /\ x.scores \in [Upto(FramesOf(x.scores)) -> Int]
    /\ x.config \in [onset : Int, offset : Int, minOn : Nat, minOff : Nat,
                     padOnset : Nat, padOffset : Nat]

\* The step is at least that of a frame.
ASSUME LayoutAssumption ==
  \A x \in LayoutInputs : x.windows \in Nat /\ x.step \in Nat /\ x.step >= 270

ASSUME WindowsAssumption ==
  \A x \in WindowInputs :
    /\ x.len \in Nat /\ x.spec.window \in Nat \ {0} /\ x.spec.step \in Nat \ {0}
    /\ x.plan.warmStart \in BOOLEAN /\ x.plan.warm \in Nat
    /\ x.plan.small \in Nat \ {0} /\ x.plan.large \in Nat \ {0}

\* The masks have as many speakers in every chunk.
ASSUME ExtractAssumption ==
  \A x \in ExtractInputs :
    /\ {x.batchSize, x.largest} \subseteq Nat \ {0}
    /\ x.active # <<>> => /\ NumSpeakers(x.active) \in Nat
                          /\ x.active \in Seq([Upto(NumSpeakers(x.active)) -> BOOLEAN])

\* A session takes the features and the masks of the windows it is for.
ChunksShaped(x) ==
  LET p == x.p
      frames == FramesOf(x.decoded[1])
  IN  /\ p.step \in Nat \ {0} /\ p.window \in Nat /\ p.window > 2 /\ p.speakers \in Nat \ {0}
      /\ p.whole \in Nat /\ p.minSamples \in Nat /\ p.minActivity \in Nat
      /\ p.sessions # <<>>
      /\ p.sessions \in Seq([windows : Nat \ {0}, frames : Nat, masks : Nat])
      /\ \A i \in DOMAIN p.sessions :
           /\ (p.sessions[i].windows - 1) * p.step + p.window - 2 <= p.sessions[i].frames
           /\ p.sessions[i].windows * p.speakers <= p.sessions[i].masks
      /\ x.len \in Nat /\ x.decoded # <<>> /\ frames \in Nat \ {0}
      /\ x.decoded \in Seq([Upto(frames) -> [Upto(p.speakers) -> Nat]])

ASSUME ChunkAssumption == \A x \in ChunkInputs : ChunksShaped(x)

\* CoreMlMode and the clustering backends are enumerations.
ASSUME SpecAssumption ==
  \A x \in SpecInputs :
    /\ x.spec.mode \in {"coreml", "coreml-fast"}
    /\ \A i \in DOMAIN x.spec.candidates : x.spec.candidates[i].backend \in {"gaussian", "sphere"}

VARIABLES
  call,    \* [kind, input]
  result   \* <<>> until the call has returned

callVars == <<call, result>>

Choose(kind, inputs) == \E x \in inputs : call = [kind |-> kind, input |-> x]

CallInit ==
  /\ result = <<>>
  /\ \/ Choose("decode", DecodeInputs)
     \/ Choose("segments", SegmentInputs)
     \/ Choose("filter", FilterInputs)
     \/ Choose("assign", AssignInputs)
     \/ Choose("cut", CutInputs)
     \/ Choose("mask", MaskInputs)
     \/ Choose("extract", ExtractInputs)
     \/ Choose("chunks", ChunkInputs)
     \/ Choose("layout", LayoutInputs)
     \/ Choose("der", DerInputs)
     \/ Choose("mapping", MappingInputs)
     \/ Choose("windows", WindowInputs)
     \/ Choose("embed", EmbeddingInputs)
     \/ Choose("sessions", SessionInputs)
     \/ Choose("report", ReportInputs)
     \/ Choose("plan", SpecInputs)

in == call.input
out == result[1]
Returned(kind) == call.kind = kind /\ result # <<>>

Return(kind, value) ==
  /\ call.kind = kind /\ result = <<>>
  /\ result' = <<value>>
  /\ UNCHANGED call
-----------------------------------------------------------------------------
Decode ==
  Return("decode", PowersetMapping(in.speakers, in.maxSet))

Segments ==
  Return("segments", PostInference(in.segs, in.starts, in.outputFrames, in.clusters, in.config))

Filter ==
  Return("filter", Binarize(in.scores, in.config))

Assign ==
  Return("assign", AssignChunk(in.seg, in.valid, in.similarity, in.clusters))

Cut ==
  Return("cut", FlatClusters(in.observations, in.steps, in.threshold))

Mask ==
  Return("mask",
    [s \in DOMAIN in.seg[0] |->
       [selected |-> SelectSpeakerWeights(in.seg, s, in.audioLen, in.minSamples, in.minActivity),
        written |-> WriteSpeakerMask(in.seg, s, in.audioLen, in.minSamples, in.minActivity,
                                     [f \in DOMAIN in.seg |-> 7])]])

Extract ==
  Return("extract",
    [split |-> ExtractSplit(in.active, in.batchSize),
     masked |-> ExtractMasked(in.active, in.batchSize, in.largest),
     multiMask |-> ExtractMultiMask(in.active, in.batchSize)])

\* Every window of a file of in.len samples, decoded.
EmbedInChunks ==
  Return("chunks",
    TryChunkEmbedding(in.p,
      [n \in 1..SegmentationWindowCount(in.len, in.p) |-> in.decoded[1 + (n % Len(in.decoded))]],
      [i \in 1..in.len |-> i]))

Layout ==
  Return("layout", [starts |-> StartFrames(in.windows, in.step),
                    frames |-> OutputFrames(in.windows, in.step)])

Der ==
  Return("der", ComputeDer(in.reference, in.hypothesis))

Mapping ==
  Return("mapping", OptimalMapping(in.cooccurrence, in.nRef, in.nHyp))

Windows ==
  Return("windows",
    LET windows == Collect(in.len, in.spec)
    IN  [windows |-> windows, tasks |-> BuildTasks(TotalWindows(windows), in.plan)])

\* The calls of a sequence are made on one model, one after the other.  A call
\* embeds chunks [audio, masks] on the path the pipeline takes.
EmbedChunks(m, chunks) ==
  LET masks == FlattenSeq([i \in DOMAIN chunks |-> chunks[i].masks])
      pairs == FlattenSeq([i \in DOMAIN chunks |->
                 [k \in DOMAIN chunks[i].masks |->
                    [audio |-> chunks[i].audio, chunk |-> i, mask |-> chunks[i].masks[k]]]])
      audios == [i \in DOMAIN chunks |-> chunks[i].audio]
      fbanks == IF PathOf(m) = "split" THEN ComputeChunkFbanksBatch(m, audios)
                ELSE InTurn(m, audios, ComputeChunkFbank)
      inputs == [i \in DOMAIN pairs |->
                   [features |-> fbanks.out[pairs[i].chunk], mask |-> pairs[i].mask]]
  IN  IF PathOf(m) = "masked" /\ PrefersChunkEmbeddingPath(m)
      THEN InTurn(m, chunks, LAMBDA n, c : EmbedChunkSpeakers(n, c.audio, c.masks))
      ELSE IF PathOf(m) = "masked" THEN EmbedBatch(m, pairs)
      ELSE IF ~fbanks.ok THEN fbanks
      ELSE IF PathOf(m) = "split" THEN EmbedTailBatchInputs(fbanks.m, inputs)
      ELSE EmbedMultiMaskBatch(fbanks.m, fbanks.out, masks)

Embed ==
  Return("embed",
    IF ~Loads(in.files, in.mode, in.experiment) THEN [loaded |-> FALSE, answers |-> <<>>]
    ELSE [loaded |-> TRUE,
          answers |-> FoldLeft(LAMBDA acc, chunks :
                        LET m == IF acc = <<>> THEN LoadedModel(in.files, in.mode, in.experiment)
                                 ELSE Last(acc).m
                        IN  Append(acc, EmbedChunks(m, chunks)), <<>>, in.calls)])

\* requests: numbers of windows, or 0 for prepare_chunk_resources.
Sessions ==
  Return("sessions",
    FoldLeft(LAMBDA acc, w :
               LET m == IF acc = <<>> THEN LoadedModel(in.files, in.mode, in.experiment)
                        ELSE Last(acc).m
               IN  Append(acc, IF w = 0 THEN PrepareChunkResources(m)
                               ELSE ChunkSessionForWindows(m, w)),
             <<>>, in.requests))

Report ==
  Return("report",
    Projection(in.records, in.candidates, in.walls, in.external, in.documented, in.policy))

\* A specification that is refused, or the candidates' configurations.
Plan ==
  Return("plan",
    IF ~Validate(in.spec) \/ ~EnsureRunnable(in.spec, in.files) THEN [runs |-> FALSE]
    ELSE [runs |-> TRUE, profiled |-> ProfiledModels(in.spec, in.files),
          configs |-> [i \in DOMAIN in.spec.candidates |->
                         ApplyCandidate(ConfigFor(in.spec.mode), in.spec.candidates[i])]])

CallNext ==
  \/ Decode \/ Segments \/ Filter \/ Assign \/ Cut \/ Mask \/ Extract \/ EmbedInChunks \/ Layout \/ Der \/ Mapping
  \/ Windows \/ Embed \/ Sessions \/ Report \/ Plan

CallSpec == CallInit /\ [][CallNext]_callVars
-----------------------------------------------------------------------------
(* A class of the segmentation model stands for a set of speakers: the     *)
(* classes are all the sets up to the largest size, the smaller sets       *)
(* first, in lexicographic order (powerset.rs).                            *)
ClassesAreSets ==
  Returned("decode") => AllSetsInOrder(out, in.speakers, in.maxSet)

(* A frame of the reconstruction has exactly as many speakers as were      *)
(* counted, and no cluster is preferred to one that more chunks heard nor, *)
(* when smoothing, a new one to one of the frame before that as many did.  *)
(* As long as the active speakers of a chunk have clusters, different      *)
(* ones, each of them was heard at that frame by a chunk that covers it;   *)
(* and no frame in which every covering chunk hears someone is silent.     *)
(* Padding columns, the rounding of the count and smoothing could each     *)
(* break this.  (A chunk with more active speakers than there are clusters *)
(* leaves one without: it is counted, and its frames go to a cluster that  *)
(* was not heard.)                                                         *)
OnlyTheHeard(segs, starts, clusters, epsilon2, y) ==
  LET heard(c, f) == {s \in Speakers(segs) : segs[c][f - starts[c]][s] = 1}
      chunks(f) == Covering(segs, starts, 0, f)
      votes(k, f) == Cardinality({c \in chunks(f) : \E s \in heard(c, f) : clusters[c][s] = k})
      known == {k \in UNION {Range(clusters[c]) : c \in DOMAIN segs} : k >= 0}
      placed == \A c \in DOMAIN segs : \A s, t \in Speakers(segs) :
                  Activity(segs[c], s) > 0 =>
                    clusters[c][s] >= 0 /\ (s # t => clusters[c][s] # clusters[c][t])
  IN  \A f \in DOMAIN y.count :
        /\ Cardinality(y.chosen[f]) = y.count[f]
        /\ placed => \A k \in y.chosen[f] :
             \E c \in chunks(f) : \E s \in heard(c, f) : clusters[c][s] = k
        /\ \A k \in y.chosen[f], l \in known \ y.chosen[f] : votes(k, f) >= votes(l, f)
        /\ f > 0 /\ epsilon2 > 0 =>
             \A k \in y.chosen[f] \ y.chosen[f - 1], l \in y.chosen[f - 1] \ y.chosen[f] :
               votes(k, f) > votes(l, f)
        /\ chunks(f) # {} /\ (\A c \in chunks(f) : heard(c, f) # {}) => y.count[f] > 0

SpeakersWereHeard ==
  Returned("segments") =>
    OnlyTheHeard(in.segs, in.starts, in.clusters, in.config.epsilon2, out)

(* The duration filter leaves no region shorter than min_duration_on, also *)
(* at the ends of the signal, and no inner gap shorter than                *)
(* min_duration_off; it does not touch what it has filtered already; it    *)
(* never reports a frame further than a filled gap and the padding from a  *)
(* score that reached a threshold; and padding adds exactly the frames     *)
(* around a region (binarize.rs).                                          *)
FilterSound ==
  Returned("filter") => FilterFaithful(in.scores, in.config, out)

(* The turns are those of the filtered activity: in order of time, those   *)
(* of one speaker disjoint, every active frame inside a turn, and no turn  *)
(* over an inactive frame unless it lies in a gap short enough to merge    *)
(* (segment.rs, post_inference.rs).                                        *)
TurnsFaithful ==
  Returned("segments") =>
    TurnsAre(out.segments, out.active, in.outputFrames - 1, in.config.mergeGap)

Injections(S, T) == {h \in [S -> T] : \A a, b \in S : a # b => h[a] # h[b]}

(* The assignment of the active speakers of a chunk to clusters gives no   *)
(* cluster to two speakers, leaves a speaker out only when there are fewer *)
(* clusters than speakers, and no other such assignment has a larger sum   *)
(* of similarities; an invalid embedding takes a cluster only if no valid  *)
(* one is left for it (best_assignment).  The flat cut of a dendrogram     *)
(* puts two observations together exactly if a node at or below the        *)
(* threshold holds both, whatever the heights of the nodes under it        *)
(* (flat_clusters).  The mask written in place is the one selected from    *)
(* copies (write_speaker_mask_to_slice).                                   *)
ClustersOptimal ==
  /\ Returned("assign") =>
       LET active == {s \in DOMAIN out : Activity(in.seg, s) > 0}
           given == {s \in DOMAIN out : out[s] # Inactive}
           size == Min({Cardinality(active), Cardinality(in.clusters)})
           scored(h) == {s \in DOMAIN h : in.valid[s]}
           sum(h) == SumOver(scored(h), LAMBDA s : in.similarity[s][h[s]])
           chosen == [s \in given |-> out[s]]
           any == \E s \in active : in.valid[s]
       IN  /\ given \subseteq active
           /\ any => Cardinality(given) = size
           /\ ~any => given = {}
           /\ \A s, t \in given : s # t => out[s] # out[t]
           /\ any => \A S \in SUBSET active : Cardinality(S) = size =>
                \A h \in Injections(S, in.clusters) :
                  Cardinality(scored(h)) >= Cardinality(scored(chosen)) => sum(h) <= sum(chosen)
           /\ Cardinality(scored(chosen)) =
                Min({size, Cardinality({s \in active : in.valid[s]})})
  /\ Returned("cut") =>
       LET node(i) == in.steps[i - in.observations + 1]
           total == in.observations + Len(in.steps)
           under[i \in Upto(total)] ==
             IF i < in.observations THEN {i} ELSE under[node(i).left] \cup under[node(i).right]
           low == {i \in in.observations..total - 1 : node(i).height <= in.threshold}
       IN  /\ \A a, b \in Upto(in.observations) : a # b =>
                (out[a] = out[b] <=> \E i \in low : {a, b} \subseteq under[i])
           /\ Range(out) = Upto(Cardinality(Range(out)))
  /\ Returned("mask") =>
       \A s \in DOMAIN out :
         /\ out[s].written.active <=> DOMAIN out[s].selected # {}
         /\ out[s].written.active => out[s].written.dest = out[s].selected

SpeakersAligned(active, embeddings) ==
  \A c \in DOMAIN active : \A s \in DOMAIN active[c] :
    embeddings[<<c, s>>] = IF active[c][s] THEN <<c, s>> ELSE Missing
ChunksAligned(x, made) ==
  LET p == x.p
      total == SegmentationWindowCount(x.len, p)
      decoded(n) == x.decoded[1 + ((n + 1) % Len(x.decoded))]
      wanted(n, s) == SelectSpeakerWeights(decoded(n), s, Min({p.window, x.len - n * p.step}),
                                           p.minSamples, p.minActivity)
  IN  /\ made.segs = [n \in Upto(total) |-> decoded(n)]
      /\ \A n \in Upto(total), s \in Upto(p.speakers) :
           IF wanted(n, s) = <<>> THEN <<n, s>> \notin DOMAIN made.embs
           ELSE /\ made.embs[<<n, s>>][2] = wanted(n, s)
                /\ \A r \in Upto(p.window - 2) :
                     LET at == n * p.step + r
                     IN  at + 3 <= x.len =>
                           made.embs[<<n, s>>][1][(n % Last(p.sessions).windows) * p.step + r]
                             = <<at + 1, at + 2, at + 3>>

(* Whatever the batch size, every active speaker of every chunk gets the   *)
(* embedding computed from the features of that chunk and from its own     *)
(* mask, and no other place is written (the extract_* loops).  So it is    *)
(* when windows are embedded in chunks, by one session or another: every   *)
(* window keeps its slot, and the features a mask is laid over are those   *)
(* of the audio of its window, also where they are stitched from segments  *)
(* (prep.rs, run_sequential_chunks).                                       *)
ExtractionAligned ==
  /\ Returned("extract") => \A way \in DOMAIN out : SpeakersAligned(in.active, out[way])
  /\ Returned("chunks") => ChunksAligned(in, out)

SpeakersAt(segs, t) == {segs[i].speaker : i \in {k \in DOMAIN segs : segs[k].start <= t /\ t < segs[k].end}}
MostShared(nRef, nHyp, shared(_, _)) ==
  LET refs == Upto(nRef)
      pairs == {S \in SUBSET refs : Cardinality(S) = Min({nRef, nHyp})}
      sums == UNION {{SumOver(S, LAMBDA i : shared(i, h[i])) : h \in Injections(S, Upto(nHyp))} :
                     S \in pairs}
  IN  Max(sums \cup {0})

(* The error counted interval by interval is the one counted second by     *)
(* second, with the mapping of speakers that shares the most time: the     *)
(* Hungarian algorithm finds an optimal mapping, also for more speakers on *)
(* one side than on the other (metrics.rs).                                *)
DerOptimal ==
  /\ Returned("mapping") =>
       /\ \A i, j \in DOMAIN out : i # j => out[i] # out[j]
       /\ SumOver(DOMAIN out, LAMBDA i : in.cooccurrence[i][out[i]])
            = MostShared(in.nRef, in.nHyp, LAMBDA i, j : in.cooccurrence[i][j])
  /\ Returned("der") /\ in.reference # <<>> =>
       LET seconds == UNION {g.start..g.end - 1 : g \in Range(in.reference) \cup Range(in.hypothesis)}
           R(t) == Cardinality(SpeakersAt(in.reference, t))
           H(t) == Cardinality(SpeakersAt(in.hypothesis, t))
           refs == UniqueSpeakers(in.reference)
           hyps == UniqueSpeakers(in.hypothesis)
           shared(i, j) == Cardinality({t \in seconds : /\ refs[i + 1] \in SpeakersAt(in.reference, t)
                                                        /\ hyps[j + 1] \in SpeakersAt(in.hypothesis, t)})
       IN  /\ out.total = SumOver(seconds, R)
           /\ out.missed = SumOver(seconds, LAMBDA t : Max({R(t) - H(t), 0}))
           /\ out.falseAlarm = SumOver(seconds, LAMBDA t : Max({H(t) - R(t), 0}))
           /\ out.confusion = SumOver(seconds, LAMBDA t : Min({R(t), H(t)}))
                              - MostShared(Len(refs), Len(hyps), shared)

(* "Count sliding windows the same way collect emits them": the count      *)
(* other parts size their arrays by is the number of windows that arrive.  *)
(* No sample is skipped unless the step is longer than the window.  The    *)
(* tasks cut the windows into consecutive ranges, none longer than the     *)
(* input of the model that predicts it, and are those of the closed forms  *)
(* the theorems are about.  The frames of the file hold every frame of     *)
(* every window, 589 from its first one on, and begin with it.             *)
WindowsPlanned ==
  /\ Returned("layout") =>
       /\ \A c \in DOMAIN out.starts :
            /\ out.starts[c] + 589 <= out.frames
            /\ c > 1 => out.starts[c] > out.starts[c - 1]
       /\ out.starts # <<>> => out.starts[1] = 0
  /\ Returned("windows") =>
    /\ CoversAudio(out.windows, in.len, in.spec)
    /\ FollowsPlan(out.tasks, TotalWindows(out.windows), in.plan)

Padded(values) == [i \in 1..RowLength |-> IF i \in DOMAIN values THEN values[i] ELSE 0]

(* The buffers of the model are reused by every call: an embedding depends *)
(* on the audio and the mask it is asked for, padded with silence, and on  *)
(* nothing an earlier call left behind.  A model that was loaded from a    *)
(* directory that has the features network if it has the multi-mask one    *)
(* finds every session its embedding path needs.  Chunks are embedded by   *)
(* the smallest session they fit in, in whatever order the sessions were   *)
(* loaded.                                                                 *)
EmbeddingsOwnInput ==
  /\ Returned("embed") /\ out.loaded =>
       \A n \in DOMAIN out.answers :
         LET answer == out.answers[n]
             wanted == FlattenSeq([i \in DOMAIN in.calls[n] |->
                         [k \in DOMAIN in.calls[n][i].masks |->
                            <<Padded(in.calls[n][i].audio), Padded(in.calls[n][i].masks[k])>>]])
         IN  /\ (Onnx("multimask", 1) \in in.files => Onnx("fbank", 1) \in in.files) => answer.ok
             /\ answer.ok => answer.out = wanted
  /\ Returned("sessions") =>
       LET capacities == Range(ChunkSessionConfig(in.mode, in.experiment))
       IN  \A n \in DOMAIN out : in.requests[n] > 0 =>
             LET fitting == {w \in capacities : w >= in.requests[n]}
             IN  /\ out[n].ok <=> fitting # {}
                 /\ out[n].ok => out[n].out[1].windows = Min(fitting)

(* A candidate is accepted only if it completed the files its baseline     *)
(* completed, and then not the other way round as well: the baseline,      *)
(* compared with the candidate on the same records, would be stopped       *)
(* (fast_pareto, which trades one for the other, excepted).  A candidate   *)
(* that measured what the baseline measured is never accepted; one that is *)
(* accepted without being faster makes fewer errors; and none is accepted  *)
(* that makes many more errors than the repetitions of the baseline differ *)
(* by (build_comparison, acceptance_passes).                               *)
AcceptanceSound ==
  Returned("report") /\ out.ok =>
    \A k \in Upto(in.candidates) :
      LET verdict == out.value[k].comparison
          outside == in.external # <<>>
          base == IF outside THEN CandidateMetrics(in.external[1].records, 0, in.external[1].walls)
                  ELSE CandidateMetrics(in.records, 0, in.walls)
          mine == CandidateMetrics(in.records, k, in.walls)
          margin == IF outside THEN BaselineNoiseMargin(in.external[1].records) ELSE Whole(0)
          reverse == BuildComparison(mine.value, base.value, margin, in.documented, in.policy,
                                     IF outside THEN "wall" ELSE "post")
          files(m) == {m.observations[i].file : i \in DOMAIN m.observations}
          errors(m) == SumOver(DOMAIN m.observations, LAMBDA i : m.observations[i].error)
          time(m) == SumOver(DOMAIN m.observations, LAMBDA i : m.observations[i].reference)
      IN  verdict # <<>> /\ verdict[1].accepted =>
            /\ files(base.value) = files(mine.value)
            /\ base.value # mine.value
            /\ in.policy # "fast-pareto" => ~reverse.value[1].accepted
            /\ ~verdict[1].material => errors(mine.value) < errors(base.value)
            /\ ~Below(margin, <<errors(mine.value) - errors(base.value), time(base.value)>>)

(* A specification that is accepted for a run finds its models, if those   *)
(* of its ONNX sessions are there: the sessions it measures are those of   *)
(* its layout and ladder, and they are among the models a profile looks    *)
(* for, unless a full-precision bundle lies beside the quantized one.  No  *)
(* setting of a candidate is ignored (validate, ensure_runnable,           *)
(* apply_candidate_config).                                                *)
RunnableMeansMeasured ==
  Returned("plan") /\ out.runs =>
    LET spec == in.spec
        experiment == ExperimentOf(spec)
        specs == ChunkSessionSpecs(in.files, spec.mode, experiment)
        full == {Native(spec.layout, w) : w \in Range(RequiredWindows(spec.layout, spec.ladder))}
    IN  /\ DemandedSessions(in.files) \subseteq in.files => Loads(in.files, spec.mode, experiment)
        /\ [i \in DOMAIN specs |-> specs[i].windows] = RequiredWindows(spec.layout, spec.ladder)
        /\ {specs[i].asset : i \in DOMAIN specs} \subseteq out.profiled \cup full
        /\ \A i \in DOMAIN out.configs :
             LET c == spec.candidates[i]
             IN  /\ out.configs[i].backend = c.backend
                 /\ c.iters # Unset => out.configs[i].iters = c.iters
                 /\ c.fb # Unset => out.configs[i].fb = c.fb
                 /\ c.clean # Unset => out.configs[i].clean = c.clean
                 /\ c.ahc = Unset

(* What from_pretrained downloads for a mode is enough to load the model   *)
(* in that mode.                                                           *)
PretrainedLoads ==
  Returned("embed") /\ in.files = RequiredFiles(in.mode) => out.loaded
=============================================================================
