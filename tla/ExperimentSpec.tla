--------------------------- MODULE ExperimentSpec ---------------------------
(***************************************************************************)
(* The specification file of a macOS experiment: what is validated when it *)
(* is read (domain.rs), what must be there before it runs, and how it      *)
(* becomes a configuration of the pipeline (execute.rs).                   *)
(*                                                                         *)
(* A spec is a record [schema, id, dataset, maxFiles, maxMinutes, files,   *)
(* candidates, repetitions, timeLimit, baseline, mode, layout, ladder,     *)
(* acceptance].  A candidate is [id, iters, fb, clean, ahc, backend,       *)
(* outliers]; what it does not set is Unset.  Its ahc is the minimum       *)
(* cluster size of an archived EstablishedClusters: an archived            *)
(* DistanceThreshold is what the pipeline does anyhow, and counts as Unset.*)
(***************************************************************************)
EXTENDS EmbeddingModel

CONSTANTS
  ValidIds,    \* what ExperimentId::parse accepts
  SafeFiles,   \* file ids without path components
  Datasets     \* the datasets the program knows

Unset == -1
Archived == {"s12", "s13", "per-window-104"}

RequiredWindows(layout, ladder) ==
  CASE layout = "s12" /\ ladder = "full" -> <<22, 37, 53, 84, 116>>
    [] layout = "s13" /\ ladder = "full" -> <<20, 34, 49, 77, 106>>
    [] OTHER -> ChunkWindows(layout, ladder)

Unique(ids) == \A i, j \in DOMAIN ids : i # j => ids[i] # ids[j]

CandidateValid(c) ==
  /\ c.id \in ValidIds
  /\ c.iters # Unset => c.iters > 0
  /\ c.fb # Unset => c.fb > 0
  /\ c.clean # Unset => c.clean > 0
  /\ c.ahc # Unset => c.ahc > 0
  /\ c.backend = "sphere" => c.fb = Unset /\ c.iters = Unset
  /\ Unique([i \in DOMAIN c.outliers |-> c.outliers[i].file])
  /\ \A i \in DOMAIN c.outliers : c.outliers[i].file \in SafeFiles /\ c.outliers[i].cause # ""

ValidateInference(spec) ==
  /\ spec.layout \in IF spec.mode = "coreml" THEN {"p1s", "per-window"} \cup Archived ELSE {"s25"}
  /\ spec.ladder = "full" \/ spec.layout = "p1s"
  /\ spec.acceptance = "fast-pareto" <=> spec.mode = "coreml-fast"

ValidateDomain(spec) ==
  /\ spec.schema = 1
  /\ {spec.id, spec.dataset} \subseteq ValidIds
  /\ spec.maxFiles > 0 /\ spec.maxMinutes > 0
  /\ Unique(spec.files) /\ Range(spec.files) \subseteq SafeFiles
  /\ spec.candidates # <<>>
  /\ Unique([i \in DOMAIN spec.candidates |-> spec.candidates[i].id])
  /\ \A i \in DOMAIN spec.candidates : CandidateValid(spec.candidates[i])
  /\ spec.repetitions > 0 /\ spec.timeLimit > 0
  /\ spec.baseline => spec.repetitions >= 4 /\ spec.repetitions % 2 = 0
  /\ ValidateInference(spec)

Validate(spec) == ValidateDomain(spec) /\ spec.dataset \in Datasets
-----------------------------------------------------------------------------
Suffix(spec) == IF spec.mode = "coreml-fast" THEN "w8a16" ELSE "mlmodelc"
SegmentationBundles(spec) == {<<"segmentation", b, Suffix(spec)>> : b \in {1, SmallBatch, PrimaryBatch}}
ChunkBundles(spec) ==
  {<<spec.layout, w, Suffix(spec)>> : w \in Range(RequiredWindows(spec.layout, spec.ladder))}

\* Mutant: the bundles of the chunk sessions are not looked for.
LayoutAssetsChunkless(spec) ==
  SegmentationBundles(spec)
  \cup {Native("fbank", 1), Native("fbank", SmallBatch), Native("tail", 1),
        Native("tail", ChunkSpeakerBatch), Native("multimask", SmallBatch)}
  \cup IF spec.layout = "per-window" THEN {} ELSE {Native("fbank-30s", 1)}

LayoutAssets(spec) ==
  SegmentationBundles(spec)
  \cup {Native("fbank", 1), Native("fbank", SmallBatch), Native("tail", 1),
        Native("tail", ChunkSpeakerBatch), Native("multimask", SmallBatch)}
  \cup IF spec.layout = "per-window" THEN {} ELSE {Native("fbank-30s", 1)} \cup ChunkBundles(spec)

\* files: the contents of models_dir.  The directories exist.
EnsureRunnable(spec, files) ==
  /\ spec.layout \notin Archived
  /\ \A i \in DOMAIN spec.candidates : spec.candidates[i].ahc = Unset
  /\ LayoutAssets(spec) \subseteq files

\* The bundles a profile is told to look for, as far as they are there.
ProfiledModels(spec, files) ==
  files \cap (SegmentationBundles(spec) \cup {Native("fbank", 1), Native("fbank-30s", 1)}
              \cup IF spec.layout \in {"per-window", "per-window-104"}
                   THEN {Native("fbank", SmallBatch), Native("multimask", SmallBatch)}
                   ELSE ChunkBundles(spec))
-----------------------------------------------------------------------------
(* execute.rs                                                              *)

\* The experiment of EmbeddingModel, for a layout that can run.
ExperimentOf(spec) == <<[layout |-> spec.layout, ladder |-> spec.ladder]>>

\* PipelineConfig::for_mode, as far as candidates change it.
ConfigFor(mode) ==
  [backend |-> "gaussian", iters |-> IF mode = "coreml-fast" THEN 3 ELSE 20, fb |-> 8, clean |-> 20]

\* config is [backend, iters, fb, clean]; a backend of its own ignores iters and fb.
ApplyCandidate(config, c) ==
  [config EXCEPT
     !.backend = IF c.backend = "gaussian" THEN @ ELSE c.backend,
     !.iters = IF c.backend = "gaussian" /\ c.iters # Unset THEN c.iters ELSE @,
     !.fb = IF c.backend = "gaussian" /\ c.fb # Unset THEN c.fb ELSE @,
     !.clean = IF c.clean # Unset THEN c.clean ELSE @]
=============================================================================
