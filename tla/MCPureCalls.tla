---------------------------- MODULE MCPureCalls ----------------------------
(***************************************************************************)
(* Inputs for the calls of PureCalls, small enough to be enumerated.       *)
(***************************************************************************)
EXTENDS PureCalls

Frame(a, b) == 0 :> a @@ 1 :> b
FromZero(s) == [i \in Upto(Len(s)) |-> s[i + 1]]
Bits == {0, 1}
Config(epsilon2, minOn, minOff, padOn, padOff, gap) ==
  [epsilon2 |-> epsilon2, minOn |-> minOn, minOff |-> minOff, padOnset |-> padOn,
   padOffset |-> padOff, onset |-> 1, offset |-> 1, mergeGap |-> gap]

MCDecode == [speakers : 1..4, maxSet : 0..4]

\* Two overlapping chunks of three frames and two speakers.
MCChunks == [Upto(3) -> {Frame(0, 0), Frame(1, 0), Frame(0, 1), Frame(1, 1)}]
MCLabels == {<<Frame(0, 1), Frame(0, 1)>>, <<Frame(0, 1), Frame(1, 0)>>,
             <<Frame(0, 0), Frame(0, 1)>>, <<Frame(0, 1), Frame(2, -2)>>,
             <<Frame(0, -2), Frame(-2, -2)>>}
MCConfigs == {Config(0, 0, 0, 0, 0, 0), Config(1, 0, 2, 0, 0, 2), Config(2, 2, 0, 1, 0, 2)}
MCSegments ==
  {[segs |-> <<a, b>>, starts |-> starts, outputFrames |-> 6, clusters |-> labels,
    config |-> config] :
     a \in {x \in MCChunks : x[0] = Frame(1, 0) /\ x[1] # x[2]},
     b \in {x \in MCChunks : x[1] # Frame(1, 0)}, starts \in {<<0, 1>>, <<0, 4>>},
     labels \in MCLabels, config \in MCConfigs}
  \cup
  {[segs |-> [c \in 1..3 |-> [f \in Upto(2) |-> frames[c]]], starts |-> <<0, 0, 1>>, outputFrames |-> 4,
    clusters |-> labels, config |-> config] :
     frames \in [1..3 -> {Frame(1, 0), Frame(0, 1), Frame(1, 1)}],
     labels \in [1..3 -> {Frame(0, 0), Frame(0, 1), Frame(1, 2)}], config \in MCConfigs}

MCFilter ==
  {[scores |-> scores,
    config |-> [minOn |-> minOn, minOff |-> minOff, padOnset |-> pad[1], padOffset |-> pad[2],
                onset |-> 2, offset |-> offset]] :
     scores \in [Upto(5) -> 0..2], offset \in {1, 3}, minOn \in 0..2, minOff \in 0..2,
     pad \in {<<0, 0>>, <<1, 2>>}}

\* Three speakers, of which the first always speaks.
MCAssign ==
  {[seg |-> FromZero(<<FromZero(<<1, a, b>>)>>), valid |-> valid, similarity |-> sim,
    clusters |-> Upto(k)] :
     a \in Bits, b \in Bits, valid \in [Upto(3) -> BOOLEAN],
     sim \in [Upto(3) -> {Frame(0, 2), Frame(1, 0), Frame(3, 2), Frame(3, 0)}], k \in 1..2}

Nodes(i) == [left : Upto(i), right : Upto(i), height : 1..3]
\* Every dendrogram over four observations: a node joins two earlier roots.
MCCut ==
  {[observations |-> 4, steps |-> <<x, y, z>>, threshold |-> 2] :
     <<x, y, z>> \in {t \in Nodes(4) \X Nodes(5) \X Nodes(6) :
       /\ \A i \in 1..3 : t[i].left < t[i].right
       /\ \A i, j \in 1..3 : i # j => {t[i].left, t[i].right} \cap {t[j].left, t[j].right} = {}}}

MCMask ==
  {[seg |-> seg, audioLen |-> len, minSamples |-> min, minActivity |-> act] :
     seg \in [Upto(3) -> {Frame(a, b) : a \in Bits, b \in Bits}], len \in {0, 3, 9},
     min \in {1, 4}, act \in 0..2}

MCExtract ==
  {[active |-> active, batchSize |-> size, largest |-> largest] :
     active \in [1..3 -> {FromZero(<<a, b, c>>) : a \in BOOLEAN, b \in BOOLEAN, c \in BOOLEAN}],
     size \in 1..4, largest \in {1, 3}}

\* Chunks of one to three windows of five samples; two speakers, two frames.
Session(windows, step) ==
  [windows |-> windows, frames |-> (windows - 1) * step + 5, masks |-> 2 * windows]
Decoded(a, b) == FromZero(<<a, b>>)
MCChunkEmbedding ==
  {[p |-> [step |-> step, window |-> 5, speakers |-> 2, minSamples |-> 1, minActivity |-> 1,
           chunkScope |-> scope, whole |-> 7,
           sessions |-> [i \in DOMAIN sizes |-> Session(sizes[i], step)]],
    len |-> len, decoded |-> decoded] :
     step \in 1..3, scope \in BOOLEAN, sizes \in {<<1, 2>>, <<1, 3>>, <<3>>}, len \in 5..16,
     decoded \in {<<Decoded(Frame(1, 0), Frame(1, 1))>>,
                  <<Decoded(Frame(1, 1), Frame(0, 1)), Decoded(Frame(0, 0), Frame(1, 0))>>}}

\* The two steps of the program.
MCLayout == [windows : {0, 1, 2, 3, 7, 50, 300}, step : {16000, 32000}]

Spans == {w \in (0..2) \X (1..3) : w[1] < w[2]}
Turns == {[start |-> w[1], end |-> w[2], speaker |-> s] : w \in Spans, s \in {"a", "b"}}
MCDer ==
  {[reference |-> r, hypothesis |-> h] :
     r \in {<<x, y>> : x \in {t \in Turns : t.start = 0 /\ t.speaker = "a"}, y \in Turns},
     h \in {<<>>} \cup {<<x>> : x \in Turns}
          \cup {<<x, y>> : x \in {t \in Turns : t.start > 0 /\ t.speaker = "b"}, y \in Turns}}

Matrix(n, m, values) == [Upto(n) -> [Upto(m) -> values]]
MCMapping ==
  UNION {{[cooccurrence |-> c, nRef |-> s[1], nHyp |-> s[2]] : c \in Matrix(s[1], s[2], 0..s[3])} :
         s \in {<<2, 2, 3>>, <<2, 3, 2>>, <<3, 2, 2>>, <<3, 1, 2>>, <<3, 3, 1>>}}

MCWindows ==
  {[len |-> len, spec |-> [window |-> window, step |-> step],
    plan |-> [warmStart |-> ws, warm |-> warm, small |-> 2, large |-> 3]] :
     len \in 0..13, window \in {3, 4}, step \in 1..5, ws \in BOOLEAN, warm \in {1, 3}}

Chunk(a, x) == [audio |-> a, masks |-> <<<<x, x>>, <<x>>, <<0, x>>>>]
MCCalls ==
  {<<>>, << <<Chunk(<<1, 2>>, 3)>>, <<Chunk(<<4>>, 5)>> >>,
   << <<Chunk(<<1, 2>>, 3), Chunk(<<6>>, 7)>>, <<Chunk(<<4>>, 5)>>, <<Chunk(<<>>, 8)>> >>,
   << <<Chunk(<<1>>, 3)>>, <<Chunk(<<4, 9>>, 5), Chunk(<<4, 9>>, 2)>> >>}

\* Every directory of ONNX models that has the embedding model.
OnnxFiles == {Onnx("embedding", PrimaryBatch), Onnx("fbank", 1), Onnx("fbank", SmallBatch),
              Onnx("tail", 1), Onnx("tail", ChunkSpeakerBatch), Onnx("tail", PrimaryBatch),
              Onnx("multimask", 1), Onnx("multimask", PrimaryBatch)}
OnnxDirectories == {{Onnx("embedding", 1)} \cup S : S \in SUBSET OnnxFiles}
Modes == {"cpu", "cuda", "coreml", "coreml-fast"}
NoExperiment == <<>>
Experiment(layout, ladder) == <<[layout |-> layout, ladder |-> ladder]>>
Experiments == {NoExperiment} \cup
  {Experiment(l, s) : l \in {"p1s", "s25", "per-window"}, s \in {"full", "reduced"}}

MCEmbed ==
  [files : OnnxDirectories, mode : {"cpu"}, experiment : {NoExperiment}, calls : MCCalls]
  \cup [files : {RequiredFiles(m) : m \in Modes \ {"cuda"}}, mode : Modes,
        experiment : Experiments, calls : MCCalls]

\* What from_pretrained downloads, with the largest bundle quantized or not.
Quantized(files, layout, w) == (files \ {Native(layout, w)}) \cup {<<layout, w, "w8a16">>}
MCSessions ==
  {x \in [files : {RequiredFiles("cpu"), RequiredFiles("coreml"), RequiredFiles("coreml-fast"),
                   Quantized(RequiredFiles("coreml"), "p1s", 51)},
          mode : {"cpu", "coreml", "coreml-fast"},
          experiment : {NoExperiment, Experiment("p1s", "reduced"), Experiment("per-window", "full")},
          requests : UNION {[1..n -> {0, 5, 22, 51, 60, 200}] : n \in 1..3}] :
     Loads(x.files, x.mode, x.experiment)}

\* Two candidates, two files and two repetitions; a repetition of the other run
\* may have found one error more.
Rec(k, f, n, error, status, post) ==
  [candidate |-> k, file |-> f, repetition |-> n, status |-> status, post |-> post,
   errors |-> [missed |-> error, falseAlarm |-> 1, confusion |-> 0], reference |-> 100,
   speakers |-> 2, predicted |-> 2, usable |-> <<4>>]
Records(k, errors, post, lost, extra) ==
  FlattenSeq([f \in 1..2 |-> [n \in 1..2 |->
    Rec(k, f - 1, n, errors[f] + (IF n = 2 THEN extra ELSE 0),
        IF <<k, f, n>> \in lost THEN "failed" ELSE "complete", post[n])]])
MCReport ==
  {[records |-> Records(0, base, <<20, 21>>, lost, 0) \o Records(1, errors, post, lost, 0),
    candidates |-> 2, walls |-> post,
    external |-> IF extra = 3 THEN <<>>
                 ELSE <<[records |-> Records(0, base, <<20, 21>>, {}, extra), walls |-> <<20, 21>>]>>,
    documented |-> documented, policy |-> policy] :
     base \in {<<1, 1>>, <<0, 3>>}, errors \in (0..1 \cup {3}) \X (0..3), extra \in {0, 1, 3},
     lost \in {{}, {<<1, 1, 1>>}, {<<1, 1, 1>>, <<1, 1, 2>>}, {<<0, 1, 1>>, <<0, 1, 2>>}},
     post \in {<<20, 21>>, <<10, 10>>, <<10, 40>>}, documented \in {{}, {1}},
     policy \in {"standard-der", "standard-performance", "fast-pareto"}}

Candidate(iters, fb, ahc, backend) ==
  [id |-> "c", iters |-> iters, fb |-> fb, clean |-> 5, ahc |-> ahc, backend |-> backend,
   outliers |-> <<[file |-> "f", cause |-> "overlap"]>>]
Plans ==
  [schema : {1}, id : {"e"}, dataset : {"d"}, maxFiles : {1}, maxMinutes : {1}, files : {<<"f">>},
   candidates : {<<Candidate(iters, fb, ahc, backend)>> :
                   iters \in {Unset, 0, 4}, fb \in {Unset, 9}, ahc \in {Unset, 2},
                   backend \in {"gaussian", "sphere"}},
   repetitions : {1, 3, 4}, timeLimit : {1}, baseline : BOOLEAN, mode : {"coreml", "coreml-fast"},
   layout : {"p1s", "s12", "s25", "per-window"}, ladder : {"full", "reduced"},
   acceptance : {"standard-der", "fast-pareto"}]
FirstCandidate == Candidate(Unset, Unset, Unset, "gaussian")
\* Plans that differ in their candidates and repetitions, and in what they measure.
MCSpecs ==
  {[spec |-> p, files |-> RequiredFiles("coreml")
                          \cup {<<"segmentation", b, "mlmodelc">> : b \in {1, SmallBatch, PrimaryBatch}}] :
     p \in {q \in Plans : q.layout = "p1s" /\ q.ladder = "full" /\ q.mode = "coreml"}}
  \cup
  {[spec |-> p, files |-> files] :
     p \in {q \in Plans : q.candidates = <<FirstCandidate>> /\ q.repetitions = 4 /\ q.baseline},
     files \in {RequiredFiles(m) \cup S \cup {<<"s25", w, "w8a16">> : w \in T} \cup
                {<<"segmentation", b, x>> : b \in {1, SmallBatch, PrimaryBatch}, x \in {"mlmodelc", "w8a16"}} :
                m \in {"coreml", "coreml-fast"}, S \in {{}, RequiredFiles("coreml")},
                T \in {{}, Range(ChunkWindows("s25", "full"))}}}

\* The directory from_pretrained leaves for each mode.
MCPretrained ==
  {[files |-> RequiredFiles(m), mode |-> m, experiment |-> NoExperiment, calls |-> <<>>] : m \in Modes}
=============================================================================
