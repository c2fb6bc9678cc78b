----------------------------- MODULE Clustering -----------------------------
(***************************************************************************)
(* Speakers of chunks and speakers of the file: the masks an embedding is  *)
(* computed with and the assignment of chunk speakers to clusters          *)
(* (pipeline/clustering.rs), the flat cut of the dendrogram                *)
(* (clustering/ahc.rs) and the loops that extract the embeddings one after *)
(* the other (pipeline/types/extract.rs).                                  *)
(*                                                                         *)
(* Embeddings and their similarities, the dendrogram and the weights of    *)
(* the VBx speakers are inputs: the linear algebra that computes them is   *)
(* not modelled.                                                           *)
(***************************************************************************)
EXTENDS Reconstruction, SegmentationPlan

Inactive == -2

\* What is written replaces what was there.
Over(new, old) == [x \in DOMAIN old \cup DOMAIN new |-> IF x \in DOMAIN new THEN new[x] ELSE old[x]]
-----------------------------------------------------------------------------
(* clustering/ahc.rs.  Steps are [left, right, height] of the nodes that   *)
(* follow the observations.                                                *)

\* From the root down: a node at or below the threshold is one cluster.
FlatClusters(observations, steps, threshold) ==
  LET node(i) == steps[i - observations + 1]
      total == observations + Len(steps)
      leaves[i \in Upto(total)] ==
        IF i < observations THEN {i} ELSE leaves[node(i).left] \cup leaves[node(i).right]
      assign[i \in Upto(total), next \in 0..observations] ==
        IF i < observations \/ node(i).height <= threshold
        THEN [labels |-> [leaf \in leaves[i] |-> next], next |-> next + 1]
        ELSE LET left == assign[node(i).left, next]
                 right == assign[node(i).right, left.next]
             IN  [labels |-> Over(left.labels, right.labels), next |-> right.next]
  IN  assign[total - 1, 0].labels
-----------------------------------------------------------------------------
(* pipeline/clustering.rs.  seg is one chunk: frame -> speaker -> 0 or 1.  *)

RowSum(row) == SumOver(DOMAIN row, LAMBDA s : row[s])
Activity(seg, s) == SumOver(DOMAIN seg, LAMBDA f : seg[f][s])
CleanMasks(seg) ==
  [f \in DOMAIN seg |-> [s \in DOMAIN seg[f] |-> IF RowSum(seg[f]) < 2 THEN seg[f][s] ELSE 0]]

\* inference/embedding.rs
ShouldUseCleanMask(cleanWeight, maskLen, numSamples, minSamples) ==
  numSamples > 0 /\ cleanWeight > CeilDiv(maskLen * minSamples, numSamples)

\* The frames of a mask, or <<>> for a speaker that is hardly active.
SelectSpeakerWeights(seg, s, audioLen, minSamples, minActivity) ==
  LET clean == CleanMasks(seg)
      use == IF ShouldUseCleanMask(Activity(clean, s), FramesOf(seg), audioLen, minSamples)
             THEN clean ELSE seg
  IN  IF Activity(seg, s) < minActivity THEN <<>> ELSE [f \in DOMAIN seg |-> use[f][s]]

\* The same selection without intermediate copies; dest may be shorter or longer.
WriteSpeakerMask(seg, s, audioLen, minSamples, minActivity, dest) ==
  LET cleanSum == SumOver({f \in DOMAIN seg : RowSum(seg[f]) < 2}, LAMBDA f : seg[f][s])
      useClean == audioLen > 0 /\ cleanSum > CeilDiv(FramesOf(seg) * minSamples, audioLen)
      value(f) == IF useClean /\ RowSum(seg[f]) >= 2 THEN 0 ELSE seg[f][s]
  IN  [active |-> Activity(seg, s) >= minActivity,
       dest |-> IF Activity(seg, s) < minActivity THEN dest
                ELSE [f \in DOMAIN dest |-> IF f \in DOMAIN seg THEN value(f) ELSE dest[f]]]

\* The embeddings the clusters are trained on, chunk by chunk.
TrainingSet(segs, valid, minClean) ==
  LET clean(c, s) == SumOver({f \in DOMAIN segs[c] : RowSum(segs[c][f]) = 1},
                             LAMBDA f : segs[c][f][s])
      speakers == SetToSortSeq(Speakers(segs), <)
  IN  SelectSeq(FlattenSeq([c \in DOMAIN segs |->
                              [k \in DOMAIN speakers |-> <<c, speakers[k]>>]]),
                LAMBDA p : valid[p[1]][p[2]] /\ clean(p[1], p[2]) >= minClean)

NoPairs == [score |-> 0, pairs |-> <<>>]
Partial == [score : Int, pairs : Seq(Int \X Int)]
\* Depth-first over the active speakers; a better total replaces the best one.
Search(scores, active, clusters, target) ==
  LET search[position \in Nat, current \in Partial, best \in Partial] ==
        IF Len(current.pairs) = target
        THEN IF best.pairs = <<>> \/ current.score > best.score THEN current ELSE best
        ELSE IF position > Len(active) THEN best
        ELSE LET left == Len(active) - position + 1
                 speaker == active[position]
                 used == {current.pairs[i][2] : i \in DOMAIN current.pairs}
                 skipped == IF left > target - Len(current.pairs)
                            THEN search[position + 1, current, best] ELSE best
                 take(acc, k) ==
                   search[position + 1,
                          [score |-> current.score + scores[speaker][k],
                           pairs |-> Append(current.pairs, <<speaker, k>>)], acc]
             IN  FoldLeft(take, skipped, SetToSortSeq(clusters \ used, <))
  IN  search[1, NoPairs, NoPairs].pairs

\* Mutant: speakers are never skipped, the first ones get the clusters.
BestAssignmentInOrder(scores, active, clusters) ==
  LET target == Min({Len(active), Cardinality(clusters)})
  IN  IF target = 0 THEN <<>>
      ELSE Search(scores, SubSeq(active, 1, target), clusters, target)

BestAssignment(scores, active, clusters) ==
  LET target == Min({Len(active), Cardinality(clusters)})
  IN  IF target = 0 THEN <<>> ELSE Search(scores, active, clusters, target)

\* Rows of inactive speakers and of invalid embeddings are masked below every
\* score; if nothing is scored the sums stay -inf and no assignment is best.
AssignChunk(seg, valid, similarity, clusters) ==
  LET speakers == DOMAIN seg[0]
      active == SetToSortSeq({s \in speakers : Activity(seg, s) > 0}, <)
      scored == {s \in Range(active) : valid[s]}
      finite == {similarity[s][k] : s \in scored, k \in clusters}
      scores == [s \in speakers |-> [k \in clusters |->
                   IF s \in scored THEN similarity[s][k] ELSE Min(finite) - 1]]
      pairs == IF finite = {} THEN <<>> ELSE BestAssignment(scores, active, clusters)
  IN  [s \in speakers |->
         IF \E i \in DOMAIN pairs : pairs[i][1] = s
         THEN pairs[CHOOSE i \in DOMAIN pairs : pairs[i][1] = s][2] ELSE Inactive]

MarkInactiveSpeakers(segs, labels) ==
  [c \in DOMAIN segs |-> [s \in Speakers(segs) |->
     IF Activity(segs[c], s) > 0 THEN labels[c][s] ELSE Inactive]]

KeptSpeakers(weights, threshold) ==
  LET kept == {k \in DOMAIN weights : weights[k] > threshold}
  IN  IF kept = {} /\ DOMAIN weights # {} THEN {Argmax(weights)} ELSE kept

\* weights and similarity, computed from the training set, are inputs here.
Cluster(segs, valid, minClean, weights, threshold, similarity) ==
  IF Len(TrainingSet(segs, valid, minClean)) < 2
  THEN MarkInactiveSpeakers(segs, [c \in DOMAIN segs |-> [s \in Speakers(segs) |-> 0]])
  ELSE LET clusters == Upto(Cardinality(KeptSpeakers(weights, threshold)))
       IN  MarkInactiveSpeakers(segs, [c \in DOMAIN segs |->
             AssignChunk(segs[c], valid[c], similarity[c], clusters)])
-----------------------------------------------------------------------------
(* pipeline/types/extract.rs.  active: per chunk, which speakers have an   *)
(* embedding.  Features and masks are named by the chunk and the speaker   *)
(* they were computed for; Missing stands for NaN.                         *)

Missing == <<>>
NoMask == -1
NumSpeakers(active) == Cardinality(DOMAIN active[1])
Positions(active) ==
  FlattenSeq([c \in DOMAIN active |-> [k \in 1..NumSpeakers(active) |-> <<c, k - 1>>]])
NoEmbeddings(active) == [p \in Range(Positions(active)) |-> Missing]

\* items are [at, features, mask].
Embedded(out, items) ==
  Over([p \in {i.at : i \in items} |->
          LET i == CHOOSE j \in items : j.at = p IN <<i.features, i.mask>>], out)

\* Mutant: the first features of the batch are kept.
KeptFeaturesFirst(fbanks, current, more) == IF more THEN <<fbanks[1]>> ELSE <<>>

\* What a flush keeps: the features of the current chunk, at index one, unless
\* its last speaker was flushed.
KeptFeatures(fbanks, current, more) == IF more THEN <<fbanks[current]>> ELSE <<>>

\* A pending speaker refers to its features by their index.
Resolved(st) == {[i EXCEPT !.features = st.fbanks[i.features]] : i \in Range(st.pending)}

SplitFlush(active, st, p) ==
  LET more == p[2] + 1 < NumSpeakers(active)
  IN  [fbanks |-> KeptFeatures(st.fbanks, st.current, more),
       current |-> IF more THEN 1 ELSE st.current, pending |-> <<>>,
       out |-> Embedded(st.out, Resolved(st))]

\* A chunk starts with its first speaker.
SplitStep(active, batchSize, st, p) ==
  LET fbanks == IF p[2] = 0 THEN Append(st.fbanks, p[1]) ELSE st.fbanks
      current == IF p[2] = 0 THEN Len(fbanks) ELSE st.current
      item == [at |-> p, features |-> current, mask |-> p[2]]
      state(pending) ==
        [fbanks |-> fbanks, current |-> current, pending |-> pending, out |-> st.out]
      skipped == state(st.pending)
      pushed == state(Append(st.pending, item))
  IN  IF ~active[p[1]][p[2]] THEN skipped
      ELSE IF Len(pushed.pending) = batchSize THEN SplitFlush(active, pushed, p) ELSE pushed

ExtractSplit(active, batchSize) ==
  LET last == FoldLeft(LAMBDA st, p : SplitStep(active, batchSize, st, p),
                       [fbanks |-> <<>>, current |-> 0, pending |-> <<>>,
                        out |-> NoEmbeddings(active)], Positions(active))
  IN  Embedded(last.out, Resolved(last))

\* Whole audio chunks with their masks: pending holds their positions.
FlushMasked(out, batch) ==
  Embedded(out, {[at |-> p, features |-> p[1], mask |-> p[2]] : p \in Range(batch)})

MaskedStep(active, batchSize, st, p) ==
  LET pending == Append(st.pending, p)
  IN  IF ~active[p[1]][p[2]] THEN st
      ELSE IF Len(pending) = batchSize
      THEN [pending |-> <<>>, out |-> FlushMasked(st.out, pending)]
      ELSE [pending |-> pending, out |-> st.out]

\* The rest goes in the batch sizes the model has; cut[k] are the batches of
\* the last k.
LastBatches(pending, largest) ==
  LET best(k) == IF k >= largest THEN largest ELSE 1
      from(k) == Len(pending) - k
      cut[k \in 0..Len(pending)] ==
        IF k = 0 THEN <<>>
        ELSE <<SubSeq(pending, from(k) + 1, from(k) + best(k))>> \o cut[k - best(k)]
  IN  cut[Len(pending)]

FlushRest(out, batches) == FoldLeft(FlushMasked, out, batches)

ExtractMasked(active, batchSize, largest) ==
  LET last == FoldLeft(LAMBDA st, p : MaskedStep(active, batchSize, st, p),
                       [pending |-> <<>>, out |-> NoEmbeddings(active)], Positions(active))
  IN  FlushRest(last.out, LastBatches(last.pending, largest))

\* One row of features per chunk and one of masks per speaker, also an inactive
\* one, whose answer is not stored.  A row is answered from its own mask and
\* from the features of as many rows as there are speakers.
FlushMultiMask(active, out, st) ==
  LET speakers == NumSpeakers(active)
      row(b, s) == (b - 1) * speakers + s
      items == {[at |-> <<st.chunks[b], s>>,
                 features |-> st.chunks[row(b, s) \div speakers + 1],
                 mask |-> st.masks[row(b, s) + 1]] : b \in DOMAIN st.chunks, s \in Upto(speakers)}
  IN  Embedded(out, {i \in items : i.mask # NoMask})

MultiMaskStep(active, batchSize, st, c) ==
  LET masks == [k \in 1..NumSpeakers(active) |-> IF active[c][k - 1] THEN k - 1 ELSE NoMask]
      pushed == [chunks |-> Append(st.chunks, c), masks |-> st.masks \o masks, out |-> st.out]
  IN  IF Len(pushed.chunks) # batchSize THEN pushed
      ELSE [chunks |-> <<>>, masks |-> <<>>, out |-> FlushMultiMask(active, st.out, pushed)]

ExtractMultiMask(active, batchSize) ==
  LET last == FoldLeft(LAMBDA st, c : MultiMaskStep(active, batchSize, st, c),
                       [chunks |-> <<>>, masks |-> <<>>, out |-> NoEmbeddings(active)],
                       [c \in DOMAIN active |-> c])
  IN  FlushMultiMask(active, last.out, last)
=============================================================================
