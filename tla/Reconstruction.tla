--------------------------- MODULE Reconstruction ---------------------------
(***************************************************************************)
(* From window-level speaker activity to speaker turns: powerset decoding  *)
(* (powerset.rs), reconstruction (reconstruct.rs), duration filtering      *)
(* (binarize.rs), segments (segment.rs) and post_inference.                *)
(*                                                                         *)
(* Frames, columns and speakers are counted from 0 as in the code, chunks  *)
(* are the elements of a sequence.  A matrix is a function of frame, then  *)
(* of column; activity is 0 or 1, and scores are integers.  A time stamp   *)
(* is the index of the frame whose middle it is, since                     *)
(* frame_middle is affine in it.                                           *)
(***************************************************************************)
EXTENDS Integers, Sequences, FiniteSets, SequencesExt

Upto(n) == 0..n - 1
SumOver(S, f(_)) == SumFunction([x \in S |-> f(x)])
FramesOf(column) == Cardinality(DOMAIN column)
-----------------------------------------------------------------------------
(* powerset.rs                                                             *)

\* Mutant: the elements after the one that grows stay where they are.
NextCombinationStuck(c, total) ==
  LET size == Len(c)
      pos == Max({p \in 1..size : c[p] # p - 1 + total - size})
  IN  [p \in 1..size |-> IF p = pos THEN c[p] + 1 ELSE c[p]]

\* The rightmost element that can grow grows, those after it follow closely.
NextCombination(c, total) ==
  LET size == Len(c)
      pos == Max({p \in 1..size : c[p] # p - 1 + total - size})
  IN  [p \in 1..size |-> IF p < pos THEN c[p] ELSE c[pos] + 1 + (p - pos)]

Increasing(total, size) ==
  {c \in [1..size -> Upto(total)] : \A p \in 1..size - 1 : c[p] < c[p + 1]}

Combinations(total, size) ==
  LET last == [p \in 1..size |-> p - 1 + total - size]
      from[c \in Increasing(total, size)] ==
        IF c = last THEN <<c>> ELSE <<c>> \o from[NextCombination(c, total)]
  IN  IF size = 0 THEN << <<>> >>
      ELSE IF size > total THEN <<>>
      ELSE from[[p \in 1..size |-> p - 1]]

PowersetMapping(speakers, maxSet) ==
  FlattenSeq([s \in 1..maxSet + 1 |->
     [k \in DOMAIN Combinations(speakers, s - 1) |->
        Range(Combinations(speakers, s - 1)[k])]])

Subsets(total, size) == {S \in SUBSET Upto(total) : Cardinality(S) = size}
\* Lexicographic order of two different sets of the same size.
Before(S, T) == \E a \in S \ T : \A b \in T \ S : a < b

\* What the classes should be, whatever loop makes them.
AllSetsInOrder(classes, speakers, maxSet) ==
  /\ Range(classes) = UNION {Subsets(speakers, k) : k \in 0..maxSet}
  /\ \A i, j \in DOMAIN classes : i < j =>
       \/ Cardinality(classes[i]) < Cardinality(classes[j])
       \/ Cardinality(classes[i]) = Cardinality(classes[j]) /\ Before(classes[i], classes[j])

\* max_by keeps the last of equal maxima.
Argmax(row) == Max({k \in DOMAIN row : \A j \in DOMAIN row : row[j] <= row[k]})

\* One frame: the speakers of the best class.
HardDecode(row, mapping) == mapping[Argmax(row)]
-----------------------------------------------------------------------------
(* reconstruct.rs                                                          *)

RoundTiesEven(sum, weight) ==
  LET down == sum \div weight
      rest == 2 * (sum % weight)
  IN  IF rest > weight \/ (rest = weight /\ down % 2 = 1) THEN down + 1 ELSE down

\* segs: per chunk, frame -> speaker -> 0 or 1; starts: start frame per chunk.
ChunkFrames(segs) == FramesOf(segs[1])
Speakers(segs) == DOMAIN segs[1][0]

\* The chunks whose kept frames cover output frame f.
Covering(segs, starts, warmup, f) ==
  {c \in DOMAIN segs \cap DOMAIN starts :
     f - starts[c] \in warmup..ChunkFrames(segs) - warmup - 1}

SpeakerCount(segs, starts, warmup, outputFrames) ==
  IF segs = <<>> THEN <<>>
  ELSE [f \in Upto(outputFrames) |->
          LET C == Covering(segs, starts, warmup, f)
              active(c) == SumOver(Speakers(segs), LAMBDA s : segs[c][f - starts[c]][s])
          IN  IF C = {} THEN 0 ELSE RoundTiesEven(SumOver(C, active), Cardinality(C))]

\* Mutant: the local speakers of one cluster are added up.
FrameActivationsSummed(segs, starts, warmup, clusters, count) ==
  LET labels == {clusters[c][s] : c \in DOMAIN segs, s \in Speakers(segs)}
      numClusters == Max({l + 1 : l \in labels} \cup {0})
      columns == Max({count[f] : f \in DOMAIN count} \cup {numClusters})
      score(c, f, k) == SumOver({s \in Speakers(segs) : clusters[c][s] = k},
                                LAMBDA s : segs[c][f - starts[c]][s])
  IN  [f \in DOMAIN count |->
         [k \in Upto(columns) |->
            SumOver(Covering(segs, starts, warmup, f), LAMBDA c : score(c, f, k))]]

\* Per frame and cluster, the number of chunks in which a speaker of the
\* cluster is active; padded with silent columns up to the largest count.
FrameActivations(segs, starts, warmup, clusters, count) ==
  LET labels == {clusters[c][s] : c \in DOMAIN segs, s \in Speakers(segs)}
      numClusters == Max({l + 1 : l \in labels} \cup {0})
      columns == Max({count[f] : f \in DOMAIN count} \cup {numClusters})
      score(c, f, k) == Max({segs[c][f - starts[c]][s] :
                             s \in {t \in Speakers(segs) : clusters[c][t] = k}} \cup {0})
  IN  [f \in DOMAIN count |->
         [k \in Upto(columns) |->
            SumOver(Covering(segs, starts, warmup, f), LAMBDA c : score(c, f, k))]]

\* epsilon2 is twice epsilon, at most 2: the activations are whole numbers, and
\* with a larger epsilon the comparison of the code is not an order (1 is near 0
\* and 2, which are apart), of which its sort makes what it likes.
Precedes(row, i, j, previous, epsilon2) ==
  LET diff == 2 * (row[i] - row[j])
      near == diff < epsilon2 /\ -diff < epsilon2
      held(k) == k \in previous
  IN  IF near /\ held(i) # held(j) THEN held(i)
      ELSE IF near \/ diff = 0 THEN i < j
      ELSE diff > 0

TopK(row, k, previous, epsilon2) ==
  {i \in DOMAIN row :
     Cardinality({j \in DOMAIN row \ {i} : Precedes(row, j, i, previous, epsilon2)}) < k}

\* epsilon2 = 0 is the standard selection; smoothing looks at the frame before.
Reconstruct(activations, count, epsilon2) ==
  LET chosen[f \in DOMAIN count] ==
        TopK(activations[f], count[f], IF f = 0 THEN {} ELSE chosen[f - 1], epsilon2)
  IN  chosen

\* The others keep their value only if no one is active.
MakeExclusive(row) ==
  LET best == Max({row[k] : k \in DOMAIN row})
  IN  IF best = 0 THEN row
      ELSE [k \in DOMAIN row |-> IF k = Argmax(row) THEN row[k] ELSE 0]
-----------------------------------------------------------------------------
(* binarize.rs, one speaker                                                *)

Hysteresis(scores, onset, offset) ==
  LET state[f \in -1..FramesOf(scores) - 1] ==
        IF f = -1 THEN FALSE
        ELSE IF state[f - 1] THEN scores[f] >= offset ELSE scores[f] >= onset
  IN  [f \in DOMAIN scores |-> state[f]]

Frames(run) == run[1]..run[2] - 1
FindRuns(active, target) ==
  LET n == FramesOf(active)
  IN  {run \in {<<a, b>> : a \in Upto(n), b \in 1..n} :
         /\ run[1] < run[2] /\ \A f \in Frames(run) : active[f] = target
         /\ run[1] > 0 => active[run[1] - 1] # target
         /\ run[2] < n => active[run[2]] # target}

FillRuns(active, runs, value) ==
  [f \in DOMAIN active |-> IF \E r \in runs : f \in Frames(r) THEN value ELSE active[f]]

RemoveShortOn(active, least) ==
  FillRuns(active, {r \in FindRuns(active, TRUE) : r[2] - r[1] < least}, FALSE)

\* Mutant: gaps at the ends of the signal are filled too.
FillShortOffEnds(active, least) ==
  FillRuns(active, {r \in FindRuns(active, FALSE) : r[2] - r[1] < least}, TRUE)

\* Only gaps between two regions.
FillShortOff(active, least) ==
  FillRuns(active, {r \in FindRuns(active, FALSE) :
                      r[1] > 0 /\ r[2] < FramesOf(active) /\ r[2] - r[1] < least}, TRUE)

PadRegions(active, onset, offset) ==
  FillRuns(active, {<<Max({0, r[1] - onset}), Min({r[2] + offset, FramesOf(active)})>> :
                      r \in FindRuns(active, TRUE)}, TRUE)

Binarize(scores, config) ==
  LET found == Hysteresis(scores, config.onset, config.offset)
      kept == RemoveShortOn(found, config.minOn)
      filled == FillShortOff(kept, config.minOff)
  IN  PadRegions(filled, config.padOnset, config.padOffset)

RunsAtLeast(active, least, target) ==
  \A r \in FindRuns(active, target) :
    r[1] > 0 /\ r[2] < FramesOf(active) => r[2] - r[1] >= least

Around(active, before, after) ==
  [f \in DOMAIN active |-> \E g \in DOMAIN active : active[g] /\ f - g \in -before..after]

\* What the filter should come to, whatever steps it takes.
FilterFaithful(scores, config, out) ==
  LET low == Min({config.onset, config.offset})
      high == Max({config.onset, config.offset})
      bare == [config EXCEPT !.padOnset = 0, !.padOffset = 0]
      unpadded == Binarize(scores, bare)
      again == Binarize([f \in DOMAIN unpadded |-> IF unpadded[f] THEN high ELSE low - 1], bare)
  IN  /\ \A r \in FindRuns(unpadded, TRUE) : r[2] - r[1] >= config.minOn
      /\ RunsAtLeast(unpadded, config.minOff, FALSE)
      /\ again = unpadded
      /\ out = Around(unpadded, config.padOnset, config.padOffset)
      /\ \A f \in DOMAIN unpadded : unpadded[f] /\ scores[f] < low =>
           /\ \E g \in f - config.minOff .. f - 1 : g \in DOMAIN scores /\ unpadded[g]
           /\ \E g \in f + 1 .. f + config.minOff : g \in DOMAIN scores /\ unpadded[g]
-----------------------------------------------------------------------------
(* segment.rs and pipeline/post_inference.rs                               *)

\* An active region ends at the first inactive frame, or at the last frame.
SpeakerSegments(active, speaker) ==
  {[start |-> r[1], end |-> Min({r[2], FramesOf(active) - 1}), speaker |-> speaker] :
     r \in FindRuns(active, TRUE)}

Earlier(a, b) == a.start < b.start \/ (a.start = b.start /\ a.speaker < b.speaker)

\* Stable sort by start of a list in speaker order.
ToSegments(columns) ==
  LET all == UNION {SpeakerSegments(columns[s], s) : s \in DOMAIN columns}
  IN  [i \in 1..Cardinality(all) |->
         CHOOSE a \in all : Cardinality({b \in all : Earlier(b, a)}) = i - 1]

\* Mutant: a short pause is merged whoever speaks after it.
MergeSegmentsAnyone(segments, maxGap) ==
  FoldLeft(LAMBDA merged, seg :
             IF merged # <<>> /\ seg.start - Last(merged).end < maxGap
             THEN [merged EXCEPT ![Len(merged)].end = seg.end]
             ELSE Append(merged, seg),
           <<>>, segments)

\* Only neighbours in the list are merged.
MergeSegments(segments, maxGap) ==
  FoldLeft(LAMBDA merged, seg :
             IF merged # <<>> /\ Last(merged).speaker = seg.speaker
                /\ seg.start - Last(merged).end < maxGap
             THEN [merged EXCEPT ![Len(merged)].end = seg.end]
             ELSE Append(merged, seg),
           <<>>, segments)

Covers(g, f, last) == g.start <= f /\ (f < g.end \/ (f = last /\ g.end = last))

\* What the turns should be, however they are listed and merged.
TurnsAre(turns, active, last, maxGap) ==
  /\ \A i \in DOMAIN turns : turns[i].start <= turns[i].end
  /\ \A i, j \in DOMAIN turns : i < j =>
       /\ turns[i].start <= turns[j].start
       /\ turns[i].speaker = turns[j].speaker => turns[i].end < turns[j].start
  /\ \A k \in DOMAIN active : \A f \in DOMAIN active[k] :
       LET covered == \E i \in DOMAIN turns : turns[i].speaker = k /\ Covers(turns[i], f, last)
           gap == {r \in FindRuns(active[k], FALSE) : f \in Frames(r)}
       IN  /\ active[k][f] => covered
           /\ ~active[k][f] /\ covered => f = last \/ \E r \in gap : r[2] - r[1] < maxGap

\* The duration filter runs only if one of its minima is set.
PostInference(segs, starts, outputFrames, clusters, config) ==
  LET count == SpeakerCount(segs, starts, 0, outputFrames)
      activations == FrameActivations(segs, starts, 0, clusters, count)
      chosen == Reconstruct(activations, count, config.epsilon2)
      discrete == [k \in DOMAIN activations[0] |->
                     [f \in DOMAIN count |-> IF k \in chosen[f] THEN 1 ELSE 0]]
      filtered == [k \in DOMAIN discrete |->
                     IF config.minOn > 0 \/ config.minOff > 0
                     THEN Binarize(discrete[k], config)
                     ELSE [f \in DOMAIN count |-> discrete[k][f] = 1]]
      silent == \A f \in DOMAIN count : count[f] = 0
  IN  [count |-> count, chosen |-> IF silent THEN [f \in DOMAIN count |-> {}] ELSE chosen,
       active |-> IF silent THEN <<>> ELSE filtered,
       segments |-> IF silent THEN <<>> ELSE MergeSegments(ToSegments(filtered),
                                                           config.mergeGap)]
=============================================================================
