------------------------------- MODULE Metrics -------------------------------
(***************************************************************************)
(* The diarization error rate (metrics.rs): the interval-based error of a  *)
(* hypothesis against a reference, with the mapping of speakers that the   *)
(* Hungarian algorithm finds.  Times are integers.                         *)
(***************************************************************************)
EXTENDS Reconstruction

Duration(segs) == SumOver(DOMAIN segs, LAMBDA i : segs[i].end - segs[i].start)

\* Speakers in the order of their first segment.
UniqueSpeakers(segs) ==
  FoldLeft(LAMBDA seen, g : IF g.speaker \in Range(seen) THEN seen ELSE Append(seen, g.speaker),
           <<>>, segs)

\* Indices, from 0, of the speakers active in the middle of a window.
ActiveSpeakersAt(segs, window, speakers) ==
  LET middle2 == window[1] + window[2]
  IN  {i \in Upto(Len(speakers)) : \E k \in DOMAIN segs :
         /\ segs[k].speaker = speakers[i + 1]
         /\ 2 * segs[k].start <= middle2 /\ middle2 < 2 * segs[k].end}
-----------------------------------------------------------------------------
(* HungarianSolver.  Column and row 0 are the sentinels of the code.       *)

Unreached == 1000000

\* The columns of the augmenting path that ends in `col` move on by one.
Augment(colToRow, prevCol, col) ==
  LET path[c \in DOMAIN colToRow] == IF c = 0 THEN {} ELSE {c} \cup path[prevCol[c]]
  IN  [c \in DOMAIN colToRow |-> IF c \in path[col] THEN colToRow[prevCol[c]] ELSE colToRow[c]]

\* One round of the search for the cheapest augmenting path, from column st.cur.
GrowTree(st, cost) ==
  LET cols == 1..FramesOf(cost)
      visited == st.visited \cup {st.cur}
      row == st.colToRow[st.cur]
      reduced(j) == cost[row - 1][j - 1] - st.rowPot[row] - st.colPot[j]
      shorter == {j \in cols \ visited : reduced(j) < st.paths[j]}
      paths == [j \in cols |-> IF j \in shorter THEN reduced(j) ELSE st.paths[j]]
      delta == Min({paths[j] : j \in cols \ visited})
      onTree == {st.colToRow[j] : j \in visited}
  IN  [st EXCEPT
        !.visited = visited, !.cur = Min({j \in cols \ visited : paths[j] = delta}),
        !.prevCol = [j \in cols |-> IF j \in shorter THEN st.cur ELSE @[j]],
        !.rowPot = [i \in DOMAIN @ |-> IF i \in onTree THEN @[i] + delta ELSE @[i]],
        !.colPot = [j \in DOMAIN @ |-> IF j \in visited THEN @[j] - delta ELSE @[j]],
        !.paths = [j \in cols |-> IF j \in visited THEN paths[j] ELSE paths[j] - delta]]

\* Rounds until the search reaches a column that has no row.
FindPath(st, row, cost) ==
  LET start == [st EXCEPT !.colToRow[0] = row, !.visited = {}, !.cur = 0,
                          !.paths = [j \in DOMAIN @ |-> Unreached]]
      round(t, k) == IF t.colToRow[t.cur] = 0 THEN t ELSE GrowTree(t, cost)
  IN  FoldLeft(round, start, [k \in 1..FramesOf(cost) |-> k])

\* Mutant: the potentials of the rows before are forgotten.
AssignRowForgetful(st, row, cost) ==
  LET last == FindPath([st EXCEPT !.rowPot = [i \in DOMAIN @ |-> 0],
                                  !.colPot = [i \in DOMAIN @ |-> 0]], row, cost)
  IN  [last EXCEPT !.colToRow = Augment(@, last.prevCol, last.cur)]

AssignRow(st, row, cost) ==
  LET last == FindPath(st, row, cost)
  IN  [last EXCEPT !.colToRow = Augment(@, last.prevCol, last.cur)]

\* The column of every row, for a square cost matrix counted from 0.
HungarianAlgorithm(cost) ==
  LET n == FramesOf(cost)
      new == [rowPot |-> [i \in 0..n |-> 0], colPot |-> [j \in 0..n |-> 0],
              colToRow |-> [j \in 0..n |-> 0], prevCol |-> [j \in 1..n |-> 0],
              paths |-> [j \in 1..n |-> Unreached], visited |-> {}, cur |-> 0]
      solved == FoldLeft(LAMBDA st, row : AssignRow(st, row, cost), new,
                         [row \in 1..n |-> row])
  IN  [i \in Upto(n) |-> (CHOOSE j \in 1..n : solved.colToRow[j] = i + 1) - 1]

\* Padded to a square matrix; only pairs of real speakers are kept.
OptimalMapping(cooccurrence, nRef, nHyp) ==
  LET n == Max({nRef, nHyp})
      cost == [i \in Upto(n) |-> [j \in Upto(n) |->
                 IF i < nRef /\ j < nHyp THEN -cooccurrence[i][j] ELSE 0]]
      column == HungarianAlgorithm(cost)
  IN  IF nRef = 0 \/ nHyp = 0 THEN <<>>
      ELSE [i \in {k \in Upto(nRef) : column[k] < nHyp} |-> column[i]]
-----------------------------------------------------------------------------
Boundaries(reference, hypothesis) ==
  SetToSortSeq(UNION {{g.start, g.end} : g \in Range(reference) \cup Range(hypothesis)}, <)

ComputeDer(reference, hypothesis) ==
  LET times == Boundaries(reference, hypothesis)
      windows == {<<times[i], times[i + 1]>> : i \in 1..Len(times) - 1}
      refs == UniqueSpeakers(reference)
      hyps == UniqueSpeakers(hypothesis)
      ref(w) == ActiveSpeakersAt(reference, w, refs)
      hyp(w) == ActiveSpeakersAt(hypothesis, w, hyps)
      integral(f(_)) == SumOver(windows, LAMBDA w : f(w) * (w[2] - w[1]))
      cooccurrence == [i \in Upto(Len(refs)) |-> [j \in Upto(Len(hyps)) |->
        integral(LAMBDA w : IF i \in ref(w) /\ j \in hyp(w) THEN 1 ELSE 0)]]
      mapping == OptimalMapping(cooccurrence, Len(refs), Len(hyps))
      correct(w) == Cardinality({i \in ref(w) \cap DOMAIN mapping : mapping[i] \in hyp(w)})
      nRef(w) == Cardinality(ref(w))
      nHyp(w) == Cardinality(hyp(w))
  IN  IF reference = <<>>
      THEN [missed |-> 0, falseAlarm |-> Duration(hypothesis), confusion |-> 0, total |-> 0]
      ELSE [missed |-> integral(LAMBDA w : Max({nRef(w) - nHyp(w), 0})),
            falseAlarm |-> integral(LAMBDA w : Max({nHyp(w) - nRef(w), 0})),
            confusion |-> integral(LAMBDA w : Min({nRef(w), nHyp(w)}) - correct(w)),
            total |-> integral(nRef)]
=============================================================================
