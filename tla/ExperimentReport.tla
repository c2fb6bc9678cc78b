-------------------------- MODULE ExperimentReport --------------------------
(***************************************************************************)
(* From the records of a run to its decisions: the metrics of a candidate, *)
(* the comparison with its baseline and the acceptance policy (store.rs,   *)
(* statistics.rs).  A step of the code that returns an error makes the     *)
(* whole projection Failed.                                                *)
(*                                                                         *)
(* A record is [candidate, file, repetition, status, errors, reference,    *)
(* speakers, predicted, usable, post]: errors is [missed, falseAlarm,      *)
(* confusion], usable is <<>> or <<count>>, post is the post-inference     *)
(* time, which is positive.  Times and errors are integers; a quotient is  *)
(* a fraction <<numerator, denominator>> with a positive denominator, so   *)
(* that no comparison rounds.                                              *)
(***************************************************************************)
EXTENDS Reconstruction

Failed == [ok |-> FALSE]
Done(value) == [ok |-> TRUE, value |-> value]

Gcd[p \in Nat \X Nat] == IF p[2] = 0 THEN p[1] ELSE Gcd[<<p[2], p[1] % p[2]>>]
LowestTerms(n, d) ==
  LET g == Gcd[<<d, IF n < 0 THEN -n ELSE n>>] IN <<n \div g, d \div g>>
Whole(n) == <<n, 1>>
Minus(x, y) == LowestTerms(x[1] * y[2] - y[1] * x[2], x[2] * y[2])
Below(x, y) == x[1] * y[2] < y[1] * x[2]
Absolute(x) == IF x[1] < 0 THEN <<-x[1], x[2]>> ELSE x
-----------------------------------------------------------------------------
(* statistics.rs                                                           *)

Median(values) ==
  LET sorted == SortSeq(values, Below)
      middle == Len(sorted) \div 2
      x == sorted[middle]
      y == sorted[middle + 1]
  IN  IF Len(sorted) % 2 = 1 THEN y ELSE LowestTerms(x[1] * y[2] + y[1] * x[2], 2 * x[2] * y[2])

MedianAbsoluteDeviation(values) ==
  Median([i \in DOMAIN values |-> Absolute(Minus(values[i], Median(values)))])

\* As a fraction of the candidate's time: 3 / 100 is three percent.
SpeedImprovement(baseline, candidate) ==
  LowestTerms(baseline[1] * candidate[2] - candidate[1] * baseline[2], candidate[1] * baseline[2])

MaterialSpeedRule(improvement, mad) ==
  Below(<<3, 100>>, improvement) /\ Below(<<3 * mad[1], mad[2]>>, improvement)

\* At least a tenth of a percent.
DatasetNoiseMargin(differences) ==
  FoldLeft(LAMBDA largest, x : IF Below(largest, Absolute(x)) THEN Absolute(x) ELSE largest,
           <<1, 1000>>, differences)

\* An observation is [file, reference, error].  Every baseline file needs its
\* partner, and no identity may come twice.
PairFileObservations(baseline, candidate) ==
  LET files(obs) == {obs[i].file : i \in DOMAIN obs}
      partner(x) == candidate[CHOOSE i \in DOMAIN candidate : candidate[i].file = x.file]
  IN  IF \/ <<>> \in {baseline, candidate} \/ Len(baseline) # Len(candidate)
         \/ Cardinality(files(baseline)) # Len(baseline) \/ files(baseline) # files(candidate)
         \/ \E i \in DOMAIN baseline : baseline[i].reference # partner(baseline[i]).reference
      THEN Failed
      ELSE Done([i \in DOMAIN baseline |->
             [file |-> baseline[i].file, reference |-> baseline[i].reference,
              baseline |-> baseline[i].error, candidate |-> partner(baseline[i]).error]])

\* Duration-weighted improvement over the files a tuple of indices names.
Improvement(paired, indices) ==
  <<SumOver(DOMAIN indices, LAMBDA i : paired[indices[i]].baseline - paired[indices[i]].candidate),
    SumOver(DOMAIN indices, LAMBDA i : paired[indices[i]].reference)>>

\* Ten thousand resamples are drawn from the tuples of file indices: the bounds
\* are the quantiles of their distribution.
PairedFileBootstrap(paired) ==
  LET draws == [DOMAIN paired -> DOMAIN paired]
      value(d) == Improvement(paired, d)
      atMost(d) == Cardinality({e \in draws : ~Below(value(d), value(e))})
      least(S) == CHOOSE x \in S : \A y \in S : ~Below(y, x)
      quantile(percent10) == least({value(d) : d \in
        {e \in draws : 1000 * atMost(e) >= percent10 * Cardinality(draws)}})
  IN  [point |-> Improvement(paired, [i \in DOMAIN paired |-> i]),
       lower |-> quantile(25), upper |-> quantile(975)]

\* Mutant: some improvement is likely, not certain.
ClearImprovementUpper(bootstrap) == Below(Whole(0), bootstrap.upper)

ClearImprovement(bootstrap) == Below(Whole(0), bootstrap.lower)
NonInferior(bootstrap, margin) == ~Below(bootstrap.lower, <<-margin[1], margin[2]>>)
-----------------------------------------------------------------------------
(* store.rs: the metrics of one candidate.                                 *)

Medians(measurements, f(_)) == Median([i \in DOMAIN measurements |-> Whole(f(measurements[i]))])

\* Repeated measurements of one file may differ in their errors only.
MeasurementsAgree(ms) ==
  /\ ms[1].reference > 0
  /\ \A i \in DOMAIN ms :
       /\ ms[i].reference = ms[1].reference
       /\ ms[i].speakers = ms[1].speakers /\ ms[i].predicted = ms[1].predicted
       /\ ms[i].usable = ms[1].usable

\* Twice the sum of the medians, which may be halves.
FileError2(ms) ==
  LET twice(m) == (2 * m[1]) \div m[2]
  IN  twice(Medians(ms, LAMBDA m : m.errors.missed))
      + twice(Medians(ms, LAMBDA m : m.errors.falseAlarm))
      + twice(Medians(ms, LAMBDA m : m.errors.confusion))

\* Only complete records count, also in the clock of a repetition.
CandidateMetrics(records, k, walls) ==
  LET mine == SelectSeq(records, LAMBDA r : r.candidate = k)
      complete == SelectSeq(mine, LAMBDA r : r.status = "complete")
      files == SetToSortSeq({complete[i].file : i \in DOMAIN complete}, <)
      of(f) == SelectSeq(complete, LAMBDA r : r.file = f)
      repetitions == {complete[i].repetition : i \in DOMAIN complete}
      post == [n \in repetitions |->
                 SumOver({i \in DOMAIN complete : complete[i].repetition = n},
                         LAMBDA i : complete[i].post)]
  IN  IF \E i \in DOMAIN files : ~MeasurementsAgree(of(files[i])) THEN Failed
      ELSE Done([observations |-> [i \in DOMAIN files |->
                   [file |-> files[i], reference |-> 2 * of(files[i])[1].reference,
                    error |-> FileError2(of(files[i]))]],
                 successful |-> Len(complete), failed |-> Len(mine) - Len(complete),
                 wall |-> walls, post |-> post])

\* The difference of any two repetitions of the baseline candidate.
BaselineNoiseMargin(records) ==
  LET complete == {i \in DOMAIN records : records[i].candidate = 0 /\ records[i].status = "complete"}
      repetitions == SetToSortSeq({records[i].repetition : i \in complete}, <)
      error(e) == e.missed + e.falseAlarm + e.confusion
      of(n) == {i \in complete : records[i].repetition = n}
      der(n) == <<SumOver(of(n), LAMBDA i : error(records[i].errors)),
                  SumOver(of(n), LAMBDA i : records[i].reference)>>
  IN  DatasetNoiseMargin(FlattenSeq([a \in DOMAIN repetitions |->
        [b \in 1..a - 1 |-> Minus(der(repetitions[b]), der(repetitions[a]))]]))
-----------------------------------------------------------------------------
(* store.rs: the comparison.                                               *)

MedianOf(clock) ==
  LET reps == SetToSeq(DOMAIN clock)
  IN  Median([i \in DOMAIN reps |-> Whole(clock[reps[i]])])

\* The medians decide, the repetitions both have measure the noise.
SpeedIsMaterial(baseline, candidate) ==
  LET shared == SetToSeq(DOMAIN baseline \cap DOMAIN candidate)
      improvements == [i \in DOMAIN shared |->
        SpeedImprovement(Whole(baseline[shared[i]]), Whole(candidate[shared[i]]))]
  IN  shared # <<>> /\ MaterialSpeedRule(SpeedImprovement(MedianOf(baseline), MedianOf(candidate)),
                                         MedianAbsoluteDeviation(improvements))

AcceptancePasses(policy, clear, bootstrap, nonInferior, material, guard) ==
  CASE policy = "standard-der" -> clear /\ ~Below(bootstrap.point, <<2, 1000>>) /\ guard
    [] policy = "standard-performance" -> material /\ nonInferior /\ guard
    [] policy = "fast-pareto" -> nonInferior /\ (material \/ clear) /\ guard

\* No file may change by more than two percent, unless its cause is documented.
PerFileGuard(paired, documented) ==
  \A i \in DOMAIN paired :
    \/ ~Below(<<2, 100>>, Absolute(<<paired[i].candidate - paired[i].baseline, paired[i].reference>>))
    \/ paired[i].file \in documented

\* Done(<<>>) if there is nothing to compare.
BuildComparison(baseline, candidate, margin, documented, policy, clock) ==
  LET paired == PairFileObservations(baseline.observations, candidate.observations)
      bootstrap == PairedFileBootstrap(paired.value)
      clear == ClearImprovement(bootstrap)
      nonInferior == NonInferior(bootstrap, margin)
      material == SpeedIsMaterial(baseline[clock], candidate[clock])
      guard == PerFileGuard(paired.value, documented)
      files == {paired.value[i].file : i \in DOMAIN paired.value}
  IN  IF baseline.observations = <<>> \/ Len(baseline.observations) # Len(candidate.observations)
      THEN Done(<<>>)
      ELSE IF ~paired.ok \/ ~(documented \subseteq files) THEN Failed
      ELSE Done(<<[clear |-> clear, nonInferior |-> nonInferior, material |-> material,
                   guard |-> guard, point |-> bootstrap.point,
                   accepted |-> AcceptancePasses(policy, clear, bootstrap, nonInferior,
                                                 material, guard)]>>)

\* external is <<>> or <<[records, walls]>>, the run the candidates are compared
\* with; else the first candidate is the baseline of the others, on its own clock
\* and without a margin.
Projection(records, candidates, walls, external, documented, policy) ==
  LET metrics == [k \in Upto(candidates) |-> CandidateMetrics(records, k, walls)]
      baseline == IF external = <<>> THEN metrics[0]
                  ELSE CandidateMetrics(external[1].records, 0, external[1].walls)
      margin == IF external = <<>> THEN Whole(0) ELSE BaselineNoiseMargin(external[1].records)
      clock == IF external = <<>> THEN "post" ELSE "wall"
      comparison == [k \in Upto(candidates) |->
        IF external = <<>> /\ k = 0 THEN Done(<<>>)
        ELSE BuildComparison(baseline.value, metrics[k].value, margin, documented, policy, clock)]
  IN  IF \/ \E k \in Upto(candidates) : ~metrics[k].ok
         \/ ~baseline.ok
         \/ external # <<>> /\ external[1].records = <<>>
         \/ \E k \in Upto(candidates) : ~comparison[k].ok
      THEN Failed
      ELSE Done([k \in Upto(candidates) |->
             [successful |-> metrics[k].value.successful, failed |-> metrics[k].value.failed,
              comparison |-> comparison[k].value]])
=============================================================================
