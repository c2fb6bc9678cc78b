------------------------- MODULE MCExperimentStore -------------------------
(***************************************************************************)
(* The experiments TLC checks ExperimentStore on.                          *)
(***************************************************************************)
EXTENDS ExperimentStore

CONSTANTS i1, i2

Run(comparison, invocations, reps, files, candidates, maxFaults, maxFailures) ==
  [comparison |-> comparison, invocations |-> invocations, reps |-> reps,
   files |-> files, candidates |-> candidates, maxFaults |-> maxFaults,
   maxFailures |-> maxFailures]

\* Isolated runs with two candidates, of two repetitions and of two files, two
\* comparisons of four repetitions, and a repetition of two files that two
\* invocations work on.
MCConfigurations ==
  {Run(FALSE, {i1}, 2, 2, 2, 1, 1), Run(FALSE, {i1}, 1, 2, 2, 2, 2),
   Run(TRUE, {i1}, 4, 1, 1, 2, 0), Run(TRUE, {i1}, 4, 2, 1, 1, 0),
   Run(FALSE, {i1, i2}, 1, 2, 1, 1, 0)}

\* One repetition of two files and two candidates without any crash, in which
\* two records fail.
FailingConfigurations == {Run(FALSE, {i1}, 1, 2, 2, 0, 2)}
=============================================================================
