-------------------------- MODULE SegmentationPlan --------------------------
(***************************************************************************)
(* How parallel segmentation splits the windows of one file into tasks:    *)
(* BatchTaskPlanner::build (inference/segmentation/parallel.rs), and the   *)
(* ranges ParallelSingleExecutor gives its workers (parallel/single.rs).   *)
(* A task is the half-open range of window indices it predicts.  The loops *)
(* of the planner are stated by the closed form of their counters.         *)
(***************************************************************************)
EXTENDS Integers

CeilDiv(a, b) == (a + b - 1) \div b

Least(a, b) == IF a <= b THEN a ELSE b

Task(first, size, total) == [start |-> first, end |-> Least(first + size, total)]

(* Batches of one size.                                                    *)
UniformTasks(total, size) ==
  [i \in 0 .. CeilDiv(total, size) - 1 |-> Task(i * size, size, total)]

(* Warm start: small batches until `warm` windows have been passed, then   *)
(* large ones.  The last small batch may reach beyond `warm`.              *)
SmallTasks(total, warm, small) == CeilDiv(Least(total, warm), small)

LargeFrom(total, warm, small) == Least(SmallTasks(total, warm, small) * small, total)

WarmStartTasks(total, warm, small, large) ==
  LET n == SmallTasks(total, warm, small)
      from == LargeFrom(total, warm, small)
  IN  [i \in 0 .. n + CeilDiv(total - from, large) - 1 |->
         IF i < n THEN Task(i * small, small, total)
                  ELSE Task(from + (i - n) * large, large, total)]

(* One contiguous range per worker.  Rounding up may leave fewer ranges    *)
(* than workers were asked for.                                            *)
RangeSize(total, workers) == CeilDiv(total, workers)

RangeCount(total, workers) ==
  Least(CeilDiv(total, RangeSize(total, workers)), workers)

WorkerRanges(total, workers) ==
  [w \in 0 .. RangeCount(total, workers) - 1 |->
     Task(w * RangeSize(total, workers), RangeSize(total, workers), total)]

NonEmpty(task, total) ==
  task.start \in 0 .. total - 1 /\ task.end \in 1 .. total /\ task.start < task.end

(* The tasks, in the order of their indices, are a partition of the        *)
(* windows into non-empty consecutive ranges.                              *)
Partitions(tasks, count, total) ==
  /\ DOMAIN tasks = 0 .. count - 1
  /\ total = 0 <=> count = 0
  /\ count > 0 => tasks[0].start = 0 /\ tasks[count - 1].end = total
  /\ \A i \in 0 .. count - 1 : NonEmpty(tasks[i], total)
  /\ \A i \in 1 .. count - 1 : tasks[i].start = tasks[i - 1].end
=============================================================================
