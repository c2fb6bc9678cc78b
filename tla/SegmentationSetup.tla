------------------------- MODULE SegmentationSetup -------------------------
(***************************************************************************)
(* What run_streaming_parallel does before it starts its workers: cut the  *)
(* audio into windows (SegmentationWindows::collect,                       *)
(* inference/segmentation/tensor.rs) and the windows into batch tasks      *)
(* (BatchTaskPlanner::build, inference/segmentation/parallel.rs).  The     *)
(* loops are recursive functions of their cursors, so that the closed      *)
(* forms the other modules and the other callers use can be compared with  *)
(* them.                                                                   *)
(***************************************************************************)
EXTENDS SegmentationPlan, Sequences

\* segmentation_window_count, which callers use to size their buffers.
SegmentationWindowCount(len, spec) ==
  IF len = 0 THEN 0
  ELSE IF len <= spec.window THEN 1
  ELSE LET full == (len - spec.window) \div spec.step + 1
       IN  full + IF full * spec.step < len THEN 1 ELSE 0

\* Starts of the full windows, from a cursor on.
FullWindows(len, spec) ==
  LET from[offset \in 0 .. len + spec.step] ==
        IF offset + spec.window > len THEN <<>>
        ELSE <<offset>> \o from[offset + spec.step]
  IN  from[0]

\* Mutant: the audio is padded also when it is exactly one window long.
CollectInclusive(len, spec) ==
  LET offsets == FullWindows(len, spec)
      next == Len(offsets) * spec.step
      rest == next < len /\ len >= spec.window
  IN  IF len > 0 /\ len < spec.window THEN [offsets |-> <<>>, padded |-> len]
      ELSE [offsets |-> offsets, padded |-> IF rest THEN len - next ELSE 0]

\* The full windows, and how many samples the padded last window holds.
Collect(len, spec) ==
  LET offsets == FullWindows(len, spec)
      next == Len(offsets) * spec.step
      rest == next < len /\ len > spec.window
  IN  IF len > 0 /\ len < spec.window THEN [offsets |-> <<>>, padded |-> len]
      ELSE [offsets |-> offsets, padded |-> IF rest THEN len - next ELSE 0]

TotalWindows(windows) == Len(windows.offsets) + IF windows.padded > 0 THEN 1 ELSE 0

\* Small batches until the warm-up has been passed, then large ones.
BuildTasks(total, plan) ==
  LET warm == IF plan.warmStart THEN Least(total, plan.warm) ELSE 0
      from[start \in 0 .. total] ==
        IF start >= total THEN <<>>
        ELSE LET task == Task(start, IF start < warm THEN plan.small ELSE plan.large, total)
             IN  <<task>> \o from[task.end]
  IN  from[0]
-----------------------------------------------------------------------------
(* What the loops should come to, whatever steps they take.                *)

\* As many windows as callers expect, and every sample in one of them.
CoversAudio(windows, len, spec) ==
  /\ TotalWindows(windows) = SegmentationWindowCount(len, spec)
  /\ windows.padded <= spec.window
  /\ spec.step <= spec.window =>
       \A s \in 0 .. len - 1 :
         \/ s >= len - windows.padded
         \/ \E i \in DOMAIN windows.offsets :
              s \in windows.offsets[i] .. windows.offsets[i] + spec.window - 1

\* Consecutive ranges of the sizes of the closed forms.
FollowsPlan(list, total, plan) ==
  LET tasks == [i \in 0 .. Len(list) - 1 |-> list[i + 1]]
  IN  /\ Partitions(tasks, Len(list), total)
      /\ tasks = IF plan.warmStart
                 THEN WarmStartTasks(total, plan.warm, plan.small, plan.large)
                 ELSE UniformTasks(total, plan.large)
=============================================================================
