-------------------------- MODULE SegmentationBatch --------------------------
(***************************************************************************)
(* Parallel batched segmentation of one file                               *)
(* (inference/segmentation/parallel/batch.rs, ParallelBatchExecutor).      *)
(* Rayon workers claim batch tasks from a shared counter, predict them and *)
(* send the results, out of order, through an unbounded channel; a merger  *)
(* thread restores the order and streams single windows through the        *)
(* bounded channel `tx` to the embedding side, which may hang up.          *)
(***************************************************************************)
EXTENDS SegmentationPlan, Sequences, FiniteSets

CONSTANTS
  Workers,      \* rayon workers started
  Total,        \* windows of the file
  BatchSize,    \* batch capacity of the selected model
  WarmStart,    \* use_warm_start_b32
  WarmWindows,  \* warm_start_small_windows
  SmallBatch,   \* warm_start_batch_capacity
  TxCapacity,   \* capacity of the window channel
  MayFail       \* whether filling, predicting or decoding a batch may fail

ASSUME SizesAssumption ==
  /\ Total \in Nat \ {0}   \* run_streaming_parallel returns early on no window
  /\ BatchSize \in Nat \ {0} /\ SmallBatch \in Nat \ {0}
  /\ WarmWindows \in Nat /\ TxCapacity \in Nat \ {0}
ASSUME FlagsAssumption == WarmStart \in BOOLEAN /\ MayFail \in BOOLEAN

Tasks == IF WarmStart THEN WarmStartTasks(Total, WarmWindows, SmallBatch, BatchSize)
                      ELSE UniformTasks(Total, BatchSize)

TaskIds == DOMAIN Tasks

TaskCount ==
  IF WarmStart
    THEN SmallTasks(Total, WarmWindows, SmallBatch)
           + CeilDiv(Total - LargeFrom(Total, WarmWindows, SmallBatch), BatchSize)
    ELSE CeilDiv(Total, BatchSize)

(* No more workers are started than there are tasks.                       *)
ASSUME WorkersAssumption ==
  /\ Workers # {} /\ IsFiniteSet(Workers)
  /\ Cardinality(Workers) <= TaskCount

(* What a worker is doing when it has no task.                             *)
Free == -1
Done == -2

NoError == -1

TaskWindows(b) ==
  [i \in 1 .. Tasks[b].end - Tasks[b].start |-> Tasks[b].start + i - 1]

VARIABLES
  nextTask,    \* shared counter of claimed tasks
  working,     \* what each worker is doing: a task, Free or Done
  errorSlot,   \* WorkerErrorSlot: NoError or the task that failed first
  batches,     \* unbounded channel of finished batches
  merger,      \* OrderedBatchMerger::run
  nextBatch,   \* OrderedBatchMerger::next_batch
  pending,     \* OrderedBatchMerger::pending
  outgoing,    \* windows of next_batch still to be sent
  sent,        \* history: every window sent through tx, in order
  taken,       \* how many of them the consumer has received
  consumer,    \* the receiving end of tx
  executor,    \* ParallelBatchExecutor::run and its outcome
  failed       \* history: tasks that failed

workerVars   == <<nextTask, working, errorSlot, failed>>
mergerVars   == <<merger, nextBatch, pending, outgoing>>
consumerVars == <<taken, consumer>>
vars == <<workerVars, batches, mergerVars, sent, consumerVars, executor>>

Outcomes == {"Ok", "WorkerError", "SendError"}

InFlight == Len(sent) - taken

WorkersDone == \A w \in Workers : working[w] = Done
-----------------------------------------------------------------------------
Init ==
  /\ nextTask = 0
  /\ working = [w \in Workers |-> Free]
  /\ errorSlot = NoError
  /\ batches = <<>>
  /\ merger = "running"
  /\ nextBatch = 0
  /\ pending = {}
  /\ outgoing = <<>>
  /\ sent = <<>>
  /\ taken = 0
  /\ consumer = "receiving"
  /\ executor = "working"
  /\ failed = {}

(* claim_next_task: fetch_add, then a lookup that may be past the end.     *)
ClaimTask(w) ==
  /\ working[w] = Free
  /\ nextTask' = nextTask + 1
  /\ working' = [working EXCEPT ![w] = IF nextTask \in TaskIds THEN nextTask ELSE Done]
  /\ UNCHANGED <<errorSlot, failed, batches, mergerVars, sent, consumerVars, executor>>

(* A predicted batch goes to the merger; if that is gone the worker stops. *)
FinishTask(w) ==
  /\ working[w] \in TaskIds
  /\ IF merger = "running"
       THEN /\ batches' = Append(batches, working[w])
            /\ working' = [working EXCEPT ![w] = Free]
       ELSE /\ working' = [working EXCEPT ![w] = Done]
            /\ UNCHANGED batches
  /\ UNCHANGED <<nextTask, errorSlot, failed, mergerVars, sent, consumerVars, executor>>

(* Mutant: the failed task is put back, to be claimed again.               *)
FailTaskRetried(w) ==
  /\ MayFail
  /\ working[w] \in TaskIds
  /\ errorSlot' = IF errorSlot = NoError THEN working[w] ELSE errorSlot
  /\ failed' = failed \union {working[w]}
  /\ nextTask' = working[w]
  /\ working' = [working EXCEPT ![w] = Free]
  /\ UNCHANGED <<batches, mergerVars, sent, consumerVars, executor>>

(* process_task fails: the first error is kept and this worker stops,      *)
(* while the others go on.                                                 *)
FailTask(w) ==
  /\ MayFail
  /\ working[w] \in TaskIds
  /\ errorSlot' = IF errorSlot = NoError THEN working[w] ELSE errorSlot
  /\ failed' = failed \union {working[w]}
  /\ working' = [working EXCEPT ![w] = Done]
  /\ UNCHANGED <<nextTask, batches, mergerVars, sent, consumerVars, executor>>
-----------------------------------------------------------------------------
(* Mutant: batches are forwarded as they arrive.                           *)
MergeBatchUnordered ==
  /\ merger = "running"
  /\ outgoing = <<>>
  /\ batches # <<>>
  /\ batches' = Tail(batches)
  /\ outgoing' = TaskWindows(Head(batches))
  /\ UNCHANGED <<workerVars, merger, nextBatch, pending, sent, consumerVars, executor>>

(* The merger takes a batch and removes the next one if it is there.       *)
MergeBatch ==
  /\ merger = "running"
  /\ outgoing = <<>>
  /\ batches # <<>>
  /\ batches' = Tail(batches)
  /\ LET held == pending \union {Head(batches)}
     IN  IF nextBatch \in held
           THEN /\ pending' = held \ {nextBatch}
                /\ outgoing' = TaskWindows(nextBatch)
           ELSE /\ pending' = held
                /\ UNCHANGED outgoing
  /\ UNCHANGED <<workerVars, merger, nextBatch, sent, consumerVars, executor>>

(* Mutant: an unbounded window channel.                                    *)
MergeSendUnbounded ==
  /\ merger = "running"
  /\ outgoing # <<>>
  /\ consumer = "receiving"
  /\ sent' = Append(sent, Head(outgoing))
  /\ IF Len(outgoing) > 1
       THEN /\ outgoing' = Tail(outgoing)
            /\ UNCHANGED <<nextBatch, pending>>
       ELSE /\ nextBatch' = nextBatch + 1
            /\ IF nextBatch + 1 \in pending
                 THEN /\ pending' = pending \ {nextBatch + 1}
                      /\ outgoing' = TaskWindows(nextBatch + 1)
                 ELSE /\ outgoing' = <<>>
                      /\ UNCHANGED pending
  /\ UNCHANGED <<workerVars, batches, merger, consumerVars, executor>>

(* send_results: one window; after the last one of a batch the counter     *)
(* moves on and the next batch follows if it is already pending.           *)
MergeSend ==
  /\ merger = "running"
  /\ outgoing # <<>>
  /\ consumer = "receiving"
  /\ InFlight < TxCapacity
  /\ sent' = Append(sent, Head(outgoing))
  /\ IF Len(outgoing) > 1
       THEN /\ outgoing' = Tail(outgoing)
            /\ UNCHANGED <<nextBatch, pending>>
       ELSE /\ nextBatch' = nextBatch + 1
            /\ IF nextBatch + 1 \in pending
                 THEN /\ pending' = pending \ {nextBatch + 1}
                      /\ outgoing' = TaskWindows(nextBatch + 1)
                 ELSE /\ outgoing' = <<>>
                      /\ UNCHANGED pending
  /\ UNCHANGED <<workerVars, batches, merger, consumerVars, executor>>

(* tx.send fails: the merger returns the error and drops batch_rx.         *)
MergeSendFailed ==
  /\ merger = "running"
  /\ outgoing # <<>>
  /\ consumer = "hungUp"
  /\ merger' = "failed"
  /\ batches' = <<>>
  /\ UNCHANGED <<workerVars, nextBatch, pending, outgoing, sent, consumerVars, executor>>

(* Every batch_tx is gone and the channel is drained.                      *)
MergeEnd ==
  /\ merger = "running"
  /\ outgoing = <<>>
  /\ batches = <<>>
  /\ executor = "joining"
  /\ merger' = "ok"
  /\ UNCHANGED <<workerVars, batches, nextBatch, pending, outgoing, sent, consumerVars,
                 executor>>
-----------------------------------------------------------------------------
(* rayon::scope returns; batch_tx is dropped on both paths out of it.      *)
WorkersReturned ==
  /\ executor = "working"
  /\ WorkersDone
  /\ executor' = "joining"
  /\ UNCHANGED <<workerVars, batches, mergerVars, sent, consumerVars>>

(* Mutant: the merger's result is looked at first.                         *)
ReturnMergerFirst ==
  /\ executor = "joining"
  /\ merger # "running"
  /\ executor' = IF merger = "failed" THEN "SendError"
                 ELSE IF errorSlot # NoError THEN "WorkerError" ELSE "Ok"
  /\ UNCHANGED <<workerVars, batches, mergerVars, sent, consumerVars>>

(* The thread scope has waited for the merger.  A worker's error is        *)
(* returned before the merger's result is looked at.                       *)
Return ==
  /\ executor = "joining"
  /\ merger # "running"
  /\ executor' = IF errorSlot # NoError THEN "WorkerError"
                 ELSE IF merger = "ok" THEN "Ok" ELSE "SendError"
  /\ UNCHANGED <<workerVars, batches, mergerVars, sent, consumerVars>>

ReceiveWindow ==
  /\ consumer = "receiving"
  /\ InFlight > 0
  /\ taken' = taken + 1
  /\ UNCHANGED <<workerVars, batches, mergerVars, sent, consumer, executor>>

(* The stream is drained and the merger has dropped tx.                    *)
EndOfStream ==
  /\ consumer = "receiving"
  /\ InFlight = 0
  /\ merger # "running"
  /\ consumer' = "ended"
  /\ UNCHANGED <<workerVars, batches, mergerVars, sent, taken, executor>>

(* The embedding side fails and drops the receiving end.                   *)
HangUp ==
  /\ consumer = "receiving"
  /\ consumer' = "hungUp"
  /\ UNCHANGED <<workerVars, batches, mergerVars, sent, taken, executor>>

Finished ==
  /\ executor \in Outcomes
  /\ consumer # "receiving"
  /\ UNCHANGED vars

WorkerNext(w) == ClaimTask(w) \/ FinishTask(w) \/ FailTask(w)

MergerNext == MergeBatch \/ MergeSend \/ MergeSendFailed \/ MergeEnd

ExecutorNext == WorkersReturned \/ Return

ConsumerNext == ReceiveWindow \/ EndOfStream

Next ==
  \/ \E w \in Workers : WorkerNext(w)
  \/ MergerNext
  \/ ExecutorNext
  \/ ConsumerNext
  \/ HangUp
  \/ Finished

Spec == Init /\ [][Next]_vars

(* Threads are scheduled, a prediction returns, and the consumer receives  *)
(* for as long as it holds its end.                                        *)
FairSpec ==
  /\ Spec
  /\ \A w \in Workers : WF_vars(WorkerNext(w))
  /\ WF_vars(MergerNext) /\ WF_vars(ExecutorNext) /\ WF_vars(ConsumerNext)
-----------------------------------------------------------------------------
TypeOK ==
  /\ nextTask \in Nat
  /\ working \in [Workers -> TaskIds \union {Free, Done}]
  /\ errorSlot \in TaskIds \union {NoError}
  /\ batches \in Seq(TaskIds)
  /\ merger \in {"running", "ok", "failed"}
  /\ nextBatch \in 0 .. TaskCount
  /\ pending \subseteq TaskIds
  /\ outgoing \in Seq(0 .. Total - 1)
  /\ sent \in Seq(0 .. Total - 1)
  /\ taken \in 0 .. Len(sent)
  /\ consumer = "receiving" => InFlight <= TxCapacity
  /\ consumer \in {"receiving", "ended", "hungUp"}
  /\ executor \in {"working", "joining"} \union Outcomes
  /\ failed \subseteq TaskIds

(* "Results are sent through tx in chunk_idx order": whatever order the    *)
(* workers finish in and whichever of them fail, the consumer receives     *)
(* windows 0, 1, 2, ... without a gap or a repetition.                     *)
WindowsInOrder == \A i \in 1 .. Len(sent) : sent[i] = i - 1

(* The outcome tells the truth: Ok means that every window was sent, a     *)
(* send error is reported only when the consumer hung up and nothing else  *)
(* went wrong, and a failed prediction is never masked by it.  A consumer  *)
(* that sees the stream end early can trust that run reports a failure: a  *)
(* short stream never looks like a short file.                             *)
OutcomeTruthful ==
  /\ executor = "Ok" => Len(sent) = Total /\ failed = {}
  /\ executor = "SendError" => consumer = "hungUp" /\ failed = {}
  /\ executor = "WorkerError" <=> executor \in Outcomes /\ failed # {}
  /\ consumer = "ended" /\ taken < Total => failed # {}

(* What keeps the windows in order: the merger holds the rest of one batch *)
(* that starts where the stream stands, and next_batch starts where that   *)
(* ends.  Which batches are pending, lost or still being predicted is of   *)
(* no consequence.                                                         *)
StartOf(b) == IF b \in TaskIds THEN Tasks[b].start ELSE Total

MergeInv ==
  /\ TypeOK
  /\ WindowsInOrder
  /\ \A i \in 1 .. Len(outgoing) : outgoing[i] = Len(sent) + i - 1
  /\ outgoing = <<>> => Len(sent) = StartOf(nextBatch)
  /\ outgoing # <<>> => /\ nextBatch \in TaskIds
                        /\ Len(sent) + Len(outgoing) = StartOf(nextBatch + 1)

(* The run returns and the stream is closed: with a slow consumer, with    *)
(* failing workers, and with a consumer that hangs up while the merger is  *)
(* blocked on it.                                                          *)
RunReturns == <>(executor \in Outcomes /\ consumer # "receiving")
=============================================================================
