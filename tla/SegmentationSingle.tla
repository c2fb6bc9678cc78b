------------------------- MODULE SegmentationSingle -------------------------
(***************************************************************************)
(* Parallel segmentation of one file, a window at a time                   *)
(* (inference/segmentation/parallel/single.rs, ParallelSingleExecutor).    *)
(* Every worker predicts one contiguous range of windows and sends them    *)
(* through an unbounded channel of its own; the merger empties the         *)
(* channels one after the other into the bounded channel `tx`.  A worker   *)
(* that fails closes its channel early, and the merger goes on with the    *)
(* next one: the stream then has a gap that its consumer cannot see.       *)
(***************************************************************************)
EXTENDS SegmentationPlan, Sequences

CONSTANTS
  Total,        \* windows of the file
  NumWorkers,   \* workers asked for
  TxCapacity,   \* capacity of the window channel
  MayFail       \* whether predicting or decoding a window may fail

ASSUME SizesAssumption ==
  /\ Total \in Nat \ {0}        \* run_streaming_parallel returns early on no window
  /\ NumWorkers \in Nat \ {0}   \* num_workers.max(1)
  /\ TxCapacity \in Nat \ {0}
ASSUME FailAssumption == MayFail \in BOOLEAN

Ranges == WorkerRanges(Total, NumWorkers)

WorkerCount == RangeCount(Total, NumWorkers)

Workers == 0 .. WorkerCount - 1

VARIABLES
  worker,     \* "running", "done" (channel closed), "failed" (closed early)
  next,       \* the window each worker predicts next
  results,    \* each worker's channel
  merger,     \* WorkerResultMerger::run: "running", "ok", "failed"
  reading,    \* the worker whose channel it reads
  sent,       \* history: every window sent through tx, in order
  taken,      \* how many of them the consumer has received
  consumer,   \* the receiving end of tx: "receiving", "ended", "hungUp"
  executor    \* "working", "joining" or an outcome

workerVars   == <<worker, next>>
mergerVars   == <<merger, reading>>
consumerVars == <<taken, consumer>>
vars == <<workerVars, results, mergerVars, sent, consumerVars, executor>>

Windows == 0 .. Total - 1

Outcomes == {"Ok", "WorkerError", "SendError"}

(* The error slot holds an error once a worker has recorded one.           *)
ErrorRecorded == \E w \in Workers : worker[w] = "failed"

InFlight == Len(sent) - taken
-----------------------------------------------------------------------------
Init ==
  /\ worker = [w \in Workers |-> "running"]
  /\ next = [w \in Workers |-> Ranges[w].start]
  /\ results = [w \in Workers |-> <<>>]
  /\ merger = "running" /\ reading = 0
  /\ sent = <<>>
  /\ taken = 0 /\ consumer = "receiving"
  /\ executor = "working"

(* A window is predicted and sent.  If the merger is gone the worker stops. *)
ProcessWindow(w) ==
  /\ worker[w] = "running" /\ next[w] < Ranges[w].end
  /\ \/ /\ merger = "running"
        /\ results' = [results EXCEPT ![w] = Append(@, next[w])]
        /\ next' = [next EXCEPT ![w] = @ + 1]
        /\ UNCHANGED worker
     \/ /\ merger = "failed"
        /\ worker' = [worker EXCEPT ![w] = "done"]
        /\ UNCHANGED <<results, next>>
  /\ UNCHANGED <<mergerVars, sent, consumerVars, executor>>

(* The range is finished; returning drops worker_tx.                       *)
FinishRange(w) ==
  /\ worker[w] = "running" /\ next[w] = Ranges[w].end
  /\ worker' = [worker EXCEPT ![w] = "done"]
  /\ UNCHANGED <<next, results, mergerVars, sent, consumerVars, executor>>

(* process_window fails: the error is recorded and worker_tx is dropped.   *)
FailWindow(w) ==
  /\ MayFail
  /\ worker[w] = "running" /\ next[w] < Ranges[w].end
  /\ worker' = [worker EXCEPT ![w] = "failed"]
  /\ UNCHANGED <<next, results, mergerVars, sent, consumerVars, executor>>
-----------------------------------------------------------------------------
(* Mutant: whichever channel has a result is read.                         *)
MergeSendAny ==
  /\ merger = "running"
  /\ consumer = "receiving" /\ InFlight < TxCapacity
  /\ \E w \in Workers :
       /\ w >= reading /\ results[w] # <<>>
       /\ sent' = Append(sent, Head(results[w]))
       /\ results' = [results EXCEPT ![w] = Tail(@)]
  /\ UNCHANGED <<workerVars, mergerVars, consumerVars, executor>>

(* One result of the channel being read is sent on.                        *)
MergeSend ==
  /\ merger = "running" /\ reading \in Workers
  /\ results[reading] # <<>>
  /\ consumer = "receiving" /\ InFlight < TxCapacity
  /\ sent' = Append(sent, Head(results[reading]))
  /\ results' = [results EXCEPT ![reading] = Tail(@)]
  /\ UNCHANGED <<workerVars, mergerVars, consumerVars, executor>>

(* tx.send fails: the merger returns and drops every worker's receiver.    *)
MergeSendFailed ==
  /\ merger = "running" /\ reading \in Workers
  /\ results[reading] # <<>>
  /\ consumer = "hungUp"
  /\ merger' = "failed"
  /\ results' = [w \in Workers |-> <<>>]
  /\ UNCHANGED <<workerVars, reading, sent, consumerVars, executor>>

(* Mutant: try_recv in place of recv: an empty channel is left at once.    *)
MergeNextEager ==
  /\ merger = "running" /\ reading \in Workers
  /\ results[reading] = <<>>
  /\ reading' = reading + 1
  /\ UNCHANGED <<workerVars, results, merger, sent, consumerVars, executor>>

(* Mutant: the pool keeps the senders until the executor has returned.     *)
MergeNextLeaked ==
  /\ merger = "running" /\ reading \in Workers
  /\ results[reading] = <<>> /\ executor \in Outcomes
  /\ reading' = reading + 1
  /\ UNCHANGED <<workerVars, results, merger, sent, consumerVars, executor>>

(* The channel is closed and drained: the merger turns to the next one.    *)
MergeNext ==
  /\ merger = "running" /\ reading \in Workers
  /\ results[reading] = <<>> /\ worker[reading] # "running"
  /\ reading' = reading + 1
  /\ UNCHANGED <<workerVars, results, merger, sent, consumerVars, executor>>

MergeEnd ==
  /\ merger = "running" /\ reading = WorkerCount
  /\ merger' = "ok"
  /\ UNCHANGED <<workerVars, results, reading, sent, consumerVars, executor>>
-----------------------------------------------------------------------------
(* rayon::scope returns.                                                   *)
WorkersReturned ==
  /\ executor = "working"
  /\ \A w \in Workers : worker[w] # "running"
  /\ executor' = "joining"
  /\ UNCHANGED <<workerVars, results, mergerVars, sent, consumerVars>>

(* Mutant: only the merger's result is looked at.                          *)
ReturnMergerOnly ==
  /\ executor = "joining" /\ merger # "running"
  /\ executor' = IF merger = "ok" THEN "Ok" ELSE "SendError"
  /\ UNCHANGED <<workerVars, results, mergerVars, sent, consumerVars>>

(* The scope has waited for the merger; a worker's error goes first.       *)
Return ==
  /\ executor = "joining" /\ merger # "running"
  /\ executor' = IF ErrorRecorded THEN "WorkerError"
                 ELSE IF merger = "ok" THEN "Ok" ELSE "SendError"
  /\ UNCHANGED <<workerVars, results, mergerVars, sent, consumerVars>>

ReceiveWindow ==
  /\ consumer = "receiving" /\ InFlight > 0
  /\ taken' = taken + 1
  /\ UNCHANGED <<workerVars, results, mergerVars, sent, consumer, executor>>

(* The stream is drained and the merger has dropped tx.                    *)
EndOfStream ==
  /\ consumer = "receiving" /\ InFlight = 0
  /\ merger # "running"
  /\ consumer' = "ended"
  /\ UNCHANGED <<workerVars, results, mergerVars, sent, taken, executor>>

(* The embedding side fails and drops the receiving end.                   *)
HangUp ==
  /\ consumer = "receiving"
  /\ consumer' = "hungUp"
  /\ UNCHANGED <<workerVars, results, mergerVars, sent, taken, executor>>

Finished ==
  /\ executor \in Outcomes /\ consumer # "receiving"
  /\ UNCHANGED vars

WorkerNext(w) == ProcessWindow(w) \/ FinishRange(w) \/ FailWindow(w)
MergerNext == MergeSend \/ MergeSendFailed \/ MergeNext \/ MergeEnd
ExecutorNext == WorkersReturned \/ Return
ConsumerNext == ReceiveWindow \/ EndOfStream

Next ==
  \/ \E w \in Workers : WorkerNext(w)
  \/ MergerNext \/ ExecutorNext \/ ConsumerNext \/ HangUp
  \/ Finished

Spec == Init /\ [][Next]_vars

(* Threads are scheduled, a prediction returns, and the consumer receives  *)
(* for as long as it holds its end.                                        *)
FairSpec ==
  /\ Spec
  /\ \A w \in Workers : WF_vars(WorkerNext(w))
  /\ WF_vars(MergerNext) /\ WF_vars(ExecutorNext) /\ WF_vars(ConsumerNext)
-----------------------------------------------------------------------------
TypeOK ==
  /\ worker \in [Workers -> {"running", "done", "failed"}]
  /\ next \in [Workers -> 0 .. Total]
  /\ results \in [Workers -> Seq(Windows)]
  /\ merger \in {"running", "ok", "failed"}
  /\ reading \in 0 .. WorkerCount
  /\ sent \in Seq(Windows)
  /\ taken \in 0 .. Len(sent)
  /\ consumer \in {"receiving", "ended", "hungUp"}
  /\ consumer = "receiving" => InFlight <= TxCapacity
  /\ executor \in {"working", "joining"} \union Outcomes

(* "Results are sent through tx in chunk_idx order": whatever the workers  *)
(* do, the stream never steps back and never repeats a window.             *)
StreamIncreasing ==
  \A i, j \in 1 .. Len(sent) : i < j => sent[i] < sent[j]

(* The consumer counts windows as they arrive, so a window after a gap     *)
(* lands in the wrong place.  Whenever that has happened, or the stream    *)
(* has ended short, an error is recorded that the call will return: a      *)
(* displaced window never belongs to a successful result.                  *)
DisplacedMeansFailure ==
  (\E i \in 1 .. Len(sent) : sent[i] # i - 1) \/ (consumer = "ended" /\ taken < Total)
    => ErrorRecorded

(* Ok means that every window was sent, in its place; a failed prediction  *)
(* is never masked by the hang-up of the consumer it may have caused.      *)
OutcomeTruthful ==
  /\ executor = "Ok" => Len(sent) = Total /\ \A i \in 1 .. Total : sent[i] = i - 1
  /\ executor = "SendError" => consumer = "hungUp"
  /\ executor \in Outcomes => (executor = "WorkerError" <=> ErrorRecorded)

(* The run returns and the stream is closed, whoever fails or hangs up.    *)
RunReturns == <>(executor \in Outcomes /\ consumer # "receiving")
-----------------------------------------------------------------------------
(* Where the stream stands: every window sent so far is below the first    *)
(* one that is still to come from the channel being read.                  *)
Frontier == IF reading \in Workers THEN next[reading] - Len(results[reading]) ELSE Total

(* A channel holds the windows its worker predicted last; the channels     *)
(* behind the one being read have not been touched.                        *)
ChannelConsecutive(w) ==
  /\ next[w] \in Ranges[w].start .. Ranges[w].end
  /\ merger # "failed" =>
       /\ worker[w] = "done" => next[w] = Ranges[w].end
       /\ Len(results[w]) <= next[w] - Ranges[w].start
       /\ \A i \in 1 .. Len(results[w]) : results[w][i] = next[w] - Len(results[w]) + i - 1
       /\ w > reading => Len(results[w]) = next[w] - Ranges[w].start
       /\ w < reading => worker[w] # "running"

ChannelsConsecutive == \A w \in Workers : ChannelConsecutive(w)

StreamBelowFrontier ==
  merger # "failed" => \A i \in 1 .. Len(sent) : sent[i] < Frontier

StreamExact ==
  ~ErrorRecorded => /\ \A i \in 1 .. Len(sent) : sent[i] = i - 1
                    /\ merger # "failed" => Len(sent) = Frontier

(* Outcomes are decided when no worker and no merger is left to change     *)
(* what they say.                                                          *)
OutcomeDecided ==
  /\ executor # "working" => \A w \in Workers : worker[w] # "running"
  /\ executor \in Outcomes => (executor = "WorkerError" <=> ErrorRecorded)
  /\ executor = "Ok" => merger = "ok"
  /\ executor = "SendError" => merger = "failed"

(* Why the stream and the outcome are what the properties above say; the   *)
(* theorems are in SegmentationSingleProofs.tla.                           *)
SingleInv ==
  /\ TypeOK
  /\ StreamIncreasing
  /\ ChannelsConsecutive
  /\ StreamBelowFrontier
  /\ StreamExact
  /\ merger = "ok" => reading = WorkerCount
  /\ merger = "failed" => consumer = "hungUp"
  /\ consumer = "ended" => merger = "ok" /\ taken = Len(sent)
  /\ OutcomeDecided
=============================================================================
