------------------------- MODULE SegmentationProofs -------------------------
(***************************************************************************)
(* Theorems about parallel batched segmentation: the windows reach the     *)
(* embedding side in order for every number of workers and every plan.     *)
(***************************************************************************)
EXTENDS SegmentationBatch, AlgorithmProofs

(* What the state machine needs to know of its tasks.                      *)
LEMMA PlanFacts ==
  /\ TaskCount \in Nat /\ TaskCount > 0
  /\ TaskIds = 0 .. TaskCount - 1
  /\ StartOf(0) = 0
  /\ \A b \in TaskIds :
       /\ Tasks[b].start \in 0 .. Total - 1 /\ Tasks[b].end \in 1 .. Total
       /\ Tasks[b].start < Tasks[b].end
       /\ StartOf(b) = Tasks[b].start /\ StartOf(b + 1) = Tasks[b].end
  <1>1. Partitions(Tasks, TaskCount, Total)
    BY UniformPartition, WarmStartPartition, SizesAssumption DEF Tasks, TaskCount
  <1>2. TaskCount \in Nat
    <2>1. CeilDiv(Total, BatchSize) \in Nat
      BY CeilDivBounds, SizesAssumption
    <2>2. SmallTasks(Total, WarmWindows, SmallBatch) \in Nat
          /\ LargeFrom(Total, WarmWindows, SmallBatch) \in 0 .. Total
      BY SmallBatches, SizesAssumption
    <2>3. Total - LargeFrom(Total, WarmWindows, SmallBatch) \in Nat
      BY <2>2, SizesAssumption
    <2>4. CeilDiv(Total - LargeFrom(Total, WarmWindows, SmallBatch), BatchSize) \in Nat
      BY <2>3, CeilDivBounds, SizesAssumption
    <2> QED
      BY <2>1, <2>2, <2>4 DEF TaskCount
  <1>3. TaskIds = 0 .. TaskCount - 1
    BY <1>1 DEF Partitions, TaskIds
  <1>4. TaskCount > 0
    BY <1>1, <1>2, SizesAssumption DEF Partitions
  <1>5. \A b \in TaskIds : NonEmpty(Tasks[b], Total)
    BY <1>1, <1>3 DEF Partitions
  <1>6. StartOf(0) = 0
    BY <1>1, <1>2, <1>3, <1>4 DEF Partitions, StartOf
  <1>7. \A b \in TaskIds : StartOf(b + 1) = Tasks[b].end
    <2> TAKE b \in TaskIds
    <2>1. CASE b = TaskCount - 1
      <3>1. b + 1 \notin TaskIds
        BY <1>2, <1>3, <2>1
      <3> QED
        BY <1>1, <1>4, <2>1, <3>1 DEF Partitions, StartOf
    <2>2. CASE b # TaskCount - 1
      <3>1. b + 1 \in TaskIds /\ b + 1 \in 1 .. TaskCount - 1 /\ (b + 1) - 1 = b
        BY <1>2, <1>3, <2>2
      <3> QED
        BY <1>1, <3>1 DEF Partitions, StartOf
    <2> QED
      BY <2>1, <2>2
  <1> QED
    BY <1>2, <1>3, <1>4, <1>5, <1>6, <1>7 DEF NonEmpty, StartOf

LEMMA FunctionIsSeq ==
  ASSUME NEW S, NEW n \in Nat, NEW f \in [1 .. n -> S]
  PROVE  f \in Seq(S) /\ Len(f) = n
  OBVIOUS

(* The windows of a batch, in the order in which they are sent.            *)
LEMMA TaskWindowsFacts ==
  ASSUME NEW b \in TaskIds
  PROVE  /\ TaskWindows(b) \in Seq(0 .. Total - 1)
         /\ Len(TaskWindows(b)) \in Nat \ {0}
         /\ Len(TaskWindows(b)) = StartOf(b + 1) - StartOf(b)
         /\ \A i \in 1 .. Len(TaskWindows(b)) : TaskWindows(b)[i] = StartOf(b) + i - 1
         /\ TaskWindows(b) # <<>>
  <1> DEFINE n == Tasks[b].end - Tasks[b].start
  <1>1. n \in Nat \ {0} /\ Tasks[b].start + n <= Total /\ Tasks[b].start \in Nat
    BY PlanFacts, SizesAssumption
  <1>2. TaskWindows(b) \in [1 .. n -> 0 .. Total - 1]
    BY <1>1, SizesAssumption DEF TaskWindows
  <1>3. TaskWindows(b) \in Seq(0 .. Total - 1) /\ Len(TaskWindows(b)) = n
    <2> HIDE DEF n
    <2> QED
      BY <1>1, <1>2, FunctionIsSeq
  <1>4. \A i \in 1 .. n : TaskWindows(b)[i] = Tasks[b].start + i - 1
    BY DEF TaskWindows
  <1>5. TaskWindows(b) # <<>>
    <2> HIDE DEF n
    <2> QED
      BY <1>1, <1>3, EmptySeq
  <1> QED
    BY <1>1, <1>3, <1>4, <1>5, PlanFacts

LEMMA MergeInvInit ==
  ASSUME Init
  PROVE  MergeInv
  <1>1. TypeOK
    BY PlanFacts, EmptyFacts, SizesAssumption
       DEF Init, TypeOK, InFlight, NoError, Free
  <1>2. Len(sent) = 0 /\ Len(outgoing) = 0 /\ Len(sent) = StartOf(nextBatch)
    BY PlanFacts, EmptyFacts DEF Init
  <1> QED
    BY <1>1, <1>2 DEF MergeInv, WindowsInOrder, Init

(* The workers do not touch what the merger has sent or is sending.        *)
LEMMA WorkerMergeInv ==
  ASSUME MergeInv, NEW w \in Workers, WorkerNext(w)
  PROVE  MergeInv'
  <1> USE DEF mergerVars, consumerVars
  <1>1. TypeOK
    BY DEF MergeInv
  <1>2. UNCHANGED <<nextBatch, outgoing, sent>>
    BY DEF WorkerNext, ClaimTask, FinishTask, FailTask
  <1>3. TypeOK'
    <2> USE DEF TypeOK, InFlight
    <2>1. CASE ClaimTask(w)
      BY <1>1, <2>1 DEF ClaimTask
    <2>2. CASE FinishTask(w)
      <3>1. batches' \in Seq(TaskIds)
        <4>1. working[w] \in TaskIds /\ batches \in Seq(TaskIds)
          BY <1>1, <2>2 DEF FinishTask
        <4>2. Append(batches, working[w]) \in Seq(TaskIds)
          BY <4>1, AppendFacts
        <4> QED
          BY <2>2, <4>1, <4>2 DEF FinishTask
      <3> QED
        BY <1>1, <2>2, <3>1 DEF FinishTask
    <2>3. CASE FailTask(w)
      BY <1>1, <2>3 DEF FailTask
    <2> QED
      BY <2>1, <2>2, <2>3 DEF WorkerNext
  <1> QED
    BY <1>2, <1>3 DEF MergeInv, WindowsInOrder, StartOf

(* Neither do the executor and the consumer.                               *)
LEMMA OtherMergeInv ==
  ASSUME MergeInv, ExecutorNext \/ ConsumerNext \/ HangUp \/ Finished \/ UNCHANGED vars
  PROVE  MergeInv'
  <1> USE DEF workerVars, mergerVars, consumerVars, vars
  <1>1. TypeOK
    BY DEF MergeInv
  <1>2. UNCHANGED <<nextBatch, outgoing, sent>>
    BY DEF ExecutorNext, WorkersReturned, Return, ConsumerNext, ReceiveWindow, EndOfStream,
           HangUp, Finished
  <1>3. TypeOK'
    <2> USE DEF TypeOK, InFlight
    <2>1. CASE WorkersReturned
      BY <1>1, <2>1 DEF WorkersReturned
    <2>2. CASE Return
      BY <1>1, <2>2 DEF Return, Outcomes
    <2>3. CASE ReceiveWindow
      <3>1. Len(sent) \in Nat
        BY <1>1
      <3> QED
        BY <1>1, <2>3, <3>1, SizesAssumption DEF ReceiveWindow
    <2>4. CASE EndOfStream
      BY <1>1, <2>4 DEF EndOfStream
    <2>5. CASE HangUp
      BY <1>1, <2>5 DEF HangUp
    <2>6. CASE Finished \/ UNCHANGED vars
      BY <1>1, <2>6 DEF Finished
    <2> QED
      BY <2>1, <2>2, <2>3, <2>4, <2>5, <2>6 DEF ExecutorNext, ConsumerNext
  <1> QED
    BY <1>2, <1>3 DEF MergeInv, WindowsInOrder, StartOf

(* A batch that is taken up starts where the stream stands.                *)
LEMMA MergeBatchInv ==
  ASSUME MergeInv, MergeBatch
  PROVE  MergeInv'
  <1>1. TypeOK /\ WindowsInOrder /\ Len(sent) = StartOf(nextBatch)
    BY DEF MergeInv, MergeBatch
  <1>2. /\ batches' \in Seq(TaskIds)
        /\ pending \union {Head(batches)} \subseteq TaskIds
    BY <1>1, TailFacts DEF MergeBatch, TypeOK
  <1>3. /\ UNCHANGED <<workerVars, merger, nextBatch, sent, consumerVars, executor>>
        /\ pending' \subseteq TaskIds
    BY <1>2 DEF MergeBatch
  <1>4. \/ outgoing' = <<>>
        \/ nextBatch \in TaskIds /\ outgoing' = TaskWindows(nextBatch)
    BY <1>2 DEF MergeBatch
  <1>5. CASE outgoing' = <<>>
    <2>1. TypeOK'
      BY <1>1, <1>2, <1>3, <1>5, EmptyFacts DEF TypeOK, workerVars, consumerVars, InFlight
    <2>2. Len(outgoing') = 0
      BY <1>5
    <2> QED
      BY <1>1, <1>3, <1>5, <2>1, <2>2 DEF MergeInv, WindowsInOrder, StartOf
  <1>6. CASE nextBatch \in TaskIds /\ outgoing' = TaskWindows(nextBatch)
    <2>1. /\ outgoing' \in Seq(0 .. Total - 1) /\ outgoing' # <<>>
          /\ Len(outgoing') \in Nat
          /\ Len(outgoing') = StartOf(nextBatch + 1) - StartOf(nextBatch)
          /\ \A i \in 1 .. Len(outgoing') : outgoing'[i] = StartOf(nextBatch) + i - 1
      BY <1>6, TaskWindowsFacts
    <2>2. TypeOK'
      BY <1>1, <1>2, <1>3, <2>1 DEF TypeOK, workerVars, consumerVars, InFlight
    <2>3. StartOf(nextBatch) \in Nat /\ StartOf(nextBatch + 1) \in Nat
      BY <1>6, PlanFacts, SizesAssumption
    <2>4. Len(sent) + Len(outgoing') = StartOf(nextBatch + 1)
      BY <1>1, <2>1, <2>3
    <2>5. sent' = sent /\ nextBatch' = nextBatch
      BY <1>3
    <2> QED
      BY <1>1, <1>6, <2>1, <2>2, <2>4, <2>5 DEF MergeInv, WindowsInOrder, StartOf
  <1> QED
    BY <1>4, <1>5, <1>6

(* The window that is sent is the next one of the stream.                  *)
LEMMA MergeSendInv ==
  ASSUME MergeInv, MergeSend
  PROVE  MergeInv'
  <1>1. /\ TypeOK /\ WindowsInOrder /\ outgoing # <<>>
        /\ \A i \in 1 .. Len(outgoing) : outgoing[i] = Len(sent) + i - 1
        /\ nextBatch \in TaskIds
        /\ Len(sent) + Len(outgoing) = StartOf(nextBatch + 1)
    BY DEF MergeInv, MergeSend
  <1>2. /\ sent \in Seq(0 .. Total - 1) /\ outgoing \in Seq(0 .. Total - 1)
        /\ Len(sent) \in Nat /\ pending \subseteq TaskIds
    BY <1>1 DEF TypeOK
  <1>3. /\ Len(outgoing) \in Nat /\ Len(outgoing) >= 1
        /\ Head(outgoing) \in 0 .. Total - 1 /\ Head(outgoing) = Len(sent)
        /\ Tail(outgoing) \in Seq(0 .. Total - 1)
        /\ Len(Tail(outgoing)) = Len(outgoing) - 1
        /\ \A i \in 1 .. Len(outgoing) - 1 : Tail(outgoing)[i] = outgoing[i + 1]
    <2>1. Head(outgoing) = outgoing[1] /\ Len(outgoing) \in Nat /\ Len(outgoing) >= 1
      BY <1>1, <1>2, TailFacts
    <2>2. outgoing[1] = Len(sent)
      BY <1>1, <1>2, <2>1
    <2> QED
      BY <1>1, <1>2, <2>1, <2>2, TailFacts
  <1>4. sent' = Append(sent, Head(outgoing))
    BY DEF MergeSend
  <1>5. /\ sent' \in Seq(0 .. Total - 1) /\ Len(sent') = Len(sent) + 1
        /\ \A i \in 1 .. Len(sent) : sent'[i] = sent[i]
        /\ sent'[Len(sent) + 1] = Len(sent)
    BY <1>2, <1>3, <1>4, AppendFacts
  <1>6. WindowsInOrder'
    <2> SUFFICES ASSUME NEW i \in 1 .. Len(sent')
                 PROVE  sent'[i] = i - 1
      BY DEF WindowsInOrder
    <2>1. CASE i \in 1 .. Len(sent)
      BY <1>1, <1>5, <2>1 DEF WindowsInOrder
    <2>2. CASE i = Len(sent) + 1
      BY <1>2, <1>5, <2>2
    <2> QED
      BY <1>2, <1>5, <2>1, <2>2
  <1>7. /\ UNCHANGED <<workerVars, batches, merger, consumerVars, executor>>
        /\ InFlight < TxCapacity /\ consumer = "receiving"
    BY DEF MergeSend
  <1>8. taken' \in 0 .. Len(sent') /\ InFlight' <= TxCapacity
    BY <1>1, <1>2, <1>5, <1>7, SizesAssumption, SMTT(20) DEF TypeOK, InFlight, consumerVars
  <1>9. ASSUME nextBatch' \in 0 .. TaskCount, pending' \subseteq TaskIds,
               outgoing' \in Seq(0 .. Total - 1)
        PROVE  TypeOK'
    BY <1>1, <1>5, <1>7, <1>8, <1>9 DEF TypeOK, workerVars, consumerVars
  <1>10. nextBatch \in 0 .. TaskCount - 1 /\ nextBatch + 1 \in 0 .. TaskCount
    BY <1>1, PlanFacts
  <1>11. CASE Len(outgoing) > 1
    <2>1. outgoing' = Tail(outgoing) /\ nextBatch' = nextBatch /\ pending' = pending
      BY <1>11 DEF MergeSend
    <2>2. TypeOK'
      BY <1>1, <1>3, <1>9, <2>1 DEF TypeOK
    <2>3. \A i \in 1 .. Len(outgoing') : outgoing'[i] = Len(sent') + i - 1
      BY <1>1, <1>2, <1>3, <1>5, <2>1
    <2>4. outgoing' # <<>> /\ Len(sent') + Len(outgoing') = StartOf(nextBatch + 1)
      <3>1. Len(outgoing') = Len(outgoing) - 1 /\ Len(outgoing') > 0
        BY <1>3, <1>11, <2>1
      <3>2. Len(sent') + Len(outgoing') = Len(sent) + Len(outgoing)
        BY <1>2, <1>3, <1>5, <3>1
      <3>3. outgoing' # <<>>
        BY <3>1, EmptyFacts
      <3> QED
        BY <1>1, <3>2, <3>3
    <2> QED
      BY <1>1, <1>6, <2>1, <2>2, <2>3, <2>4 DEF MergeInv, StartOf
  <1>12. CASE Len(outgoing) = 1
    <2>1. Len(sent') = StartOf(nextBatch + 1)
      BY <1>1, <1>2, <1>5, <1>12
    <2>2. nextBatch' = nextBatch + 1
      BY <1>12 DEF MergeSend
    <2>3. \/ outgoing' = <<>> /\ pending' = pending
          \/ /\ nextBatch + 1 \in TaskIds /\ outgoing' = TaskWindows(nextBatch + 1)
             /\ pending' \subseteq TaskIds
      BY <1>2, <1>12 DEF MergeSend
    <2>4. CASE outgoing' = <<>> /\ pending' = pending
      <3>1. TypeOK'
        BY <1>2, <1>9, <1>10, <2>2, <2>4, EmptyFacts
      <3>2. Len(outgoing') = 0
        BY <2>4
      <3> QED
        BY <1>6, <2>1, <2>2, <2>4, <3>1, <3>2 DEF MergeInv, StartOf
    <2>5. CASE /\ nextBatch + 1 \in TaskIds /\ outgoing' = TaskWindows(nextBatch + 1)
               /\ pending' \subseteq TaskIds
      <3> DEFINE b == nextBatch + 1
      <3>1. /\ outgoing' \in Seq(0 .. Total - 1) /\ outgoing' # <<>>
            /\ Len(outgoing') \in Nat
            /\ Len(outgoing') = StartOf(b + 1) - StartOf(b)
            /\ \A i \in 1 .. Len(outgoing') : outgoing'[i] = StartOf(b) + i - 1
        BY <2>5, TaskWindowsFacts
      <3>2. TypeOK'
        BY <1>9, <1>10, <2>2, <2>5, <3>1
      <3>3. StartOf(b) \in Nat /\ StartOf(b + 1) \in Nat
        BY <2>5, PlanFacts, SizesAssumption, SMTT(20)
      <3>4. Len(sent') + Len(outgoing') = StartOf(b + 1)
        BY <2>1, <3>1, <3>3
      <3>5. nextBatch' = b
        BY <2>2
      <3> HIDE DEF b
      <3>6. b \in TaskIds /\ Len(sent') = StartOf(b)
        BY <2>1, <2>5 DEF b
      <3> QED
        BY <1>6, <3>1, <3>2, <3>4, <3>5, <3>6 DEF MergeInv, StartOf
    <2> QED
      BY <2>3, <2>4, <2>5
  <1> QED
    BY <1>3, <1>11, <1>12

LEMMA MergeStopInv ==
  ASSUME MergeInv, MergeSendFailed \/ MergeEnd
  PROVE  MergeInv'
  <1>1. TypeOK
    BY DEF MergeInv
  <1>2. /\ UNCHANGED <<workerVars, nextBatch, pending, outgoing, sent, consumerVars, executor>>
        /\ merger' \in {"running", "ok", "failed"}
    BY DEF MergeSendFailed, MergeEnd
  <1>3. batches' \in Seq(TaskIds)
    BY <1>1, EmptyFacts DEF MergeSendFailed, MergeEnd, TypeOK
  <1>4. TypeOK'
    BY <1>1, <1>2, <1>3 DEF TypeOK, workerVars, consumerVars, InFlight
  <1> QED
    BY <1>2, <1>4 DEF MergeInv, WindowsInOrder, StartOf

THEOREM MergeInvariant == Spec => []MergeInv
  <1>1. Init => MergeInv
    BY MergeInvInit
  <1>2. MergeInv /\ [Next]_vars => MergeInv'
    BY WorkerMergeInv, MergeBatchInv, MergeSendInv, MergeStopInv, OtherMergeInv
       DEF Next, MergerNext
  <1> QED
    BY <1>1, <1>2, PTL DEF Spec

(* Whatever order the workers finish in and whichever fail, the embedding  *)
(* side receives windows 0, 1, 2, ... for every number of workers, plan    *)
(* and channel capacity.                                                   *)
THEOREM StreamInOrder == Spec => []WindowsInOrder
  <1>1. MergeInv => WindowsInOrder
    BY DEF MergeInv
  <1> QED
    BY <1>1, MergeInvariant, PTL
-----------------------------------------------------------------------------
(* The outcome.                                                            *)

(* Where a claimed task can be: with a worker, on its way to the merger,   *)
(* waiting for its turn, sent, being sent, failed, or lost with a merger   *)
(* whose consumer hung up.                                                 *)
AccountedFor(b) ==
  \/ \E w \in Workers : working[w] = b
  \/ \E i \in 1 .. Len(batches) : batches[i] = b
  \/ b \in pending
  \/ b < nextBatch
  \/ b = nextBatch /\ outgoing # <<>>
  \/ b \in failed
  \/ merger = "failed"

(* Nobody stops early without a reason, and no claimed task disappears.    *)
TasksInv ==
  /\ outgoing = <<>> => nextBatch \notin pending
  /\ \A w \in Workers : working[w] = Done =>
       nextTask >= TaskCount \/ failed # {} \/ merger = "failed"
  /\ \A b \in TaskIds : b < nextTask => AccountedFor(b)

(* The order in which the three sides end, and what each may then be sure  *)
(* of.                                                                     *)
EndsInv ==
  /\ errorSlot = NoError <=> failed = {}
  /\ executor # "working" => WorkersDone
  /\ merger = "failed" => consumer = "hungUp"
  /\ merger = "ok" => executor # "working" /\ outgoing = <<>> /\ batches = <<>>
  /\ consumer = "ended" => merger = "ok" /\ taken = Len(sent)
  /\ executor = "Ok" => merger = "ok" /\ failed = {}
  /\ executor = "SendError" => merger = "failed" /\ failed = {}
  /\ executor = "WorkerError" => failed # {}

OutcomeInv == MergeInv /\ TasksInv /\ EndsInv

(* Task numbers are not the marks of an idle or a finished worker.         *)
LEMMA TaskNumbers == \A b \in TaskIds : b \in Nat /\ b < TaskCount /\ b # Free /\ b # Done
  BY PlanFacts DEF Free, Done

LEMMA OutcomeInit ==
  ASSUME Init
  PROVE  OutcomeInv
  <1>1. MergeInv
    BY MergeInvInit
  <1>2. TasksInv
    BY TaskNumbers DEF Init, TasksInv, Free, Done
  <1>3. EndsInv
    BY DEF Init, EndsInv
  <1> QED
    BY <1>1, <1>2, <1>3 DEF OutcomeInv

(* A step of a worker: it passes its task on, or stops and says why.       *)
LEMMA WorkerOutcome ==
  ASSUME OutcomeInv, NEW w \in Workers, WorkerNext(w)
  PROVE  TasksInv' /\ EndsInv'
  <1>1. TypeOK /\ TasksInv /\ EndsInv
    BY DEF OutcomeInv, MergeInv
  <1>2. /\ UNCHANGED <<merger, nextBatch, pending, outgoing, sent, taken, consumer, executor>>
        /\ working[w] # Done
    BY TaskNumbers DEF WorkerNext, ClaimTask, FinishTask, FailTask, mergerVars, consumerVars,
                       Free, Done
  <1>3. executor = "working" /\ merger # "ok"
    BY <1>1, <1>2 DEF EndsInv, WorkersDone
  <1>4. /\ working \in [Workers -> TaskIds \union {Free, Done}]
        /\ nextTask \in Nat /\ TaskCount \in Nat
        /\ merger \in {"running", "failed"}
    BY <1>1, <1>3, PlanFacts DEF TypeOK
  <1>5. CASE ClaimTask(w)
    <2>1. /\ working[w] = Free /\ nextTask' = nextTask + 1
          /\ working' = [working EXCEPT ![w] = IF nextTask \in TaskIds THEN nextTask ELSE Done]
          /\ UNCHANGED <<errorSlot, failed, batches>>
      BY <1>5 DEF ClaimTask
    <2>2. /\ working'[w] = IF nextTask \in TaskIds THEN nextTask ELSE Done
          /\ \A v \in Workers \ {w} : working'[v] = working[v]
      BY <1>4, <2>1
    <2>3. ASSUME NEW v \in Workers, working'[v] = Done
          PROVE  nextTask' >= TaskCount \/ failed' # {} \/ merger' = "failed"
      <3>1. CASE v = w
        <4>1. nextTask \notin TaskIds
          BY <2>2, <2>3, <3>1, TaskNumbers
        <4> QED
          BY <1>4, <2>1, <4>1, PlanFacts
      <3>2. CASE v # w
        BY <1>1, <1>2, <1>4, <2>1, <2>2, <2>3, <3>2 DEF TasksInv
      <3> QED
        BY <3>1, <3>2
    <2>4. ASSUME NEW b \in TaskIds, b < nextTask'
          PROVE  AccountedFor(b)'
      <3>1. CASE b = nextTask
        BY <2>2, <3>1 DEF AccountedFor
      <3>2. CASE b # nextTask
        <4>1. AccountedFor(b)
          BY <1>1, <1>4, <2>1, <2>4, <3>2, TaskNumbers DEF TasksInv
        <4>2. \A v \in Workers : working[v] = b => working'[v] = b
          BY <2>1, <2>2, TaskNumbers
        <4> QED
          BY <1>2, <2>1, <4>1, <4>2 DEF AccountedFor
      <3> QED
        BY <3>1, <3>2
    <2>5. EndsInv'
      BY <1>1, <1>2, <1>3, <2>1 DEF EndsInv
    <2> QED
      BY <1>1, <1>2, <2>3, <2>4, <2>5 DEF TasksInv
  <1>6. CASE FinishTask(w)
    <2>1. /\ working[w] \in TaskIds
          /\ UNCHANGED <<nextTask, errorSlot, failed>>
          /\ \A v \in Workers \ {w} : working'[v] = working[v]
      BY <1>4, <1>6 DEF FinishTask
    <2>2. batches \in Seq(TaskIds)
      BY <1>1 DEF TypeOK
    <2>3. CASE merger = "running"
      <3>1. working'[w] = Free /\ batches' = Append(batches, working[w])
        BY <1>4, <1>6, <2>3 DEF FinishTask
      <3>2. /\ Len(batches') = Len(batches) + 1 /\ Len(batches) \in Nat
            /\ \A i \in 1 .. Len(batches) : batches'[i] = batches[i]
            /\ batches'[Len(batches) + 1] = working[w]
        BY <2>1, <2>2, <3>1, AppendFacts, LenProperties
      <3>3. ASSUME NEW b \in TaskIds, b < nextTask'
            PROVE  AccountedFor(b)'
        <4>1. AccountedFor(b)
          BY <1>1, <2>1, <3>3 DEF TasksInv
        <4>2. CASE b = working[w]
          BY <3>2, <4>2 DEF AccountedFor
        <4>3. CASE \E i \in 1 .. Len(batches) : batches[i] = b
          BY <3>2, <4>3 DEF AccountedFor
        <4>4. CASE b # working[w] /\ ~\E i \in 1 .. Len(batches) : batches[i] = b
          BY <1>2, <2>1, <4>1, <4>4 DEF AccountedFor
        <4> QED
          BY <4>2, <4>3, <4>4
      <3>4. \A v \in Workers : working'[v] = Done => working[v] = Done
        BY <2>1, <3>1 DEF Free, Done
      <3>5. EndsInv'
        BY <1>1, <1>2, <1>3, <2>1, <2>3 DEF EndsInv
      <3> QED
        BY <1>1, <1>2, <2>1, <3>3, <3>4, <3>5 DEF TasksInv
    <2>4. CASE merger = "failed"
      <3>1. batches' = batches
        BY <1>6, <2>4 DEF FinishTask
      <3>2. EndsInv'
        BY <1>1, <1>2, <1>3, <2>1, <2>4, <3>1 DEF EndsInv
      <3>3. TasksInv'
        BY <1>1, <1>2, <2>4 DEF TasksInv, AccountedFor
      <3> QED
        BY <3>2, <3>3
    <2> QED
      BY <1>4, <2>3, <2>4
  <1>7. CASE FailTask(w)
    <2>1. /\ working[w] \in TaskIds
          /\ UNCHANGED <<nextTask, batches>>
          /\ \A v \in Workers \ {w} : working'[v] = working[v]
          /\ failed' = failed \union {working[w]}
          /\ errorSlot' = IF errorSlot = NoError THEN working[w] ELSE errorSlot
      BY <1>4, <1>7 DEF FailTask
    <2>2. failed' # {} /\ errorSlot' # NoError
      BY <2>1, TaskNumbers DEF NoError, Free
    <2>3. ASSUME NEW b \in TaskIds, b < nextTask'
          PROVE  AccountedFor(b)'
      <3>1. AccountedFor(b)
        BY <1>1, <2>1, <2>3 DEF TasksInv
      <3>2. CASE b = working[w]
        BY <2>1, <3>2 DEF AccountedFor
      <3>3. CASE b # working[w]
        BY <1>2, <2>1, <3>1, <3>3 DEF AccountedFor
      <3> QED
        BY <3>2, <3>3
    <2>4. EndsInv'
      BY <1>1, <1>2, <1>3, <2>1, <2>2 DEF EndsInv
    <2> QED
      BY <1>1, <1>2, <2>2, <2>3, <2>4 DEF TasksInv
  <1> QED
    BY <1>5, <1>6, <1>7 DEF WorkerNext

(* A batch goes from the channel to the pending ones, or is sent.          *)
LEMMA MergeBatchOutcome ==
  ASSUME OutcomeInv, MergeBatch
  PROVE  TasksInv' /\ EndsInv'
  <1>1. TypeOK /\ TasksInv /\ EndsInv
    BY DEF OutcomeInv, MergeInv
  <1>2. /\ UNCHANGED <<nextTask, working, errorSlot, failed, merger, nextBatch, sent,
                       taken, consumer, executor>>
        /\ merger = "running" /\ outgoing = <<>> /\ batches # <<>>
        /\ batches' = Tail(batches)
    BY DEF MergeBatch, workerVars, consumerVars
  <1>3. /\ Len(batches) \in Nat /\ Len(batches) >= 1 /\ Head(batches) \in TaskIds
        /\ Head(batches) = batches[1] /\ Len(batches') = Len(batches) - 1
        /\ \A i \in 1 .. Len(batches) - 1 : batches'[i] = batches[i + 1]
    BY <1>1, <1>2, TailFacts DEF TypeOK
  <1>4. ASSUME NEW i \in 1 .. Len(batches)
        PROVE  batches[i] = Head(batches) \/ \E j \in 1 .. Len(batches') : batches'[j] = batches[i]
    <2>1. CASE i = 1
      BY <1>3, <2>1
    <2>2. CASE i # 1
      <3>1. i - 1 \in 1 .. Len(batches) - 1 /\ (i - 1) + 1 = i
        BY <1>3, <2>2
      <3> QED
        BY <1>3, <3>1
    <2> QED
      BY <2>1, <2>2
  <1>5. \/ /\ nextBatch \in pending \union {Head(batches)}
           /\ pending' = (pending \union {Head(batches)}) \ {nextBatch}
           /\ outgoing' # <<>>
        \/ /\ nextBatch \notin pending \union {Head(batches)}
           /\ pending' = pending \union {Head(batches)}
           /\ outgoing' = <<>>
    <2>1. pending \subseteq TaskIds
      BY <1>1 DEF TypeOK
    <2> QED
      BY <1>2, <1>3, <2>1, TaskWindowsFacts DEF MergeBatch
  <1>6. ASSUME NEW b \in TaskIds, b < nextTask'
        PROVE  AccountedFor(b)'
    <2>1. AccountedFor(b)
      BY <1>1, <1>2, <1>6 DEF TasksInv
    <2>2. CASE \E i \in 1 .. Len(batches) : batches[i] = b
      BY <1>2, <1>4, <1>5, <2>2 DEF AccountedFor
    <2>3. CASE ~\E i \in 1 .. Len(batches) : batches[i] = b
      BY <1>2, <1>5, <2>1, <2>3 DEF AccountedFor
    <2> QED
      BY <2>2, <2>3
  <1>7. EndsInv'
    BY <1>1, <1>2 DEF EndsInv, WorkersDone
  <1> QED
    BY <1>1, <1>2, <1>5, <1>6, <1>7 DEF TasksInv

(* The last window of a batch is sent: its turn is over, and the next      *)
(* batch takes over if it waits.                                           *)
LEMMA MergeSendOutcome ==
  ASSUME OutcomeInv, MergeSend
  PROVE  TasksInv' /\ EndsInv'
  <1>1. TypeOK /\ TasksInv /\ EndsInv
    BY DEF OutcomeInv, MergeInv
  <1>2. /\ UNCHANGED <<nextTask, working, errorSlot, failed, batches, merger, taken,
                       consumer, executor>>
        /\ merger = "running" /\ outgoing # <<>> /\ consumer = "receiving"
    BY DEF MergeSend, workerVars, consumerVars
  <1>3. nextBatch \in Nat /\ pending \subseteq TaskIds
    BY <1>1, PlanFacts DEF TypeOK
  <1>4. \/ nextBatch' = nextBatch /\ pending' = pending /\ outgoing' # <<>>
        \/ /\ nextBatch' = nextBatch + 1
           /\ \/ /\ nextBatch + 1 \in pending /\ pending' = pending \ {nextBatch + 1}
                 /\ outgoing' # <<>>
              \/ nextBatch + 1 \notin pending /\ pending' = pending /\ outgoing' = <<>>
    <2>1. CASE Len(outgoing) > 1
      <3>1. Len(Tail(outgoing)) = Len(outgoing) - 1 /\ Len(outgoing) \in Nat
        BY <1>1, <1>2, TailFacts DEF TypeOK
      <3>2. outgoing' = Tail(outgoing)
        BY <2>1 DEF MergeSend
      <3>3. Len(outgoing') > 0
        BY <2>1, <3>1, <3>2
      <3>4. outgoing' # <<>>
        BY <3>3, EmptyFacts
      <3> QED
        BY <2>1, <3>4 DEF MergeSend
    <2>2. CASE ~(Len(outgoing) > 1)
      BY <1>3, <2>2, TaskWindowsFacts DEF MergeSend
    <2> QED
      BY <2>1, <2>2
  <1>5. ASSUME NEW b \in TaskIds, b < nextTask'
        PROVE  AccountedFor(b)'
    <2>1. AccountedFor(b) /\ b \in Nat
      BY <1>1, <1>2, <1>5, TaskNumbers DEF TasksInv
    <2>2. CASE \/ \E w \in Workers : working[w] = b
               \/ \E i \in 1 .. Len(batches) : batches[i] = b
               \/ b \in failed
      BY <1>2, <2>2 DEF AccountedFor
    <2>3. CASE b \in pending \/ b < nextBatch \/ b = nextBatch
      BY <1>3, <1>4, <2>1, <2>3 DEF AccountedFor
    <2> QED
      BY <1>2, <2>1, <2>2, <2>3 DEF AccountedFor
  <1>6. EndsInv'
    BY <1>1, <1>2 DEF EndsInv, WorkersDone
  <1>7. outgoing' = <<>> => nextBatch' \notin pending'
    BY <1>4
  <1> QED
    BY <1>1, <1>2, <1>5, <1>6, <1>7 DEF TasksInv

(* The merger stops: with an error when nobody listens, else when nothing  *)
(* is left to come.                                                        *)
LEMMA MergeStopOutcome ==
  ASSUME OutcomeInv, MergeSendFailed \/ MergeEnd
  PROVE  TasksInv' /\ EndsInv'
  <1>1. TypeOK /\ TasksInv /\ EndsInv
    BY DEF OutcomeInv, MergeInv
  <1>2. /\ UNCHANGED <<nextTask, working, errorSlot, failed, nextBatch, pending, outgoing,
                       sent, taken, consumer, executor>>
        /\ merger = "running"
    BY DEF MergeSendFailed, MergeEnd, workerVars, consumerVars
  <1>3. CASE MergeSendFailed
    <2>1. merger' = "failed" /\ consumer = "hungUp"
      BY <1>3 DEF MergeSendFailed
    <2> QED
      BY <1>1, <1>2, <2>1 DEF TasksInv, EndsInv, AccountedFor, WorkersDone
  <1>4. CASE MergeEnd
    <2>1. /\ merger' = "ok" /\ batches' = batches /\ outgoing = <<>> /\ batches = <<>>
          /\ executor = "joining"
      BY <1>4 DEF MergeEnd
    <2>2. TasksInv'
      BY <1>1, <1>2, <2>1 DEF TasksInv, AccountedFor
    <2>3. EndsInv'
      BY <1>1, <1>2, <2>1 DEF EndsInv, WorkersDone
    <2> QED
      BY <2>2, <2>3
  <1> QED
    BY <1>3, <1>4

(* The executor and the consumer only look.                                *)
LEMMA OtherOutcome ==
  ASSUME OutcomeInv, ExecutorNext \/ ConsumerNext \/ HangUp \/ Finished \/ UNCHANGED vars
  PROVE  TasksInv' /\ EndsInv'
  <1>1. TypeOK /\ TasksInv /\ EndsInv
    BY DEF OutcomeInv, MergeInv
  <1>2. UNCHANGED <<nextTask, working, errorSlot, failed, batches, merger, nextBatch, pending,
                    outgoing, sent>>
    BY DEF ExecutorNext, WorkersReturned, Return, ConsumerNext, ReceiveWindow, EndOfStream,
           HangUp, Finished, vars, workerVars, mergerVars
  <1>3. TasksInv'
    BY <1>1, <1>2 DEF TasksInv, AccountedFor
  <1>4. EndsInv'
    <2>1. CASE WorkersReturned
      BY <1>1, <1>2, <2>1 DEF EndsInv, WorkersReturned, WorkersDone, consumerVars
    <2>2. CASE Return
      <3>1. merger \in {"ok", "failed"}
        BY <1>1, <2>2 DEF Return, TypeOK
      <3> QED
        BY <1>1, <1>2, <2>2, <3>1 DEF EndsInv, Return, WorkersDone, consumerVars
    <2>3. CASE ReceiveWindow
      BY <1>1, <1>2, <2>3 DEF EndsInv, ReceiveWindow, WorkersDone
    <2>4. CASE EndOfStream
      <3>1. taken \in Nat /\ Len(sent) \in Nat
        BY <1>1, LenProperties DEF TypeOK
      <3>2. taken = Len(sent)
        BY <2>4, <3>1 DEF EndOfStream, InFlight
      <3>3. merger = "ok"
        BY <1>1, <2>4 DEF EndsInv, EndOfStream, TypeOK
      <3> QED
        BY <1>1, <1>2, <2>4, <3>2, <3>3 DEF EndsInv, EndOfStream, WorkersDone
    <2>5. CASE HangUp
      BY <1>1, <1>2, <2>5 DEF EndsInv, HangUp, WorkersDone
    <2>6. CASE Finished \/ UNCHANGED vars
      BY <1>1, <1>2, <2>6 DEF EndsInv, Finished, WorkersDone, vars, consumerVars
    <2> QED
      BY <2>1, <2>2, <2>3, <2>4, <2>5, <2>6 DEF ExecutorNext, ConsumerNext
  <1> QED
    BY <1>3, <1>4

(* A merger that ended regularly has sent every window, unless a batch     *)
(* failed: all tasks were claimed, and none is left anywhere.              *)
LEMMA MergedAll ==
  ASSUME OutcomeInv, merger = "ok", failed = {}
  PROVE  Len(sent) = Total
  <1>1. TypeOK /\ TasksInv /\ EndsInv
    BY DEF OutcomeInv, MergeInv
  <1>2. WorkersDone /\ outgoing = <<>> /\ batches = <<>>
    BY <1>1 DEF EndsInv
  <1>3. nextTask >= TaskCount
    BY <1>1, <1>2, WorkersAssumption DEF TasksInv, WorkersDone
  <1>4. nextBatch \in 0 .. TaskCount /\ nextTask \in Nat /\ TaskCount \in Nat
    BY <1>1, PlanFacts DEF TypeOK
  <1>5. nextBatch \notin TaskIds
    <2> SUFFICES ASSUME nextBatch \in TaskIds PROVE FALSE
      OBVIOUS
    <2>1. AccountedFor(nextBatch)
      BY <1>1, <1>3, <1>4, TaskNumbers DEF TasksInv
    <2>2. Len(batches) = 0 /\ \A w \in Workers : working[w] # nextBatch
      BY <1>2, TaskNumbers DEF WorkersDone
    <2> QED
      BY <1>1, <1>2, <1>4, <2>1, <2>2 DEF AccountedFor, TasksInv
  <1> QED
    BY <1>2, <1>5 DEF OutcomeInv, MergeInv, StartOf

LEMMA OutcomeFollows == OutcomeInv => OutcomeTruthful
  <1> SUFFICES ASSUME OutcomeInv PROVE OutcomeTruthful
    OBVIOUS
  <1>1. EndsInv /\ TypeOK
    BY DEF OutcomeInv, MergeInv
  <1>2. executor = "Ok" => Len(sent) = Total /\ failed = {}
    BY <1>1, MergedAll DEF EndsInv
  <1>3. executor = "SendError" => consumer = "hungUp" /\ failed = {}
    BY <1>1 DEF EndsInv
  <1>4. executor = "WorkerError" <=> executor \in Outcomes /\ failed # {}
    BY <1>1 DEF EndsInv, Outcomes
  <1>5. ASSUME consumer = "ended", taken < Total PROVE failed # {}
    <2>1. merger = "ok" /\ taken = Len(sent)
      BY <1>1, <1>5 DEF EndsInv
    <2>2. Len(sent) # Total
      BY <1>5, <2>1, SizesAssumption
    <2> QED
      BY <2>1, <2>2, MergedAll
  <1> QED
    BY <1>2, <1>3, <1>4, <1>5 DEF OutcomeTruthful

(* The outcome of a run tells the truth for every number of workers, plan  *)
(* and capacity: Ok means that all windows were sent, a failed prediction  *)
(* is always what is returned, and a stream that ends short belongs to a   *)
(* run that fails.                                                         *)
THEOREM RunOutcomeTruthful == Spec => []OutcomeTruthful
  <1>1. Init => OutcomeInv
    BY OutcomeInit
  <1>2. OutcomeInv /\ [Next]_vars => OutcomeInv'
    <2> SUFFICES ASSUME OutcomeInv, [Next]_vars PROVE OutcomeInv'
      OBVIOUS
    <2>1. MergeInv'
      BY WorkerMergeInv, MergeBatchInv, MergeSendInv, MergeStopInv, OtherMergeInv
         DEF OutcomeInv, Next, MergerNext
    <2>2. TasksInv' /\ EndsInv'
      BY WorkerOutcome, MergeBatchOutcome, MergeSendOutcome, MergeStopOutcome, OtherOutcome
         DEF Next, MergerNext
    <2> QED
      BY <2>1, <2>2 DEF OutcomeInv
  <1> QED
    BY <1>1, <1>2, OutcomeFollows, PTL DEF Spec
=============================================================================
