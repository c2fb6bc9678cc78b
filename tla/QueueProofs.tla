----------------------------- MODULE QueueProofs -----------------------------
(***************************************************************************)
(* Theorems about the diarization queue, for every number of handles,      *)
(* files and jobs and every capacity.                                      *)
(***************************************************************************)
EXTENDS Queue, SequenceTheorems, TLAPS

(* Indexed facts about appending to and taking from a channel. *)
LEMMA AppendFacts ==
  ASSUME NEW S, NEW q \in Seq(S), NEW x \in S
  PROVE  /\ Append(q, x) \in Seq(S)
         /\ Len(Append(q, x)) = Len(q) + 1
         /\ \A i \in 1 .. Len(q) : Append(q, x)[i] = q[i]
         /\ Append(q, x)[Len(q) + 1] = x
  BY AppendProperties

LEMMA TailFacts ==
  ASSUME NEW S, NEW q \in Seq(S), q # <<>>
  PROVE  /\ Len(q) \in Nat /\ Len(q) >= 1
         /\ Head(q) \in S
         /\ Head(q) = q[1]
         /\ Tail(q) \in Seq(S)
         /\ Len(Tail(q)) = Len(q) - 1
         /\ \A i \in 1 .. Len(q) - 1 : Tail(q)[i] = q[i + 1]
  BY HeadTailProperties, EmptySeq

LEMMA OneFacts ==
  ASSUME NEW S, NEW x \in S
  PROVE  /\ <<x>> \in Seq(S)
         /\ Len(<<x>>) = 1
         /\ <<x>>[1] = x
  OBVIOUS

LEMMA EmptyFacts ==
  ASSUME NEW S
  PROVE  <<>> \in Seq(S) /\ Len(<<>>) = 0
  BY EmptySeq

LEMMA FunctionIsSeq ==
  ASSUME NEW S, NEW n \in Nat, NEW f \in [1 .. n -> S]
  PROVE  f \in Seq(S) /\ Len(f) = n
  OBVIOUS

LEMMA ClaimType ==
  ASSUME TypeOK, NEW c \in Callers, NEW f \in Files
  PROVE  Claim(c, f) \in Request
  BY DEF TypeOK, Claim, Request

LEMMA OwnAnswerType ==
  ASSUME NEW r \in Request
  PROVE  OwnAnswer(r) \in Result /\ QueuedResult(r, TRUE) \in Result
  BY DEF OwnAnswer, QueuedResult, Request, Result

-----------------------------------------------------------------------------
(* The type invariant, with the channels within their capacity. *)

ReplyRecord == [via : {"recv", "next"}, what : {"Closed", "WorkerPanicked", "None"}]

LEMMA GiveReplyType ==
  ASSUME TypeOK, NEW end \in {"Closed", "WorkerPanicked"}, GiveReply(end)
  PROVE  replies' \in Seq(ReplyRecord) /\ yieldedTerminalError' \in BOOLEAN
  <1>1. Reply(end) \in ReplyRecord
    BY DEF Reply, ReplyRecord
  <1>2. replies \in Seq(ReplyRecord)
    BY DEF TypeOK, ReplyRecord
  <1> QED
    BY <1>1, <1>2, AppendFacts DEF GiveReply, TypeOK

LEMMA ReturnType ==
  ASSUME TypeOK, NEW c \in Callers, Return(c)
  PROVE  borrowed' \in [Callers -> SUBSET Senders] /\ claimed' \in [Callers -> JobIds]
  <1>1. 0 \in JobIds
    BY BoundsAssumption DEF JobIds
  <1> QED
    BY <1>1 DEF TypeOK, Return

LEMMA SenderType ==
  ASSUME TypeOK, SenderNext
  PROVE  TypeOK'
  <1> USE DEF TypeOK, channels, history
  <1>1. ASSUME NEW c \in Callers, NEW s \in Senders, ClaimJobId(c, s)
        PROVE  TypeOK'
    <2>1. nextJobId' \in JobIds
      BY <1>1, BoundsAssumption DEF ClaimJobId, JobIds
    <2>2. borrowed' \in [Callers -> SUBSET Senders] /\ claimed' \in [Callers -> JobIds]
      BY <1>1 DEF ClaimJobId
    <2> QED
      BY <1>1, <2>1, <2>2 DEF ClaimJobId, workerVars, receiverVars
  <1>2. ASSUME NEW c \in Callers, NEW f \in Files, TrySend(c, f)
        PROVE  TypeOK'
    <2>1. Claim(c, f) \in Request
      BY ClaimType
    <2>2. /\ requests' \in Seq(Request) /\ Len(requests') <= Capacity
          /\ accepted' \in Seq(Request)
      BY <1>2, <2>1, AppendFacts, CapacityAssumption DEF TrySend
    <2> QED
      BY <1>2, <2>2, ReturnType DEF TrySend, workerVars, receiverVars
  <1>3. ASSUME NEW c \in Callers, TrySendRejected(c)
        PROVE  TypeOK'
    BY <1>3, ReturnType DEF TrySendRejected, workerVars, receiverVars
  <1>4. ASSUME NEW s \in Senders, NEW t \in Senders, CloneSender(s, t)
        PROVE  TypeOK'
    BY <1>4 DEF CloneSender, workerVars, receiverVars
  <1>5. ASSUME NEW s \in Senders, DropSender(s)
        PROVE  TypeOK'
    BY <1>5 DEF DropSender, workerVars, receiverVars
  <1> QED
    BY <1>1, <1>2, <1>3, <1>4, <1>5 DEF SenderNext, Push

LEMMA WorkerType ==
  ASSUME TypeOK, WorkerNext
  PROVE  TypeOK'
  <1> USE DEF TypeOK, senderVars, channels, receiverVars, history
  <1>1. CASE RecvFirst
    <2>1. /\ requests' \in Seq(Request) /\ Len(requests') <= Capacity
          /\ Head(requests) \in Request
      BY <1>1, TailFacts, CapacityAssumption DEF RecvFirst
    <2>2. batch' \in Seq(Request)
      BY <1>1, <2>1, OneFacts DEF RecvFirst
    <2> QED
      BY <1>1, <2>1, <2>2 DEF RecvFirst
  <1>2. CASE RecvDisconnected
    BY <1>2 DEF RecvDisconnected
  <1>3. CASE DrainOne
    <2>1. /\ requests' \in Seq(Request) /\ Len(requests') <= Capacity
          /\ Head(requests) \in Request
      BY <1>3, TailFacts, CapacityAssumption DEF DrainOne
    <2>2. batch' \in Seq(Request)
      BY <1>3, <2>1, AppendFacts DEF DrainOne
    <2> QED
      BY <1>3, <2>1, <2>2 DEF DrainOne
  <1>4. CASE DrainDone
    BY <1>4 DEF DrainDone
  <1>5. CASE RunBatch
    <2>1. \A i \in 1 .. Len(batch) : QueuedResult(batch[i], TRUE) \in Result
      <3>1. \A i \in 1 .. Len(batch) : batch[i] \in Request
        BY ElementOfSeq
      <3> QED
        BY <3>1, OwnAnswerType
    <2>2. outbox' \in [1 .. Len(batch) -> Result]
      BY <1>5, <2>1 DEF RunBatch
    <2>3. outbox' \in Seq(Result)
      BY <2>2, FunctionIsSeq, LenProperties
    <2> QED
      BY <1>5, <2>3, EmptyFacts DEF RunBatch
  <1>6. CASE RunBatchFailed
    BY <1>6 DEF RunBatchFailed
  <1>7. CASE ProcessIndividually
    <2>1. \A i \in 1 .. Len(batch) : OwnAnswer(batch[i]) \in Result
      <3>1. \A i \in 1 .. Len(batch) : batch[i] \in Request
        BY ElementOfSeq
      <3> QED
        BY <3>1, OwnAnswerType
    <2>2. outbox' \in [1 .. Len(batch) -> Result]
      BY <1>7, <2>1 DEF ProcessIndividually
    <2>3. outbox' \in Seq(Result)
      BY <2>2, FunctionIsSeq, LenProperties
    <2>4. batch' \in Seq(Request)
      BY <1>7, EmptyFacts DEF ProcessIndividually
    <2> QED
      BY <1>7, <2>3, <2>4 DEF ProcessIndividually
  <1>8. CASE Panic
    BY <1>8, EmptyFacts DEF Panic
  <1>9. CASE SendResult
    <2>1. outbox' \in Seq(Result) /\ Head(outbox) \in Result
      BY <1>9, TailFacts DEF SendResult
    <2>2. results' \in Seq(Result) /\ Len(results') <= Capacity
      BY <1>9, <2>1, AppendFacts, CapacityAssumption DEF SendResult
    <2> QED
      BY <1>9, <2>1, <2>2 DEF SendResult
  <1>10. CASE SendResultsDone
    BY <1>10 DEF SendResultsDone
  <1>11. CASE SendResultFailed
    BY <1>11, EmptyFacts DEF SendResultFailed
  <1>12. CASE DropResultTx
    BY <1>12 DEF DropResultTx
  <1>13. CASE DropRequestRx
    <2>1. requests' \in Seq(Request) /\ Len(requests') <= Capacity
      BY <1>13, EmptyFacts, CapacityAssumption DEF DropRequestRx
    <2> QED
      BY <1>13, <2>1 DEF DropRequestRx
  <1> QED
    BY <1>1, <1>2, <1>3, <1>4, <1>5, <1>6, <1>7, <1>8, <1>9, <1>10, <1>11,
       <1>12, <1>13 DEF WorkerNext

LEMMA ReceiverType ==
  ASSUME TypeOK, ReceiverNext
  PROVE  TypeOK'
  <1> USE DEF TypeOK, senderVars, channels, workerVars, receiverVars, history
  <1>1. CASE RecvResult
    <2>1. /\ results' \in Seq(Result) /\ Len(results') <= Capacity
          /\ Head(results) \in Result
      BY <1>1, TailFacts, CapacityAssumption DEF RecvResult
    <2>2. delivered' \in Seq(Result)
      BY <1>1, <2>1, AppendFacts DEF RecvResult
    <2> QED
      BY <1>1, <2>1, <2>2 DEF RecvResult
  <1>2. CASE ResultsDisconnected
    BY <1>2 DEF ResultsDisconnected
  <1>3. CASE JoinTerminalWorker
    <2>1. PICK end \in {"Closed", "WorkerPanicked"} : receiver' = end /\ GiveReply(end)
      BY <1>3 DEF JoinTerminalWorker
    <2>2. replies' \in Seq(ReplyRecord) /\ yieldedTerminalError' \in BOOLEAN
      BY <2>1, GiveReplyType
    <2> QED
      BY <1>3, <2>1, <2>2 DEF JoinTerminalWorker, ReplyRecord
  <1>4. CASE CallAfterEnd
    <2>1. replies' \in Seq(ReplyRecord) /\ yieldedTerminalError' \in BOOLEAN
      BY <1>4, GiveReplyType DEF CallAfterEnd
    <2> QED
      BY <1>4, <2>1 DEF CallAfterEnd, ReplyRecord
  <1>5. CASE IntoIter
    BY <1>5 DEF IntoIter
  <1>6. CASE DropReceiver
    BY <1>6, EmptyFacts, CapacityAssumption DEF DropReceiver
  <1> QED
    BY <1>1, <1>2, <1>3, <1>4, <1>5, <1>6 DEF ReceiverNext, Receive

LEMMA InitType == Init => TypeOK
  <1> SUFFICES ASSUME Init PROVE TypeOK
    OBVIOUS
  <1>1. /\ requests \in Seq(Request) /\ Len(requests) <= Capacity
        /\ results \in Seq(Result) /\ Len(results) <= Capacity
        /\ batch \in Seq(Request) /\ outbox \in Seq(Result)
        /\ accepted \in Seq(Request) /\ delivered \in Seq(Result)
    BY EmptyFacts, CapacityAssumption DEF Init
  <1>2. nextJobId \in JobIds
    BY BoundsAssumption DEF Init, JobIds
  <1>4. claimed \in [Callers -> JobIds] /\ borrowed \in [Callers -> SUBSET Senders]
    BY BoundsAssumption DEF Init, JobIds
  <1>3. replies \in Seq([via : {"recv", "next"},
                        what : {"Closed", "WorkerPanicked", "None"}])
    BY EmptyFacts DEF Init
  <1> QED
    BY <1>1, <1>2, <1>3, <1>4 DEF Init, TypeOK

LEMMA NextType == TypeOK /\ [Next]_vars => TypeOK'
  <1> SUFFICES ASSUME TypeOK, [Next]_vars PROVE TypeOK'
    OBVIOUS
  <1>1. CASE UNCHANGED vars
    BY <1>1 DEF vars, senderVars, channels, workerVars, receiverVars, history, TypeOK
  <1> QED
    BY <1>1, SenderType, WorkerType, ReceiverType DEF Next, Quiescent

(* Every variable keeps its type, and neither channel ever holds more than *)
(* the configured capacity, whatever the number of handles.                *)
THEOREM TypeCorrect == Spec => []TypeOK
  BY InitType, NextType, PTL DEF Spec

-----------------------------------------------------------------------------
(* The inductive invariant: requests and answers stay aligned with the     *)
(* order of admission on their whole way through the queue.                *)

LEMMA Lengths ==
  ASSUME TypeOK
  PROVE  /\ Len(requests) \in Nat /\ Len(batch) \in Nat /\ Len(outbox) \in Nat
         /\ Len(results) \in Nat /\ Len(accepted) \in Nat /\ Len(delivered) \in Nat
         /\ Answered \in Nat /\ Held \in Nat
  BY LenProperties DEF TypeOK, Answered, Held

(* Everything but the handles. *)
Aligned ==
  TypeOK /\ AnswersAligned /\ WorkAligned /\ WorkerHolds /\ StoppedAligned /\ Ends

(* Whoever is inside try_push keeps a handle alive. *)
LEMMA SomeoneLeft ==
  ASSUME QueueInv, NEW c \in Callers, Pushing(c)
  PROVE  ~AllSendersDropped
  BY DEF QueueInv, TypeOK, HandlesLive, Pushing, AllSendersDropped

LEMMA SomeoneActs ==
  ASSUME QueueInv, SenderNext
  PROVE  ~AllSendersDropped
  <1>1. ASSUME NEW c \in Callers, Push(c) PROVE ~AllSendersDropped
    <2>1. CASE Pushing(c)
      BY <2>1, SomeoneLeft
    <2>2. CASE \E s \in Senders : ClaimJobId(c, s)
      BY <2>2 DEF ClaimJobId, AllSendersDropped
    <2> QED
      BY <1>1, <2>1, <2>2 DEF Push, TrySend, TrySendRejected
  <1>2. ASSUME NEW s \in Senders, DropSender(s) \/ \E t \in Senders : CloneSender(s, t)
        PROVE  ~AllSendersDropped
    BY <1>2 DEF CloneSender, DropSender, AllSendersDropped
  <1> QED
    BY <1>1, <1>2 DEF SenderNext

LEMMA Admitted ==
  ASSUME QueueInv, NEW c \in Callers, NEW f \in Files, TrySend(c, f)
  PROVE  Aligned'
  <1> USE DEF senderVars, channels, workerVars, receiverVars, history
  <1>1. /\ Claim(c, f) \in Request
        /\ accepted \in Seq(Request) /\ requests \in Seq(Request)
    BY ClaimType DEF QueueInv, TypeOK
  <1>2. /\ Len(accepted') = Len(accepted) + 1
        /\ accepted'[Len(accepted) + 1] = Claim(c, f)
        /\ \A i \in 1 .. Len(accepted) : accepted'[i] = accepted[i]
    BY <1>1, AppendFacts DEF TrySend
  <1>3. /\ Len(requests') = Len(requests) + 1
        /\ requests'[Len(requests) + 1] = Claim(c, f)
        /\ \A i \in 1 .. Len(requests) : requests'[i] = requests[i]
    BY <1>1, AppendFacts DEF TrySend
  <1>4. /\ Answered' = Answered /\ Held' = Held
        /\ UNCHANGED <<delivered, results, batch, outbox, worker, receiver>>
    BY DEF TrySend, Answered, Held
  <1>5. /\ Len(requests) \in Nat /\ Len(batch) \in Nat /\ Len(outbox) \in Nat
        /\ Len(results) \in Nat /\ Len(accepted) \in Nat /\ Len(delivered) \in Nat
        /\ Answered \in Nat /\ Held \in Nat
    BY Lengths DEF QueueInv
  <1>6. TypeOK'
    BY SenderType DEF QueueInv, SenderNext, Push
  <1>7. AnswersAligned'
    <2>1. AnsweredInOrder'
      BY <1>2, <1>4, <1>5 DEF QueueInv, AnswersAligned, AnsweredInOrder
    <2>2. ASSUME receiver # "dropped"
          PROVE  /\ Answered <= Len(accepted')
                 /\ \A i \in 1 .. Len(results) :
                      results[i] = OwnAnswer(accepted'[Len(delivered) + i])
      <3>1. /\ Answered <= Len(accepted)
            /\ \A i \in 1 .. Len(results) :
                 results[i] = OwnAnswer(accepted[Len(delivered) + i])
        BY <2>2 DEF QueueInv, AnswersAligned
      <3>2. \A i \in 1 .. Len(results) : Len(delivered) + i \in 1 .. Len(accepted)
        BY <1>5, <3>1 DEF Answered
      <3> QED
        BY <1>2, <1>5, <3>1, <3>2
    <2> QED
      BY <1>4, <2>1, <2>2 DEF QueueInv, AnswersAligned
  <1>8. WorkAligned'
    <2> SUFFICES ASSUME receiver # "dropped", worker \notin Stopping
                 PROVE  WorkAligned'
      BY <1>4 DEF WorkAligned
    <2>1. Answered + Held + Len(requests) = Len(accepted)
      BY DEF QueueInv, WorkAligned
    <2>2. \A i \in 1 .. Len(requests') :
            requests'[i] = accepted'[Answered + Held + i]
      <3> SUFFICES ASSUME NEW i \in 1 .. Len(requests) + 1
                   PROVE  requests'[i] = accepted'[Answered + Held + i]
        BY <1>3
      <3>1. CASE i = Len(requests) + 1
        <4>1. Answered + Held + i = Len(accepted) + 1
          BY <1>5, <2>1, <3>1
        <4> QED
          BY <1>2, <1>3, <3>1, <4>1
      <3>2. CASE i \in 1 .. Len(requests)
        <4>1. Answered + Held + i \in 1 .. Len(accepted)
          BY <1>5, <2>1, <3>2
        <4>2. requests[i] = accepted[Answered + Held + i]
          BY <3>2 DEF QueueInv, WorkAligned
        <4> QED
          BY <1>2, <1>3, <3>2, <4>1, <4>2
      <3> QED
        BY <1>5, <3>1, <3>2
    <2>3. \A i \in 1 .. Len(batch) : batch[i] = accepted'[Answered + i]
      <3>1. \A i \in 1 .. Len(batch) : Answered + i \in 1 .. Len(accepted)
        BY <1>5, <2>1, EmptyFacts DEF QueueInv, WorkerHolds, Held
      <3>2. \A i \in 1 .. Len(batch) : batch[i] = accepted[Answered + i]
        BY DEF QueueInv, WorkAligned
      <3> QED
        BY <1>2, <3>1, <3>2
    <2>4. worker = "send" =>
            \A i \in 1 .. Len(outbox) : outbox[i] = OwnAnswer(accepted'[Answered + i])
      <3> SUFFICES ASSUME worker = "send", NEW i \in 1 .. Len(outbox)
                   PROVE  outbox[i] = OwnAnswer(accepted'[Answered + i])
        OBVIOUS
      <3>1. Answered + i \in 1 .. Len(accepted)
        BY <1>5, <2>1 DEF Held
      <3>2. outbox[i] = OwnAnswer(accepted[Answered + i])
        BY DEF QueueInv, WorkAligned
      <3> QED
        BY <1>2, <3>1, <3>2
    <2>5. Answered + Held + Len(requests') = Len(accepted')
      BY <1>2, <1>3, <1>5, <2>1
    <2> QED
      BY <1>4, <2>2, <2>3, <2>4, <2>5 DEF WorkAligned
  <1>9. WorkerHolds'
    BY <1>4 DEF QueueInv, WorkerHolds
  <1>10. StoppedAligned'
    <2>1. ~AllSendersDropped
      BY SomeoneLeft DEF TrySend
    <2> QED
      BY <1>4, <2>1 DEF QueueInv, StoppedAligned, TrySend, AllSendersDropped
  <1>11. Ends'
    BY DEF QueueInv, Ends, TrySend
  <1> QED
    BY <1>6, <1>7, <1>8, <1>9, <1>10, <1>11 DEF Aligned

(* Steps of a handle that admit nothing: none is possible once all the     *)
(* handles are dropped.                                                    *)
LEMMA NotAdmitted ==
  ASSUME QueueInv, SenderNext, ~\E c \in Callers, f \in Files : TrySend(c, f)
  PROVE  Aligned'
  <1> USE DEF senderVars, channels, workerVars, receiverVars, history
  <1>1. UNCHANGED <<requests, requestRx, results, resultTx, workerVars,
                    receiverVars, accepted, delivered>>
    BY DEF SenderNext, Push, ClaimJobId, TrySendRejected, CloneSender, DropSender
  <1>2. ~AllSendersDropped
    BY SomeoneActs
  <1>3. TypeOK'
    BY SenderType DEF QueueInv
  <1>4. AnswersAligned'
    BY <1>1 DEF QueueInv, AnswersAligned, AnsweredInOrder, Answered
  <1>5. WorkAligned'
    BY <1>1 DEF QueueInv, WorkAligned, Answered, Held
  <1>6. WorkerHolds' /\ Ends'
    BY <1>1 DEF QueueInv, WorkerHolds, Ends
  <1>7. StoppedAligned'
    BY <1>1, <1>2 DEF QueueInv, StoppedAligned
  <1> QED
    BY <1>3, <1>4, <1>5, <1>6, <1>7 DEF Aligned

-----------------------------------------------------------------------------
(* The worker's steps.  None of them touches what was admitted or what was *)
(* returned to the caller, and only SendResult touches the result channel. *)

LEMMA WorkerFrame ==
  ASSUME WorkerNext
  PROVE  /\ UNCHANGED <<senderVars, receiverVars, history>>
         /\ ~SendResult => results' = results
  BY DEF WorkerNext, RecvFirst, RecvDisconnected, DrainOne, DrainDone, RunBatch,
     RunBatchFailed, ProcessIndividually, Panic, SendResult, SendResultsDone,
     SendResultFailed, DropResultTx, DropRequestRx, channels

(* A step that leaves the result channel alone keeps the answers aligned.  *)
LEMMA WorkerAnswers ==
  ASSUME QueueInv, WorkerNext, ~SendResult
  PROVE  AnswersAligned' /\ Answered' = Answered
  BY WorkerFrame
     DEF Aligned, QueueInv, AnswersAligned, AnsweredInOrder, Answered, receiverVars, history

(* The worker takes requests out of the channel, in order. *)
LEMMA WorkerTakes ==
  ASSUME QueueInv, RecvFirst \/ DrainOne
  PROVE  Aligned'
  <1> USE DEF senderVars, channels, workerVars, receiverVars, history
  <1>1. WorkerNext /\ ~SendResult
    BY DEF WorkerNext, SendResult, RecvFirst, DrainOne
  <1>2. requests \in Seq(Request) /\ requests # <<>> /\ batch \in Seq(Request)
    BY DEF Aligned, QueueInv, TypeOK, RecvFirst, DrainOne
  <1>3. /\ Len(requests) >= 1
        /\ Head(requests) \in Request /\ Head(requests) = requests[1]
        /\ Len(requests') = Len(requests) - 1
        /\ \A i \in 1 .. Len(requests) - 1 : requests'[i] = requests[i + 1]
    BY <1>2, TailFacts DEF RecvFirst, DrainOne
  <1>4. /\ Len(batch') = Len(batch) + 1
        /\ \A i \in 1 .. Len(batch) : batch'[i] = batch[i]
        /\ batch'[Len(batch) + 1] = Head(requests)
    <2>1. CASE RecvFirst
      <3>1. batch = <<>>
        BY <2>1 DEF Aligned, QueueInv, WorkerHolds, RecvFirst
      <3> QED
        BY <1>3, <2>1, <3>1, EmptyFacts, OneFacts DEF RecvFirst
    <2>2. CASE DrainOne
      BY <1>2, <1>3, <2>2, AppendFacts DEF DrainOne
    <2> QED
      BY <2>1, <2>2
  <1>5. /\ Len(requests) \in Nat /\ Len(batch) \in Nat
        /\ Answered \in Nat /\ Held \in Nat /\ Len(accepted) \in Nat
    BY Lengths DEF Aligned, QueueInv
  <1>6. /\ Held = Len(batch) /\ Held' = Len(batch')
        /\ worker' = "drain"
        /\ UNCHANGED <<receiver, accepted, delivered, results, outbox>>
        /\ Answered' = Answered
    BY DEF RecvFirst, DrainOne, Held, Answered
  <1>7. TypeOK'
    BY <1>1, WorkerType DEF Aligned, QueueInv
  <1>8. AnswersAligned'
    BY <1>1, WorkerAnswers
  <1>9. WorkAligned'
    <2> SUFFICES ASSUME receiver # "dropped"
                 PROVE  WorkAligned'
      BY <1>6 DEF WorkAligned
    <2>1. worker \notin Stopping /\ worker # "send"
      BY DEF RecvFirst, DrainOne, Stopping
    <2>2. /\ Answered + Held + Len(requests) = Len(accepted)
          /\ \A i \in 1 .. Len(requests) :
               requests[i] = accepted[Answered + Held + i]
          /\ \A i \in 1 .. Len(batch) : batch[i] = accepted[Answered + i]
      BY <2>1 DEF Aligned, QueueInv, WorkAligned
    <2>3. Answered' + Held' + Len(requests') = Len(accepted')
      <3>1. Held' = Held + 1
        BY <1>4, <1>6
      <3>2. Len(requests') = Len(requests) - 1
        BY <1>3
      <3>3. Answered + Held + Len(requests) = Len(accepted)
        BY <2>2
      <3>4. Answered' = Answered /\ Len(accepted') = Len(accepted)
        BY <1>6
      <3> QED
        BY ONLY <1>5, <3>1, <3>2, <3>3, <3>4
    <2>4. ASSUME NEW i \in 1 .. Len(requests')
          PROVE  requests'[i] = accepted[Answered + Held' + i]
      <3>1. i + 1 \in 1 .. Len(requests) /\ i \in 1 .. Len(requests) - 1
        BY <1>3, <1>5
      <3>2. Answered + Held + (i + 1) = Answered + Held' + i
        BY <1>4, <1>5, <1>6, <3>1
      <3> QED
        BY <1>3, <2>2, <3>1, <3>2
    <2>5. ASSUME NEW i \in 1 .. Len(batch')
          PROVE  batch'[i] = accepted[Answered + i]
      <3>1. CASE i \in 1 .. Len(batch)
        BY <1>4, <2>2, <3>1
      <3>2. CASE i = Len(batch) + 1
        <4>1. 1 \in 1 .. Len(requests)
          BY <1>3, <1>5
        <4>2. requests[1] = accepted[Answered + Held + 1]
          BY <2>2, <4>1
        <4>3. Answered + Held + 1 = Answered + i
          BY <1>5, <1>6, <3>2
        <4> QED
          BY <1>3, <1>4, <3>2, <4>2, <4>3
      <3> QED
        BY <1>4, <1>5, <3>1, <3>2
    <2>6. \A i \in 1 .. Len(requests') :
            requests'[i] = accepted'[Answered' + Held' + i]
      BY <1>6, <2>4
    <2>7. \A i \in 1 .. Len(batch') : batch'[i] = accepted'[Answered' + i]
      BY <1>6, <2>5
    <2>8. worker' # "send"
      BY <1>6
    <2> QED
      BY <2>3, <2>6, <2>7, <2>8 DEF WorkAligned
  <1>10. WorkerHolds'
    BY <1>6 DEF Aligned, QueueInv, WorkerHolds, RecvFirst, DrainOne
  <1>11. StoppedAligned' /\ Ends'
    BY DEF Aligned, QueueInv, StoppedAligned, Stopping, Ends, RecvFirst, DrainOne
  <1> QED
    BY <1>7, <1>8, <1>9, <1>10, <1>11 DEF Aligned, QueueInv

(* The worker computes answers for the batch it holds. *)
LEMMA WorkerRuns ==
  ASSUME QueueInv, DrainDone \/ RunBatch \/ RunBatchFailed \/ ProcessIndividually
  PROVE  Aligned'
  <1> USE DEF senderVars, channels, workerVars, receiverVars, history
  <1>1. WorkerNext /\ ~SendResult
    BY DEF WorkerNext, SendResult, DrainDone, RunBatch, RunBatchFailed,
           ProcessIndividually
  <1>2. TypeOK'
    BY <1>1, WorkerType DEF Aligned, QueueInv
  <1>3. AnswersAligned' /\ Answered' = Answered
    BY <1>1, WorkerAnswers
  <1>4. /\ UNCHANGED <<receiver, accepted, delivered, results, requests, panicked,
                       requestRx, resultTx>>
        /\ worker \in {"drain", "process", "individual"}
        /\ worker' \in {"drain", "process", "individual", "send"}
    BY DEF DrainDone, RunBatch, RunBatchFailed, ProcessIndividually
  <1>5. /\ Len(requests) \in Nat /\ Len(batch) \in Nat /\ Len(outbox) \in Nat
        /\ Answered \in Nat /\ Len(accepted) \in Nat
    BY Lengths DEF Aligned, QueueInv
  <1>6. StoppedAligned' /\ Ends'
    BY <1>4 DEF Aligned, QueueInv, StoppedAligned, Stopping, Ends
  <1>7. WorkAligned' /\ WorkerHolds'
    <2>1. CASE DrainDone \/ RunBatchFailed
      <3>1. UNCHANGED <<batch, outbox>> /\ worker' # "send" /\ worker # "send"
        BY <2>1 DEF DrainDone, RunBatchFailed
      <3>2. Held' = Held
        BY <3>1 DEF Held
      <3>3. WorkAligned'
        BY <1>3, <1>4, <3>1, <3>2 DEF Aligned, QueueInv, WorkAligned, Stopping
      <3>4. WorkerHolds'
        BY <1>4, <2>1, <3>1
           DEF Aligned, QueueInv, WorkerHolds, DrainDone, RunBatchFailed
      <3> QED
        BY <3>3, <3>4
    <2>2. CASE RunBatch \/ ProcessIndividually
      <3>1. /\ batch' = <<>> /\ worker' = "send" /\ worker # "send"
            /\ worker \notin Stopping
            /\ outbox' = [i \in 1 .. Len(batch) |-> OwnAnswer(batch[i])]
        BY <2>2 DEF RunBatch, ProcessIndividually, OwnAnswer, Stopping
      <3>2. Len(outbox') = Len(batch)
        <4>1. outbox' \in [1 .. Len(batch) -> {outbox'[i] : i \in 1 .. Len(batch)}]
          BY <3>1
        <4> QED
          BY <1>5, <4>1, FunctionIsSeq
      <3>3. \A i \in 1 .. Len(batch) : outbox'[i] = OwnAnswer(batch[i])
        BY <3>1
      <3>4. Held = Len(batch) /\ Held' = Len(outbox')
        BY <3>1 DEF Held
      <3>5. WorkerHolds'
        BY <3>1 DEF WorkerHolds
      <3>6. WorkAligned'
        <4> SUFFICES ASSUME receiver # "dropped"
                     PROVE  WorkAligned'
          BY <1>4 DEF WorkAligned
        <4>1. /\ Answered + Held + Len(requests) = Len(accepted)
              /\ \A i \in 1 .. Len(requests) :
                   requests[i] = accepted[Answered + Held + i]
              /\ \A i \in 1 .. Len(batch) : batch[i] = accepted[Answered + i]
          BY <3>1 DEF Aligned, QueueInv, WorkAligned
        <4>2. \A i \in 1 .. Len(outbox') : outbox'[i] = OwnAnswer(accepted[Answered + i])
          BY <3>2, <3>3, <4>1
        <4>3. \A i \in 1 .. Len(batch') : batch'[i] = accepted'[Answered' + i]
          BY <3>1, EmptyFacts
        <4>4. Held' = Held
          BY <3>2, <3>4
        <4> QED
          BY <1>3, <1>4, <4>1, <4>2, <4>3, <4>4 DEF WorkAligned
      <3> QED
        BY <3>5, <3>6
    <2> QED
      BY <2>1, <2>2
  <1> QED
    BY <1>2, <1>3, <1>6, <1>7 DEF Aligned, QueueInv

(* The worker puts the oldest answer it holds into the result channel. *)
LEMMA WorkerSends ==
  ASSUME QueueInv, SendResult
  PROVE  Aligned'
  <1> USE DEF senderVars, channels, workerVars, receiverVars, history
  <1>1. /\ UNCHANGED <<receiver, accepted, delivered, requests, batch, worker,
                       panicked, requestRx, resultTx, sender>>
        /\ receiver # "dropped" /\ worker = "send" /\ worker \notin Stopping
        /\ batch = <<>>
    BY DEF SendResult, ReceiverAlive, Stopping, QueueInv, WorkerHolds
  <1>2. outbox \in Seq(Result) /\ outbox # <<>> /\ results \in Seq(Result)
    BY DEF Aligned, QueueInv, TypeOK, SendResult
  <1>3. /\ Len(outbox) >= 1
        /\ Head(outbox) \in Result /\ Head(outbox) = outbox[1]
        /\ Len(outbox') = Len(outbox) - 1
        /\ \A i \in 1 .. Len(outbox) - 1 : outbox'[i] = outbox[i + 1]
    BY <1>2, TailFacts DEF SendResult
  <1>4. /\ Len(results') = Len(results) + 1
        /\ \A i \in 1 .. Len(results) : results'[i] = results[i]
        /\ results'[Len(results) + 1] = Head(outbox)
    BY <1>2, <1>3, AppendFacts DEF SendResult
  <1>5. /\ Len(requests) \in Nat /\ Len(outbox) \in Nat /\ Len(results) \in Nat
        /\ Len(accepted) \in Nat /\ Len(delivered) \in Nat
        /\ Answered \in Nat
    BY Lengths DEF Aligned, QueueInv
  <1>6. /\ Held = Len(outbox) /\ Held' = Len(outbox) - 1
        /\ Answered = Len(delivered) + Len(results) /\ Answered' = Answered + 1
        /\ Answered' + Held' = Answered + Held
    BY <1>1, <1>3, <1>4, <1>5 DEF Held, Answered
  <1>7. /\ Answered + Held + Len(requests) = Len(accepted)
        /\ \A i \in 1 .. Len(requests) : requests[i] = accepted[Answered + Held + i]
        /\ \A i \in 1 .. Len(outbox) : outbox[i] = OwnAnswer(accepted[Answered + i])
    BY <1>1 DEF Aligned, QueueInv, WorkAligned
  <1>8. TypeOK'
    BY WorkerType DEF Aligned, QueueInv, WorkerNext
  <1>9. AnswersAligned'
    <2>1. AnsweredInOrder'
      BY <1>1 DEF Aligned, QueueInv, AnswersAligned, AnsweredInOrder
    <2>2. Answered' <= Len(accepted')
      BY <1>1, <1>3, <1>5, <1>6, <1>7
    <2>3. ASSUME NEW i \in 1 .. Len(results')
          PROVE  results'[i] = OwnAnswer(accepted[Len(delivered) + i])
      <3>1. CASE i \in 1 .. Len(results)
        BY <1>1, <1>4, <3>1 DEF Aligned, QueueInv, AnswersAligned
      <3>2. CASE i = Len(results) + 1
        <4>1. outbox[1] = OwnAnswer(accepted[Answered + 1])
          BY <1>3, <1>5, <1>7
        <4>2. Answered + 1 = Len(delivered) + i
          BY <1>5, <1>6, <3>2
        <4> QED
          BY <1>3, <1>4, <3>2, <4>1, <4>2
      <3> QED
        BY <1>4, <1>5, <3>1, <3>2
    <2> QED
      BY <1>1, <2>1, <2>2, <2>3 DEF AnswersAligned
  <1>10. WorkAligned'
    <2>1. Answered' + Held' + Len(requests') = Len(accepted')
      BY <1>1, <1>6, <1>7
    <2>2. \A i \in 1 .. Len(requests') :
            requests'[i] = accepted'[Answered' + Held' + i]
      BY <1>1, <1>6, <1>7
    <2>3. \A i \in 1 .. Len(batch') : batch'[i] = accepted'[Answered' + i]
      BY <1>1, EmptyFacts
    <2>4. ASSUME NEW i \in 1 .. Len(outbox')
          PROVE  outbox'[i] = OwnAnswer(accepted'[Answered' + i])
      <3>1. i \in 1 .. Len(outbox) - 1 /\ i + 1 \in 1 .. Len(outbox)
        BY <1>3, <1>5
      <3>2. Answered' + i = Answered + (i + 1)
        BY <1>5, <1>6, <3>1
      <3>3. outbox[i + 1] = OwnAnswer(accepted[Answered + (i + 1)])
        BY <1>7, <3>1
      <3>4. outbox'[i] = outbox[i + 1]
        BY <1>3, <3>1
      <3> QED
        BY <1>1, <3>2, <3>3, <3>4
    <2> QED
      BY <2>1, <2>2, <2>3, <2>4 DEF WorkAligned
  <1>11. WorkerHolds' /\ StoppedAligned'
    BY <1>1 DEF WorkerHolds, StoppedAligned
  <1>12. Ends'
    <2>1. receiver \notin {"joining", "Closed", "WorkerPanicked"}
      BY <1>1 DEF Aligned, QueueInv, Ends, Stopping
    <2> QED
      BY <1>1, <2>1 DEF Aligned, QueueInv, Ends
  <1> QED
    BY <1>8, <1>9, <1>10, <1>11, <1>12 DEF Aligned, QueueInv

(* The worker starts its next batch, or stops: because no sender is left,  *)
(* because the receiver is gone, or because a run panicked.                *)
LEMMA WorkerTurns ==
  ASSUME QueueInv,
         \/ RecvDisconnected \/ SendResultsDone \/ SendResultFailed
         \/ Panic \/ DropResultTx \/ DropRequestRx
  PROVE  Aligned'
  <1> USE DEF senderVars, channels, workerVars, receiverVars, history
  <1>1. WorkerNext /\ ~SendResult
    BY DEF WorkerNext, SendResult, RecvDisconnected, SendResultsDone,
           SendResultFailed, Panic, DropResultTx, DropRequestRx, ReceiverAlive
  <1>2. TypeOK'
    BY <1>1, WorkerType DEF Aligned, QueueInv
  <1>3. AnswersAligned' /\ Answered' = Answered
    BY <1>1, WorkerAnswers
  <1>4. /\ UNCHANGED <<sender, receiver, accepted, delivered, results>>
        /\ Answered \in Nat /\ Len(accepted) \in Nat
    BY <1>1, WorkerFrame, Lengths DEF Aligned, QueueInv
  <1>5. CASE RecvDisconnected
    <2>1. /\ requests = <<>> /\ AllSendersDropped /\ worker' = "dropResultTx"
          /\ worker = "recv"
          /\ UNCHANGED <<panicked, requestRx, resultTx, batch, outbox>>
      BY <1>5 DEF RecvDisconnected
    <2>2. batch = <<>> /\ outbox = <<>> /\ Held = 0 /\ Len(requests) = 0
      BY <2>1, EmptyFacts DEF Aligned, QueueInv, WorkerHolds, Held
    <2>3. receiver # "dropped" => Answered = Len(accepted)
      BY <1>4, <2>1, <2>2 DEF Aligned, QueueInv, WorkAligned, Stopping
    <2>4. StoppedAligned' /\ WorkAligned' /\ WorkerHolds'
      BY <1>3, <1>4, <2>1, <2>2, <2>3
         DEF StoppedAligned, WorkAligned, WorkerHolds, Stopping, AllSendersDropped
    <2>5. Ends'
      BY <1>4, <2>1 DEF Aligned, QueueInv, Ends, Stopping
    <2> QED
      BY <1>2, <1>3, <2>4, <2>5 DEF Aligned, QueueInv
  <1>6. CASE SendResultsDone
    <2>1. /\ outbox = <<>> /\ worker = "send" /\ worker' = "recv" /\ batch = <<>>
          /\ UNCHANGED <<panicked, requestRx, resultTx, batch, outbox, requests>>
      BY <1>6 DEF SendResultsDone, QueueInv, WorkerHolds
    <2>2. Held = 0 /\ Held' = 0
      BY <2>1, EmptyFacts DEF Held
    <2>3. WorkAligned'
      BY <1>3, <1>4, <2>1, <2>2 DEF Aligned, QueueInv, WorkAligned, Stopping
    <2>4. StoppedAligned' /\ WorkerHolds' /\ Ends'
      BY <1>4, <2>1 DEF Aligned, QueueInv, StoppedAligned, WorkerHolds, Ends, Stopping
    <2> QED
      BY <1>2, <1>3, <2>3, <2>4 DEF Aligned, QueueInv
  <1>7. CASE SendResultFailed \/ Panic
    <2>1. /\ worker' = "dropResultTx" /\ worker \notin Stopping
          /\ panicked' \/ receiver = "dropped"
          /\ UNCHANGED <<requestRx, resultTx>>
          /\ outbox' = <<>>
      BY <1>7 DEF SendResultFailed, Panic, Stopping, ReceiverAlive, QueueInv,
                  WorkerHolds
    <2>2. StoppedAligned' /\ WorkAligned' /\ WorkerHolds'
      BY <1>4, <2>1 DEF StoppedAligned, WorkAligned, WorkerHolds, Stopping
    <2>3. Ends'
      BY <1>4, <2>1 DEF Aligned, QueueInv, Ends, Stopping
    <2> QED
      BY <1>2, <1>3, <2>2, <2>3 DEF Aligned, QueueInv
  <1>8. CASE DropResultTx \/ DropRequestRx
    <2>1. /\ worker \in Stopping /\ worker' \in Stopping /\ panicked' = panicked
          /\ outbox' = <<>>
      BY <1>8 DEF DropResultTx, DropRequestRx, Stopping, QueueInv, WorkerHolds
    <2>2. StoppedAligned'
      BY <1>3, <1>4, <2>1 DEF Aligned, QueueInv, StoppedAligned, AllSendersDropped
    <2>3. WorkAligned' /\ WorkerHolds'
      BY <2>1 DEF WorkAligned, WorkerHolds, Stopping
    <2>4. Ends'
      BY <1>4, <1>8 DEF Aligned, QueueInv, Ends, Stopping, DropResultTx, DropRequestRx
    <2> QED
      BY <1>2, <1>3, <2>2, <2>3, <2>4 DEF Aligned, QueueInv
  <1> QED
    BY <1>5, <1>6, <1>7, <1>8

-----------------------------------------------------------------------------
(* The receiver's steps. *)

LEMMA Delivered ==
  ASSUME QueueInv, RecvResult
  PROVE  Aligned'
  <1> USE DEF senderVars, channels, workerVars, receiverVars, history
  <1>1. /\ UNCHANGED <<receiver, accepted, requests, batch, outbox, worker,
                       panicked, requestRx, resultTx, sender>>
        /\ receiver = "Running"
    BY DEF RecvResult
  <1>2. results \in Seq(Result) /\ results # <<>> /\ delivered \in Seq(Result)
    BY DEF Aligned, QueueInv, TypeOK, RecvResult
  <1>3. /\ Len(results) >= 1
        /\ Head(results) \in Result /\ Head(results) = results[1]
        /\ Len(results') = Len(results) - 1
        /\ \A i \in 1 .. Len(results) - 1 : results'[i] = results[i + 1]
    BY <1>2, TailFacts DEF RecvResult
  <1>4. /\ Len(delivered') = Len(delivered) + 1
        /\ \A i \in 1 .. Len(delivered) : delivered'[i] = delivered[i]
        /\ delivered'[Len(delivered) + 1] = Head(results)
    BY <1>2, <1>3, AppendFacts DEF RecvResult
  <1>5. /\ Len(results) \in Nat /\ Len(accepted) \in Nat /\ Len(delivered) \in Nat
    BY Lengths DEF Aligned, QueueInv
  <1>6. Answered' = Answered /\ Held' = Held
    BY <1>1, <1>3, <1>4, <1>5 DEF Held, Answered
  <1>7. /\ Len(delivered) + Len(results) <= Len(accepted)
        /\ \A i \in 1 .. Len(results) :
             results[i] = OwnAnswer(accepted[Len(delivered) + i])
        /\ \A i \in 1 .. Len(delivered) : delivered[i] = OwnAnswer(accepted[i])
    BY <1>1 DEF Aligned, QueueInv, AnswersAligned, AnsweredInOrder, Answered
  <1>8. TypeOK'
    BY ReceiverType DEF Aligned, QueueInv, ReceiverNext, Receive
  <1>9. AnswersAligned'
    <2>1. Len(delivered') <= Len(accepted')
      BY <1>1, <1>3, <1>4, <1>5, <1>7
    <2>2. ASSUME NEW i \in 1 .. Len(delivered')
          PROVE  delivered'[i] = OwnAnswer(accepted'[i])
      <3>1. CASE i \in 1 .. Len(delivered)
        BY <1>1, <1>4, <1>7, <3>1
      <3>2. CASE i = Len(delivered) + 1
        <4>1. results[1] = OwnAnswer(accepted[Len(delivered) + 1])
          BY <1>3, <1>5, <1>7
        <4> QED
          BY <1>1, <1>3, <1>4, <3>2, <4>1
      <3> QED
        BY <1>4, <1>5, <3>1, <3>2
    <2>3. ASSUME NEW i \in 1 .. Len(results')
          PROVE  results'[i] = OwnAnswer(accepted'[Len(delivered') + i])
      <3>1. i \in 1 .. Len(results) - 1 /\ i + 1 \in 1 .. Len(results)
        BY <1>3, <1>5
      <3>2. Len(delivered') + i = Len(delivered) + (i + 1)
        BY <1>4, <1>5, <3>1
      <3>3. results[i + 1] = OwnAnswer(accepted[Len(delivered) + (i + 1)])
        BY <1>7, <3>1
      <3>4. results'[i] = results[i + 1]
        BY <1>3, <3>1
      <3> QED
        BY <1>1, <3>2, <3>3, <3>4
    <2>4. Answered' <= Len(accepted')
      BY <1>1, <1>6, <1>7 DEF Answered
    <2> QED
      BY <1>1, <2>1, <2>2, <2>3, <2>4 DEF AnswersAligned, AnsweredInOrder
  <1>10. WorkAligned'
    BY <1>1, <1>6 DEF Aligned, QueueInv, WorkAligned
  <1>11. WorkerHolds'
    BY <1>1 DEF Aligned, QueueInv, WorkerHolds
  <1>12. StoppedAligned'
    BY <1>1, <1>6 DEF Aligned, QueueInv, StoppedAligned, AllSendersDropped
  <1>13. Ends'
    BY <1>1 DEF Aligned, QueueInv, Ends
  <1> QED
    BY <1>8, <1>9, <1>10, <1>11, <1>12, <1>13 DEF Aligned, QueueInv

LEMMA ReceiverTurns ==
  ASSUME QueueInv, ReceiverNext, ~RecvResult
  PROVE  Aligned'
  <1> USE DEF senderVars, channels, workerVars, receiverVars, history
  <1>1. /\ UNCHANGED <<sender, requests, requestRx, resultTx, batch, outbox,
                       worker, panicked, accepted, delivered>>
        /\ receiver # "dropped"
        /\ receiver' # "dropped" => results' = results
        /\ receiver' = "dropped" => results' = <<>>
    BY DEF ReceiverNext, Receive, ResultsDisconnected, JoinTerminalWorker,
           CallAfterEnd, IntoIter, DropReceiver
  <1>2. TypeOK'
    BY ReceiverType DEF Aligned, QueueInv
  <1>3. AnswersAligned'
    <2>1. AnsweredInOrder'
      BY <1>1 DEF Aligned, QueueInv, AnswersAligned, AnsweredInOrder
    <2> QED
      BY <1>1, <2>1 DEF Aligned, QueueInv, AnswersAligned, Answered
  <1>4. WorkAligned' /\ WorkerHolds' /\ StoppedAligned'
    BY <1>1 DEF Aligned, QueueInv, WorkAligned, WorkerHolds, StoppedAligned, Answered, Held,
                AllSendersDropped
  <1>5. Ends'
    BY <1>1 DEF Aligned, QueueInv, Ends, ReceiverNext, Receive, ResultsDisconnected,
                JoinTerminalWorker, CallAfterEnd, IntoIter, DropReceiver
  <1> QED
    BY <1>2, <1>3, <1>4, <1>5 DEF Aligned, QueueInv

-----------------------------------------------------------------------------
LEMMA InitInv == Init => QueueInv
  <1> SUFFICES ASSUME Init PROVE QueueInv
    OBVIOUS
  <1>1. TypeOK
    BY InitType
  <1>2. /\ Len(accepted) = 0 /\ Len(delivered) = 0 /\ Len(results) = 0
        /\ Len(requests) = 0 /\ Len(batch) = 0 /\ Answered = 0 /\ Held = 0
    BY EmptyFacts DEF Init, Answered, Held
  <1> QED
    BY <1>1, <1>2
       DEF Init, QueueInv, HandlesLive, AnswersAligned, AnsweredInOrder, WorkAligned,
           WorkerHolds, StoppedAligned, Ends, Stopping

(* A handle is not dropped while a thread is inside try_push with it.      *)
LEMMA HandlesStay == QueueInv /\ [Next]_vars => HandlesLive'
  <1> SUFFICES ASSUME QueueInv, [Next]_vars PROVE HandlesLive'
    OBVIOUS
  <1>1. HandlesLive /\ DOMAIN sender = Senders
        /\ borrowed \in [Callers -> SUBSET Senders]
    BY DEF QueueInv, TypeOK
  <1>2. ASSUME UNCHANGED <<sender, borrowed>>
        PROVE  HandlesLive'
    BY <1>1, <1>2 DEF HandlesLive
  <1>3. CASE SenderNext
    <2>1. ASSUME NEW c \in Callers, NEW s \in Senders, ClaimJobId(c, s)
          PROVE  HandlesLive'
      BY <1>1, <2>1 DEF HandlesLive, ClaimJobId
    <2>2. ASSUME NEW c \in Callers, sender' = sender, Return(c)
          PROVE  HandlesLive'
      BY <1>1, <2>2 DEF HandlesLive, Return
    <2>3. ASSUME NEW s \in Senders, NEW t \in Senders, CloneSender(s, t)
          PROVE  HandlesLive'
      BY <1>1, <2>3 DEF HandlesLive, CloneSender
    <2>4. ASSUME NEW s \in Senders, DropSender(s)
          PROVE  HandlesLive'
      BY <1>1, <2>4 DEF HandlesLive, DropSender
    <2> QED
      BY <1>3, <2>1, <2>2, <2>3, <2>4 DEF SenderNext, Push, TrySend, TrySendRejected
  <1>4. CASE WorkerNext
    BY <1>2, <1>4, WorkerFrame DEF senderVars
  <1>5. CASE ReceiverNext
    BY <1>2, <1>5 DEF ReceiverNext, Receive, RecvResult, ResultsDisconnected,
                      JoinTerminalWorker, CallAfterEnd, IntoIter, DropReceiver, senderVars
  <1>6. CASE UNCHANGED vars
    BY <1>2, <1>6 DEF vars, senderVars
  <1> QED
    BY <1>3, <1>4, <1>5, <1>6 DEF Next, Quiescent

LEMMA NextInv == QueueInv /\ [Next]_vars => QueueInv'
  <1> SUFFICES ASSUME QueueInv, [Next]_vars PROVE Aligned'
    BY HandlesStay DEF Aligned, QueueInv
  <1>1. CASE UNCHANGED vars
    <2> USE <1>1 DEF vars, senderVars, channels, workerVars, receiverVars, history
    <2>1. TypeOK'
      BY NextType DEF QueueInv
    <2>2. Answered' = Answered /\ Held' = Held
      BY DEF Answered, Held
    <2> QED
      BY <2>1, <2>2
         DEF Aligned, QueueInv, AnswersAligned, AnsweredInOrder, WorkAligned, WorkerHolds,
             StoppedAligned, Ends, AllSendersDropped
  <1>2. CASE SenderNext
    BY <1>2, Admitted, NotAdmitted
  <1>3. CASE WorkerNext
    BY <1>3, WorkerTakes, WorkerRuns, WorkerSends, WorkerTurns DEF WorkerNext
  <1>4. CASE ReceiverNext
    BY <1>4, Delivered, ReceiverTurns
  <1> QED
    BY <1>1, <1>2, <1>3, <1>4 DEF Next, Quiescent

(* Requests and answers stay aligned with the order of admission on their  *)
(* whole way through the two channels, the batch and the outbox.           *)
THEOREM QueueInvariant == Spec => []QueueInv
  BY InitInv, NextInv, PTL DEF Spec

(* Every result the receiver gets is the answer to the request admitted at *)
(* the same position: batching, the retry after a failed batch, panics and *)
(* early exits never reorder, skip or mix up answers.                      *)
THEOREM AnswersInOrder == Spec => []AnsweredInOrder
  <1>1. QueueInv => AnsweredInOrder
    BY DEF QueueInv, AnswersAligned
  <1> QED
    BY <1>1, QueueInvariant, PTL

LEMMA ClosedAnswered == QueueInv => ClosedMeansAnswered
  <1> SUFFICES ASSUME QueueInv, receiver = "Closed"
               PROVE  AllSendersDropped /\ Len(delivered) = Len(accepted)
    BY DEF ClosedMeansAnswered
  <1>1. worker = "finished" /\ ~panicked /\ results = <<>>
    BY DEF QueueInv, Ends
  <1>2. AllSendersDropped /\ Answered = Len(accepted)
    BY <1>1 DEF QueueInv, StoppedAligned, Stopping
  <1>3. Answered = Len(delivered)
    BY <1>1, EmptyFacts, Lengths DEF QueueInv, Answered
  <1> QED
    BY <1>2, <1>3

(* Closed is only reported when every admitted request has been answered   *)
(* and no handle is left that could admit another.                         *)
THEOREM ClosedIsComplete == Spec => []ClosedMeansAnswered
  BY ClosedAnswered, QueueInvariant, PTL

LEMMA EndStep ==
  ASSUME QueueInv, [Next]_vars, receiver \in {"Closed", "WorkerPanicked"}
  PROVE  UNCHANGED <<receiver, history>>
  <1> USE DEF senderVars, channels, workerVars, receiverVars, history
  <1>1. ~requestRx /\ worker = "finished"
    BY DEF QueueInv, Ends
  <1>2. CASE SenderNext
    BY <1>1, <1>2 DEF SenderNext, Push, ClaimJobId, TrySend, TrySendRejected,
                      CloneSender, DropSender
  <1>3. CASE WorkerNext
    BY <1>3, WorkerFrame
  <1>4. CASE ReceiverNext
    BY <1>4 DEF ReceiverNext, Receive, RecvResult, ResultsDisconnected,
                JoinTerminalWorker, CallAfterEnd, IntoIter, DropReceiver
  <1> QED
    BY <1>2, <1>3, <1>4 DEF Next, Quiescent, vars

(* Once an end has been reported it stays, and nothing more is admitted or *)
(* returned.                                                               *)
THEOREM EndStays == Spec => EndIsFinal
  <1>1. QueueInv /\ [Next]_vars
          => [(receiver \in {"Closed", "WorkerPanicked"})
                => UNCHANGED <<receiver, history>>]_vars
    BY EndStep
  <1> QED
    BY <1>1, QueueInvariant, PTL DEF Spec, EndIsFinal

-----------------------------------------------------------------------------
(* Job identifiers.                                                        *)

(* Identifiers that were handed out are below the counter; a push in       *)
(* progress has one no admitted request and no other push has, and a later *)
(* one than the requests its thread has had admitted.                      *)
ClaimsFresh ==
  /\ \A c \in Callers : Pushing(c) =>
       /\ claimed[c] < nextJobId
       /\ \A i \in 1 .. Len(accepted) :
            /\ accepted[i].job # claimed[c]
            /\ accepted[i].from = c => accepted[i].job < claimed[c]
  /\ \A c, d \in Callers :
       Pushing(c) /\ Pushing(d) /\ c # d => claimed[c] # claimed[d]

AdmittedOrdered ==
  /\ \A i \in 1 .. Len(accepted) : accepted[i].job < nextJobId
  /\ \A i, j \in 1 .. Len(accepted) : i < j =>
       /\ accepted[i].job # accepted[j].job
       /\ accepted[i].from = accepted[j].from => accepted[i].job < accepted[j].job

JobInv == ClaimsFresh /\ AdmittedOrdered

LEMMA InitJobs == Init => JobInv
  BY EmptyFacts DEF Init, JobInv, ClaimsFresh, AdmittedOrdered, Pushing

LEMMA AcceptedJobs ==
  ASSUME TypeOK
  PROVE  /\ Len(accepted) \in Nat
         /\ nextJobId \in Nat
         /\ \A i \in 1 .. Len(accepted) : accepted[i].job \in Nat
         /\ \A c \in Callers : claimed[c] \in Nat
  <1>1. accepted \in Seq(Request) /\ Len(accepted) \in Nat
    BY LenProperties DEF TypeOK
  <1>2. \A i \in 1 .. Len(accepted) : accepted[i] \in Request
    BY <1>1, ElementOfSeq
  <1>3. \A r \in Request : r.job \in Nat
    BY BoundsAssumption DEF Request, JobIds
  <1>4. nextJobId \in Nat /\ claimed \in [Callers -> JobIds]
    BY BoundsAssumption DEF TypeOK, JobIds
  <1>5. JobIds \subseteq Nat
    BY BoundsAssumption DEF JobIds
  <1> QED
    BY <1>1, <1>2, <1>3, <1>4, <1>5

(* A thread that returns from try_push is no longer pushing, and the       *)
(* others keep what they have claimed.                                     *)
LEMMA ReturnFrame ==
  ASSUME TypeOK, NEW c \in Callers, Return(c)
  PROVE  /\ ~Pushing(c)'
         /\ \A d \in Callers \ {c} : claimed'[d] = claimed[d] /\ (Pushing(d)' <=> Pushing(d))
  BY DEF Return, Pushing, TypeOK

LEMMA ClaimKeepsJobs ==
  ASSUME TypeOK, JobInv, NEW c \in Callers, NEW s \in Senders, ClaimJobId(c, s)
  PROVE  JobInv'
  <1>1. /\ accepted' = accepted /\ nextJobId' = nextJobId + 1
        /\ claimed' = [claimed EXCEPT ![c] = nextJobId]
        /\ borrowed' = [borrowed EXCEPT ![c] = {s}]
        /\ DOMAIN claimed = Callers
        /\ DOMAIN borrowed = Callers
    BY DEF ClaimJobId, TypeOK, history
  <1>2. /\ claimed'[c] = nextJobId
        /\ \A d \in Callers \ {c} : claimed'[d] = claimed[d] /\ (Pushing(d)' <=> Pushing(d))
    BY <1>1 DEF Pushing
  <1>3. ClaimsFresh'
    BY <1>1, <1>2, AcceptedJobs DEF JobInv, ClaimsFresh, AdmittedOrdered
  <1>4. AdmittedOrdered'
    BY <1>1, AcceptedJobs DEF JobInv, AdmittedOrdered
  <1> QED
    BY <1>3, <1>4 DEF JobInv

LEMMA TrySendKeepsJobs ==
  ASSUME TypeOK, JobInv, NEW c \in Callers, NEW f \in Files, TrySend(c, f)
  PROVE  JobInv'
  <1>1. /\ Pushing(c) /\ nextJobId' = nextJobId
        /\ accepted' = Append(accepted, Claim(c, f))
        /\ ~Pushing(c)'
        /\ \A d \in Callers \ {c} : claimed'[d] = claimed[d] /\ (Pushing(d)' <=> Pushing(d))
    BY ReturnFrame DEF TrySend
  <1>2. accepted \in Seq(Request) /\ Claim(c, f) \in Request
    BY ClaimType DEF TypeOK
  <1>5. Claim(c, f).from = c /\ Claim(c, f).job = claimed[c]
    BY DEF Claim
  <1>3. /\ Len(accepted') = Len(accepted) + 1
        /\ \A i \in 1 .. Len(accepted) : accepted'[i] = accepted[i]
        /\ accepted'[Len(accepted) + 1] = Claim(c, f)
    BY <1>1, <1>2, AppendFacts
  <1>4. \A i \in 1 .. Len(accepted') :
          \/ i \in 1 .. Len(accepted) /\ accepted'[i] = accepted[i]
          \/ i = Len(accepted) + 1 /\ accepted'[i] = Claim(c, f)
    BY <1>3, AcceptedJobs
  <1>6. ClaimsFresh'
    <2>1. ASSUME NEW d \in Callers, Pushing(d)'
          PROVE  /\ claimed'[d] < nextJobId'
                 /\ \A i \in 1 .. Len(accepted') :
                      /\ accepted'[i].job # claimed'[d]
                      /\ accepted'[i].from = d => accepted'[i].job < claimed'[d]
      <3>1. d # c /\ claimed'[d] = claimed[d] /\ Pushing(d)
        BY <1>1, <2>1
      <3> QED
        BY <1>1, <1>4, <1>5, <3>1 DEF JobInv, ClaimsFresh
    <2> QED
      BY <1>1, <2>1 DEF JobInv, ClaimsFresh
  <1>7. AdmittedOrdered'
    <2>1. \A i \in 1 .. Len(accepted') : accepted'[i].job < nextJobId'
      BY <1>1, <1>4, <1>5 DEF JobInv, ClaimsFresh, AdmittedOrdered
    <2>2. ASSUME NEW i \in 1 .. Len(accepted'), NEW j \in 1 .. Len(accepted'), i < j
          PROVE  /\ accepted'[i].job # accepted'[j].job
                 /\ accepted'[i].from = accepted'[j].from
                      => accepted'[i].job < accepted'[j].job
      <3>1. i \in 1 .. Len(accepted) /\ accepted'[i] = accepted[i]
        BY <1>3, <1>4, <2>2, AcceptedJobs
      <3>2. CASE j \in 1 .. Len(accepted)
        BY <1>3, <2>2, <3>1, <3>2 DEF JobInv, AdmittedOrdered
      <3>3. CASE j = Len(accepted) + 1
        BY <1>1, <1>3, <1>5, <3>1, <3>3 DEF JobInv, ClaimsFresh
      <3> QED
        BY <1>4, <3>2, <3>3
    <2> QED
      BY <2>1, <2>2 DEF AdmittedOrdered
  <1> QED
    BY <1>6, <1>7 DEF JobInv

LEMMA NextJobs == TypeOK /\ JobInv /\ [Next]_vars => JobInv'
  <1> SUFFICES ASSUME TypeOK, JobInv, [Next]_vars PROVE JobInv'
    OBVIOUS
  <1>1. ASSUME UNCHANGED <<nextJobId, borrowed, claimed, accepted>>
        PROVE  JobInv'
    BY <1>1 DEF JobInv, ClaimsFresh, AdmittedOrdered, Pushing
  <1>2. CASE SenderNext
    <2>1. ASSUME NEW s \in Senders, NEW t \in Senders, CloneSender(s, t)
          PROVE  JobInv'
      BY <1>1, <2>1 DEF CloneSender, history
    <2>2. ASSUME NEW c \in Callers, TrySendRejected(c)
          PROVE  JobInv'
      <3>1. /\ nextJobId' = nextJobId /\ accepted' = accepted
            /\ ~Pushing(c)'
            /\ \A d \in Callers \ {c} : claimed'[d] = claimed[d] /\ (Pushing(d)' <=> Pushing(d))
        BY <2>2, ReturnFrame DEF TrySendRejected, history
      <3> QED
        BY <3>1 DEF JobInv, ClaimsFresh, AdmittedOrdered
    <2>3. ASSUME NEW s \in Senders, DropSender(s)
          PROVE  JobInv'
      BY <1>1, <2>3 DEF DropSender, history
    <2> QED
      BY <1>2, <2>1, <2>2, <2>3, ClaimKeepsJobs, TrySendKeepsJobs DEF SenderNext, Push
  <1>3. CASE WorkerNext
    BY <1>1, <1>3, WorkerFrame DEF senderVars, history
  <1>4. CASE ReceiverNext
    BY <1>1, <1>4
       DEF ReceiverNext, Receive, RecvResult, ResultsDisconnected, JoinTerminalWorker,
           CallAfterEnd, IntoIter, DropReceiver, senderVars, history
  <1>5. CASE UNCHANGED vars
    BY <1>1, <1>5 DEF vars, senderVars, history
  <1> QED
    BY <1>2, <1>3, <1>4, <1>5 DEF Next, Quiescent

LEMMA JobsOrdered == TypeOK /\ JobInv /\ AnsweredInOrder => JobIdsOrdered
  <1> SUFFICES ASSUME TypeOK, JobInv, AnsweredInOrder PROVE JobIdsOrdered
    OBVIOUS
  <1>1. Len(accepted) \in Nat /\ Len(delivered) \in Nat /\ Len(delivered) <= Len(accepted)
    BY LenProperties DEF TypeOK, AnsweredInOrder
  <1>2. ASSUME NEW i \in 1 .. Len(accepted), NEW j \in 1 .. Len(accepted),
               accepted[i].job = accepted[j].job
        PROVE  i = j
    <2>1. ~(i < j) /\ ~(j < i)
      BY <1>2 DEF JobInv, AdmittedOrdered
    <2> QED
      BY <1>1, <2>1
  <1>3. \A i \in 1 .. Len(delivered) :
          /\ i \in 1 .. Len(accepted)
          /\ delivered[i].job = accepted[i].job /\ delivered[i].from = accepted[i].from
    <2>1. \A r : OwnAnswer(r).job = r.job /\ OwnAnswer(r).from = r.from
      BY DEF OwnAnswer, QueuedResult
    <2>2. \A i \in 1 .. Len(delivered) : delivered[i] = OwnAnswer(accepted[i])
      BY DEF AnsweredInOrder
    <2> QED
      BY <1>1, <2>1, <2>2
  <1>4. \A i, j \in 1 .. Len(delivered) :
          i < j /\ delivered[i].from = delivered[j].from
            => delivered[i].job < delivered[j].job
    BY <1>3 DEF JobInv, AdmittedOrdered
  <1> QED
    BY <1>2, <1>4 DEF JobIdsOrdered

(* No two admitted requests share an identifier, and the answers to one     *)
(* thread's pushes come in the order of their identifiers: try_push takes   *)
(* an identifier before it knows whether the request is admitted, and other *)
(* threads run in between, through the same handle or another one.          *)
THEOREM IdentifiersOrdered == Spec => []JobIdsOrdered
  <1>1. Spec => []JobInv
    BY InitJobs, NextJobs, TypeCorrect, PTL DEF Spec
  <1> QED
    BY <1>1, JobsOrdered, TypeCorrect, AnswersInOrder, PTL

-----------------------------------------------------------------------------
(* The iterator.                                                           *)

(* A reply of the iterator is followed by nothing but None: either it was  *)
(* the None of a regular end, which stays, or the terminal error has been  *)
(* yielded.                                                                *)
FusedInv ==
  /\ IteratorFused
  /\ Len(replies) > 0 => receiver \in {"Closed", "WorkerPanicked"}
  /\ \A i \in 1 .. Len(replies) : replies[i].via = "next" =>
       iterating /\ (receiver = "Closed" \/ yieldedTerminalError)

LEMMA InitFused == Init => FusedInv
  BY EmptyFacts DEF Init, FusedInv, IteratorFused

LEMMA ReplyKeepsFused ==
  ASSUME TypeOK, FusedInv, NEW end \in {"Closed", "WorkerPanicked"}, GiveReply(end),
         receiver' = end, iterating' = iterating,
         receiver = end \/ receiver = "joining"
  PROVE  FusedInv'
  <1>1. replies \in Seq(ReplyRecord) /\ Len(replies) \in Nat /\ Reply(end) \in ReplyRecord
    BY LenProperties DEF TypeOK, ReplyRecord, Reply
  <1>2. /\ replies' = Append(replies, Reply(end))
        /\ Len(replies') = Len(replies) + 1
        /\ \A i \in 1 .. Len(replies) : replies'[i] = replies[i]
        /\ replies'[Len(replies) + 1] = Reply(end)
        /\ yieldedTerminalError' = (yieldedTerminalError \/ (iterating /\ end # "Closed"))
    BY <1>1, AppendFacts DEF GiveReply
  <1>3. ASSUME NEW i \in 1 .. Len(replies), replies[i].via = "next"
        PROVE  /\ Reply(end) = [via |-> "next", what |-> "None"]
               /\ iterating /\ (end = "Closed" \/ yieldedTerminalError)
    <2>1. receiver = end
      BY <1>1 DEF FusedInv
    <2> QED
      BY <1>3, <2>1 DEF FusedInv, Reply
  <1>4. IteratorFused'
    <2> SUFFICES ASSUME NEW i \in 1 .. Len(replies'), NEW j \in 1 .. Len(replies'),
                        i < j, replies'[i].via = "next"
                 PROVE  replies'[j] = [via |-> "next", what |-> "None"]
      BY DEF IteratorFused
    <2>1. i \in 1 .. Len(replies) /\ replies[i].via = "next"
      BY <1>1, <1>2
    <2>2. CASE j \in 1 .. Len(replies)
      BY <1>2, <2>1, <2>2 DEF FusedInv, IteratorFused
    <2>3. CASE j = Len(replies) + 1
      BY <1>2, <1>3, <2>1, <2>3
    <2> QED
      BY <1>1, <1>2, <2>2, <2>3
  <1>5. Reply(end).via = "next" => iterating
    BY DEF Reply
  <1>6. ASSUME NEW i \in 1 .. Len(replies'), replies'[i].via = "next"
        PROVE  iterating' /\ (receiver' = "Closed" \/ yieldedTerminalError')
    <2>1. CASE i \in 1 .. Len(replies)
      BY <1>2, <1>3, <1>6, <2>1
    <2>2. CASE i = Len(replies) + 1
      BY <1>2, <1>5, <1>6, <2>2
    <2> QED
      BY <1>1, <1>2, <2>1, <2>2
  <1> QED
    BY <1>4, <1>6 DEF FusedInv

LEMMA NextFused == TypeOK /\ FusedInv /\ [Next]_vars => FusedInv'
  <1> SUFFICES ASSUME TypeOK, FusedInv, [Next]_vars PROVE FusedInv'
    OBVIOUS
  <1>1. ASSUME UNCHANGED <<replies, yieldedTerminalError>>, iterating => iterating',
               receiver' = receiver \/ receiver = "Running"
        PROVE  FusedInv'
    BY <1>1 DEF FusedInv, IteratorFused
  <1>2. CASE SenderNext
    BY <1>1, <1>2 DEF SenderNext, Push, ClaimJobId, TrySend, TrySendRejected, CloneSender,
                      DropSender, receiverVars
  <1>3. CASE WorkerNext
    BY <1>1, <1>3, WorkerFrame DEF receiverVars
  <1>4. CASE ReceiverNext
    <2>1. CASE RecvResult \/ ResultsDisconnected \/ IntoIter \/ DropReceiver
      BY <1>1, <2>1 DEF RecvResult, ResultsDisconnected, IntoIter, DropReceiver, receiverVars
    <2>2. CASE JoinTerminalWorker
      BY <2>2, ReplyKeepsFused DEF JoinTerminalWorker
    <2>3. CASE CallAfterEnd
      BY <2>3, ReplyKeepsFused DEF CallAfterEnd
    <2> QED
      BY <1>4, <2>1, <2>2, <2>3 DEF ReceiverNext, Receive
  <1>5. CASE UNCHANGED vars
    BY <1>1, <1>5 DEF vars, receiverVars
  <1> QED
    BY <1>2, <1>3, <1>4, <1>5 DEF Next, Quiescent

(* Once next has answered after the end of the results, it answers None for *)
(* ever: one terminal error at most, also when recv reported the end first. *)
THEOREM IteratorIsFused == Spec => []IteratorFused
  <1>1. FusedInv => IteratorFused
    BY DEF FusedInv
  <1> QED
    BY <1>1, InitFused, NextFused, TypeCorrect, PTL DEF Spec

-----------------------------------------------------------------------------
(* The queue implements the service of QueueService.tla.                   *)

ServiceStep == [Service!ServiceNext]_(Service!serviceVars)

LEMMA InitMaps == Init => Service!ServiceInit
  BY SendersAssumption DEF Init, Service!ServiceInit, AllSendersDropped

LEMMA SenderMaps ==
  ASSUME QueueInv, SenderNext
  PROVE  ServiceStep
  <1> USE DEF senderVars, channels, workerVars, receiverVars, history, ServiceStep
  <1>1. receiver' = receiver /\ delivered' = delivered
    BY DEF SenderNext, Push, ClaimJobId, TrySend, TrySendRejected, CloneSender,
           DropSender
  <1>2. ASSUME NEW c \in Callers, NEW f \in Files, TrySend(c, f)
        PROVE  ServiceStep
    <2>1. ~AllSendersDropped /\ (~AllSendersDropped)'
      BY <1>2, SomeoneLeft DEF TrySend, AllSendersDropped
    <2>2. receiver \notin {"Closed", "WorkerPanicked"}
      BY <1>2 DEF QueueInv, Ends, TrySend
    <2>3. Claim(c, f) \in Request /\ accepted' = Append(accepted, Claim(c, f))
      BY <1>2, ClaimType DEF TrySend, QueueInv
    <2>4. Service!Admit(Claim(c, f))
      BY <1>1, <2>1, <2>2, <2>3 DEF Service!Admit, QueueInv, TypeOK
    <2> QED
      BY <2>3, <2>4 DEF Service!ServiceNext
  <1>3. CASE ~\E c \in Callers, f \in Files : TrySend(c, f)
    <2>1. accepted' = accepted
      BY <1>3 DEF SenderNext, Push, ClaimJobId, TrySendRejected, CloneSender,
                  DropSender
    <2>2. ~AllSendersDropped
      BY <1>3, SomeoneActs
    <2>3. CASE AllSendersDropped'
      BY <1>1, <2>1, <2>2, <2>3 DEF Service!ServiceNext, Service!StopSending
    <2>4. CASE ~AllSendersDropped'
      BY <1>1, <2>1, <2>2, <2>4 DEF Service!serviceVars
    <2> QED
      BY <2>3, <2>4
  <1> QED
    BY <1>2, <1>3

LEMMA ReceiverMaps ==
  ASSUME QueueInv, ReceiverNext
  PROVE  ServiceStep
  <1> USE DEF senderVars, channels, workerVars, receiverVars, history, ServiceStep
  <1>1. accepted' = accepted /\ AllSendersDropped' = AllSendersDropped
    BY DEF ReceiverNext, Receive, RecvResult, ResultsDisconnected, IntoIter,
           JoinTerminalWorker, CallAfterEnd, DropReceiver, AllSendersDropped
  <1>2. CASE RecvResult
    <2>1. /\ receiver = "Running" /\ receiver' = receiver /\ results # <<>>
          /\ delivered' = Append(delivered, Head(results))
      BY <1>2 DEF RecvResult
    <2>2. results \in Seq(Result) /\ Len(results) \in Nat /\ Len(results) >= 1
          /\ Head(results) = results[1]
      BY <2>1, TailFacts DEF QueueInv, TypeOK
    <2>3. /\ Len(delivered) + Len(results) <= Len(accepted)
          /\ results[1] = OwnAnswer(accepted[Len(delivered) + 1])
      BY <2>1, <2>2 DEF QueueInv, AnswersAligned, Answered
    <2>4. Len(delivered) < Len(accepted)
      BY <2>2, <2>3, Lengths DEF QueueInv
    <2>5. Service!Reply
      BY <1>1, <2>1, <2>2, <2>3, <2>4 DEF Service!Reply
    <2> QED
      BY <2>5 DEF Service!ServiceNext
  <1>3. CASE JoinTerminalWorker
    <2>1. /\ receiver = "joining" /\ delivered' = delivered
          /\ receiver' = IF panicked THEN "WorkerPanicked" ELSE "Closed"
          /\ worker = "finished" /\ results = <<>>
      BY <1>3 DEF JoinTerminalWorker, QueueInv, Ends
    <2>2. CASE panicked
      BY <1>1, <2>1, <2>2 DEF Service!ServiceNext, Service!Fail
    <2>3. CASE ~panicked
      <3>1. AllSendersDropped /\ Len(delivered) = Len(accepted)
        BY <2>1, <2>3, EmptyFacts, Lengths
           DEF QueueInv, StoppedAligned, Stopping, Answered
      <3> QED
        BY <1>1, <2>1, <2>3, <3>1 DEF Service!ServiceNext, Service!Close
    <2> QED
      BY <2>2, <2>3
  <1>4. CASE DropReceiver
    BY <1>1, <1>4 DEF DropReceiver, Service!ServiceNext, Service!Abandon
  <1>5. CASE ResultsDisconnected \/ CallAfterEnd \/ IntoIter
    <2>1. /\ delivered' = delivered
          /\ \/ receiver' = receiver
             \/ receiver = "Running" /\ receiver' = "joining"
      BY <1>5 DEF ResultsDisconnected, CallAfterEnd, IntoIter
    <2> QED
      BY <1>1, <2>1 DEF Service!serviceVars
  <1> QED
    BY <1>2, <1>3, <1>4, <1>5 DEF ReceiverNext, Receive

LEMMA StepMaps == QueueInv /\ [Next]_vars => ServiceStep
  <1> SUFFICES ASSUME QueueInv, [Next]_vars PROVE ServiceStep
    OBVIOUS
  <1>1. CASE UNCHANGED vars
    BY <1>1 DEF vars, senderVars, channels, workerVars, receiverVars, history, ServiceStep,
                Service!serviceVars, AllSendersDropped
  <1>2. CASE SenderNext
    BY <1>2, SenderMaps
  <1>3. CASE WorkerNext
    BY <1>3, WorkerFrame
       DEF senderVars, receiverVars, history, ServiceStep,
           Service!serviceVars, AllSendersDropped
  <1>4. CASE ReceiverNext
    BY <1>4, ReceiverMaps
  <1> QED
    BY <1>1, <1>2, <1>3, <1>4 DEF Next, Quiescent

(* Every behaviour of the queue, with its threads, channels and retries, is *)
(* one the service allows.                                                  *)
THEOREM QueueImplementsService == Spec => ImplementsService
  BY InitMaps, StepMaps, QueueInvariant, PTL DEF Spec, ImplementsService, ServiceStep
=============================================================================
