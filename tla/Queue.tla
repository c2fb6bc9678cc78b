------------------------------- MODULE Queue -------------------------------
(***************************************************************************)
(* The background diarization queue (src/pipeline/queued.rs): cloneable    *)
(* QueueSender handles feed one worker thread through a bounded request    *)
(* channel; the worker drains the channel into a batch, runs the batch,    *)
(* falls back to one run per file when the batch fails, and sends one      *)
(* result per request through a bounded result channel to a single         *)
(* QueueReceiver (or the iterator made of it), which joins the worker when *)
(* the result channel is disconnected.                                     *)
(*                                                                         *)
(* A channel is a sequence and a liveness flag per end.  crossbeam's       *)
(* rules are built into the guards: a full channel blocks send and rejects *)
(* try_send, a disconnected channel is drained before it reports so, and   *)
(* dropping the last receiving end discards what is queued.  Audio is      *)
(* represented by the file it belongs to.                                  *)
(*                                                                         *)
(* try_push borrows a handle, and a handle may be shared: several threads  *)
(* may be inside try_push through one handle at once.  A request therefore *)
(* remembers the calling thread, and a handle only when it is borrowed.    *)
(***************************************************************************)
EXTENDS Naturals, Sequences

CONSTANTS
  Senders,     \* QueueSender handles that may ever exist
  First,       \* the handle returned by QueueSender::new
  Callers,     \* threads that push
  Files,       \* files callers submit
  BadFiles,    \* files whose own run returns an error
  Capacity,    \* QueueConfig::capacity, used for both channels
  MaxJobs,     \* bound: job identifiers handed out
  MaxReplies,  \* bound: calls made after the receiver reached its end
  MayPanic     \* whether a pipeline run may panic

ASSUME SendersAssumption == First \in Senders
ASSUME CallersAssumption == Callers # {}
ASSUME FilesAssumption == Files # {} /\ BadFiles \subseteq Files
ASSUME CapacityAssumption == Capacity \in Nat \ {0}  \* QueueConfig::validate
ASSUME BoundsAssumption == MaxJobs \in Nat /\ MaxReplies \in Nat
ASSUME PanicAssumption == MayPanic \in BOOLEAN

VARIABLES
  nextJobId,   \* the shared AtomicU64
  sender,      \* state of each handle
  borrowed,    \* the handle each thread's try_push goes through, or none
  claimed,     \* the job identifier that push has claimed
  requests,    \* request channel
  requestRx,   \* the worker still owns request_rx
  batch,       \* requests drained by the worker
  outbox,      \* results the worker has computed and not sent
  results,     \* result channel
  resultTx,    \* the worker still owns result_tx
  worker,      \* program point of worker_loop
  panicked,    \* the worker unwinds, or has unwound
  receiver,    \* QueueReceiver: its state, joining the worker, or dropped
  iterating,   \* the receiver has been turned into a QueueReceiverIter
  yieldedTerminalError,
  accepted,    \* history: requests for which try_push returned Ok
  delivered,   \* history: results returned to the receiving caller
  replies      \* history: what calls returned once results had run out

senderVars   == <<nextJobId, sender, borrowed, claimed>>
channels     == <<requests, requestRx, results, resultTx>>
workerVars   == <<batch, outbox, worker, panicked>>
receiverVars == <<receiver, iterating, yieldedTerminalError, replies>>
history      == <<accepted, delivered>>
vars == <<senderVars, channels, workerVars, receiverVars, history>>

JobIds == 0 .. MaxJobs

Request == [job : JobIds, file : Files, from : Callers]

Result == [job : JobIds, file : Files, from : Callers, ok : BOOLEAN]

(* queued_result: a result carries the identity of its own request and the *)
(* outcome of running that request's file.                                 *)
QueuedResult(r, outcome) ==
  [job |-> r.job, file |-> r.file, from |-> r.from, ok |-> outcome]

(* The answer a request deserves, whatever it was batched with.            *)
OwnAnswer(r) == QueuedResult(r, r.file \notin BadFiles)

(* The request a push sends. *)
Claim(c, f) == [job |-> claimed[c], file |-> f, from |-> c]

Pushing(c) == borrowed[c] # {}

AllSendersDropped == \A s \in Senders : sender[s] \in {"unborn", "dropped"}

ReceiverAlive == receiver # "dropped"

(* try_push returns to its caller.                                         *)
Return(c) ==
  /\ borrowed' = [borrowed EXCEPT ![c] = {}]
  /\ claimed' = [claimed EXCEPT ![c] = 0]

(* What a call returns once results have run out: the terminal error of    *)
(* the state from recv and try_recv; from the iterator's next, one error   *)
(* if the worker panicked, and None from then on.                          *)
Reply(end) ==
  IF ~iterating THEN [via |-> "recv", what |-> end]
  ELSE [via |-> "next",
        what |-> IF yieldedTerminalError \/ end = "Closed" THEN "None" ELSE end]

(* Mutant: the iterator forgets that it yielded the terminal error. *)
GiveReplyForgetful(end) ==
  /\ replies' = Append(replies, Reply(end))
  /\ UNCHANGED yieldedTerminalError

GiveReply(end) ==
  /\ replies' = Append(replies, Reply(end))
  /\ yieldedTerminalError' = (yieldedTerminalError \/ (iterating /\ end # "Closed"))
-----------------------------------------------------------------------------
Init ==
  /\ nextJobId = 0
  /\ sender = [s \in Senders |-> IF s = First THEN "live" ELSE "unborn"]
  /\ borrowed = [c \in Callers |-> {}]
  /\ claimed = [c \in Callers |-> 0]
  /\ requests = <<>>
  /\ requestRx = TRUE
  /\ batch = <<>>
  /\ outbox = <<>>
  /\ results = <<>>
  /\ resultTx = TRUE
  /\ worker = "recv"
  /\ panicked = FALSE
  /\ receiver = "Running"
  /\ iterating = FALSE
  /\ yieldedTerminalError = FALSE
  /\ accepted = <<>>
  /\ delivered = <<>>
  /\ replies = <<>>
-----------------------------------------------------------------------------
(* Mutants.  Each is an operator below with one plausible bug; a   *)
(* property that none of them violated would say nothing about the code.   *)

(* The identifier of a rejected push is handed out again. *)
TrySendRejectedReusesId(c) ==
  /\ Pushing(c)
  /\ requestRx => Len(requests) >= Capacity
  /\ nextJobId' = nextJobId - 1
  /\ Return(c)
  /\ UNCHANGED <<sender, channels, workerVars, receiverVars, history>>

(* The request channel is unbounded. *)
TrySendUnbounded(c, f) ==
  /\ Pushing(c)
  /\ requestRx
  /\ requests' = Append(requests, Claim(c, f))
  /\ accepted' = Append(accepted, Claim(c, f))
  /\ Return(c)
  /\ UNCHANGED <<nextJobId, sender, requestRx, results, resultTx, workerVars,
                 receiverVars, delivered>>

(* The worker stops as soon as the senders are gone. *)
RecvDisconnectedUndrained ==
  /\ worker = "recv"
  /\ AllSendersDropped
  /\ worker' = "dropResultTx"
  /\ UNCHANGED <<senderVars, channels, batch, outbox, panicked, receiverVars,
                 history>>

(* Drained requests are put in front of the batch. *)
DrainOneInFront ==
  /\ worker = "drain"
  /\ requests # <<>>
  /\ batch' = <<Head(requests)>> \o batch
  /\ requests' = Tail(requests)
  /\ UNCHANGED <<senderVars, requestRx, results, resultTx, outbox, worker,
                 panicked, receiverVars, history>>

(* A failed batch ends the worker instead of being retried per file. *)
RunBatchFailedStops ==
  /\ worker = "process"
  /\ batch' = <<>>
  /\ worker' = "dropResultTx"
  /\ UNCHANGED <<senderVars, channels, outbox, panicked, receiverVars,
                 history>>

(* A panic is caught and forgotten. *)
PanicSwallowed ==
  /\ MayPanic
  /\ worker \in {"process", "individual"}
  /\ panicked' = TRUE
  /\ batch' = <<>>
  /\ worker' = "recv"
  /\ UNCHANGED <<senderVars, channels, outbox, receiverVars, history>>

(* The outcome of send_results is ignored. *)
SendResultFailedIgnored ==
  /\ worker = "send"
  /\ outbox # <<>>
  /\ ~ReceiverAlive
  /\ outbox' = <<>>
  /\ worker' = "recv"
  /\ UNCHANGED <<senderVars, channels, batch, panicked, receiverVars, history>>

(* Another clone of result_tx outlives the worker. *)
DropResultTxLeaked ==
  /\ worker = "dropResultTx"
  /\ worker' = "dropRequestRx"
  /\ UNCHANGED <<senderVars, channels, batch, outbox, panicked, receiverVars,
                 history>>

(* The outcome of the join is ignored. *)
JoinTerminalWorkerBlind ==
  /\ receiver = "joining"
  /\ worker = "finished"
  /\ receiver' = "Closed"
  /\ GiveReply("Closed")
  /\ UNCHANGED <<senderVars, channels, workerVars, iterating, history>>
-----------------------------------------------------------------------------
(* Senders.                                                                *)

(* #[derive(Clone)] on QueueSender: the clone shares channel and counter.  *)
CloneSender(s, t) ==
  /\ sender[s] = "live"
  /\ sender[t] = "unborn"
  /\ sender' = [sender EXCEPT ![t] = "live"]
  /\ UNCHANGED <<nextJobId, borrowed, claimed, channels, workerVars, receiverVars,
                 history>>

(* try_push, first step: fetch_add takes a job identifier before it is     *)
(* known whether the channel has room.  The handle is only borrowed, other *)
(* threads may be pushing through it.  The file of the request is looked   *)
(* at when it is admitted.                                                 *)
ClaimJobId(c, s) ==
  /\ ~Pushing(c)
  /\ sender[s] = "live"
  /\ nextJobId < MaxJobs
  /\ claimed' = [claimed EXCEPT ![c] = nextJobId]
  /\ nextJobId' = nextJobId + 1
  /\ borrowed' = [borrowed EXCEPT ![c] = {s}]
  /\ UNCHANGED <<sender, channels, workerVars, receiverVars, history>>

(* try_push, second step: try_send admits the request, *)
TrySend(c, f) ==
  /\ Pushing(c)
  /\ requestRx
  /\ Len(requests) < Capacity
  /\ requests' = Append(requests, Claim(c, f))
  /\ accepted' = Append(accepted, Claim(c, f))
  /\ Return(c)
  /\ UNCHANGED <<nextJobId, sender, requestRx, results, resultTx, workerVars,
                 receiverVars, delivered>>

(* or returns it to the caller (Full) or loses it (WorkerGone); the job    *)
(* identifier is spent in both cases.                                      *)
TrySendRejected(c) ==
  /\ Pushing(c)
  /\ requestRx => Len(requests) >= Capacity
  /\ Return(c)
  /\ UNCHANGED <<nextJobId, sender, channels, workerVars, receiverVars, history>>

(* A borrowed handle cannot be dropped.                                    *)
DropSender(s) ==
  /\ sender[s] = "live"
  /\ \A c \in Callers : s \notin borrowed[c]
  /\ sender' = [sender EXCEPT ![s] = "dropped"]
  /\ UNCHANGED <<nextJobId, borrowed, claimed, channels, workerVars, receiverVars,
                 history>>
-----------------------------------------------------------------------------
(* The worker thread.                                                      *)

(* request_rx.recv() returns the first request of a batch.                 *)
RecvFirst ==
  /\ worker = "recv"
  /\ requests # <<>>
  /\ batch' = <<Head(requests)>>
  /\ requests' = Tail(requests)
  /\ worker' = "drain"
  /\ UNCHANGED <<senderVars, requestRx, results, resultTx, outbox, panicked,
                 receiverVars, history>>

(* request_rx.recv() fails: empty, and no sender is left.                  *)
RecvDisconnected ==
  /\ worker = "recv"
  /\ requests = <<>>
  /\ AllSendersDropped
  /\ worker' = "dropResultTx"
  /\ UNCHANGED <<senderVars, channels, batch, outbox, panicked, receiverVars,
                 history>>

(* drain_batch: one try_recv of the loop.  Pushes interleave with it, so a *)
(* batch may outgrow the channel.                                          *)
DrainOne ==
  /\ worker = "drain"
  /\ requests # <<>>
  /\ batch' = Append(batch, Head(requests))
  /\ requests' = Tail(requests)
  /\ UNCHANGED <<senderVars, requestRx, results, resultTx, outbox, worker,
                 panicked, receiverVars, history>>

DrainDone ==
  /\ worker = "drain"
  /\ requests = <<>>
  /\ worker' = "process"
  /\ UNCHANGED <<senderVars, channels, batch, outbox, panicked, receiverVars,
                 history>>

(* process_batch: run_batch_with_config returned Ok, which takes every     *)
(* file to succeed; results are zipped with their requests.                *)
RunBatch ==
  /\ worker = "process"
  /\ \A i \in 1 .. Len(batch) : batch[i].file \notin BadFiles
  /\ outbox' = [i \in 1 .. Len(batch) |-> QueuedResult(batch[i], TRUE)]
  /\ batch' = <<>>
  /\ worker' = "send"
  /\ UNCHANGED <<senderVars, channels, panicked, receiverVars, history>>

(* run_batch_with_config returned Err: because of a bad file, or for a     *)
(* reason of its own (the batch paths can fail where single files do not). *)
RunBatchFailed ==
  /\ worker = "process"
  /\ worker' = "individual"
  /\ UNCHANGED <<senderVars, channels, batch, outbox, panicked, receiverVars,
                 history>>

(* process_individually: run_with_config on every file; the results are    *)
(* collected before any of them is sent.                                   *)
ProcessIndividually ==
  /\ worker = "individual"
  /\ outbox' = [i \in 1 .. Len(batch) |-> OwnAnswer(batch[i])]
  /\ batch' = <<>>
  /\ worker' = "send"
  /\ UNCHANGED <<senderVars, channels, panicked, receiverVars, history>>

(* A pipeline run panics: unwinding drops the batch, with any results      *)
(* computed so far, and then the parameters of worker_loop.                *)
Panic ==
  /\ MayPanic
  /\ worker \in {"process", "individual"}
  /\ panicked' = TRUE
  /\ batch' = <<>>
  /\ worker' = "dropResultTx"
  /\ UNCHANGED <<senderVars, channels, outbox, receiverVars, history>>

(* send_results: result_tx.send blocks while the result channel is full.   *)
SendResult ==
  /\ worker = "send"
  /\ outbox # <<>>
  /\ ReceiverAlive
  /\ Len(results) < Capacity
  /\ results' = Append(results, Head(outbox))
  /\ outbox' = Tail(outbox)
  /\ UNCHANGED <<senderVars, requests, requestRx, resultTx, batch, worker,
                 panicked, receiverVars, history>>

SendResultsDone ==
  /\ worker = "send"
  /\ outbox = <<>>
  /\ worker' = "recv"
  /\ UNCHANGED <<senderVars, channels, batch, outbox, panicked, receiverVars,
                 history>>

(* The receiver is gone: send fails, worker_loop returns.                  *)
SendResultFailed ==
  /\ worker = "send"
  /\ outbox # <<>>
  /\ ~ReceiverAlive
  /\ outbox' = <<>>
  /\ worker' = "dropResultTx"
  /\ UNCHANGED <<senderVars, channels, batch, panicked, receiverVars, history>>

(* Parameters are dropped in reverse order: result_tx, then request_rx.    *)
(* Between the two, a push is still admitted and then discarded.           *)
DropResultTx ==
  /\ worker = "dropResultTx"
  /\ resultTx' = FALSE
  /\ worker' = "dropRequestRx"
  /\ UNCHANGED <<senderVars, requests, requestRx, results, batch, outbox,
                 panicked, receiverVars, history>>

DropRequestRx ==
  /\ worker = "dropRequestRx"
  /\ requestRx' = FALSE
  /\ requests' = <<>>
  /\ worker' = "finished"
  /\ UNCHANGED <<senderVars, results, resultTx, batch, outbox, panicked,
                 receiverVars, history>>
-----------------------------------------------------------------------------
(* The receiver and its iterator.                                          *)

(* recv, try_recv or next returns a result. *)
RecvResult ==
  /\ receiver = "Running"
  /\ results # <<>>
  /\ delivered' = Append(delivered, Head(results))
  /\ results' = Tail(results)
  /\ UNCHANGED <<senderVars, requests, requestRx, resultTx, workerVars,
                 receiverVars, accepted>>

(* The result channel is empty and disconnected: the receiver blocks in    *)
(* JoinHandle::join.                                                       *)
ResultsDisconnected ==
  /\ receiver = "Running"
  /\ results = <<>>
  /\ ~resultTx
  /\ receiver' = "joining"
  /\ UNCHANGED <<senderVars, channels, workerVars, iterating,
                 yieldedTerminalError, replies, history>>

(* join_terminal_worker: the join decides the terminal state.              *)
JoinTerminalWorker ==
  /\ receiver = "joining"
  /\ worker = "finished"
  /\ LET end == IF panicked THEN "WorkerPanicked" ELSE "Closed"
     IN  receiver' = end /\ GiveReply(end)
  /\ UNCHANGED <<senderVars, channels, workerVars, iterating, history>>

(* A further call on a receiver whose state is terminal. *)
CallAfterEnd ==
  /\ receiver \in {"Closed", "WorkerPanicked"}
  /\ Len(replies) < MaxReplies
  /\ GiveReply(receiver)
  /\ UNCHANGED <<senderVars, channels, workerVars, receiver, iterating,
                 history>>

IntoIter ==
  /\ ~iterating
  /\ receiver \in {"Running", "Closed", "WorkerPanicked"}
  /\ iterating' = TRUE
  /\ UNCHANGED <<senderVars, channels, workerVars, receiver,
                 yieldedTerminalError, replies, history>>

(* The receiver is dropped without joining the worker. *)
DropReceiver ==
  /\ receiver = "Running"
  /\ receiver' = "dropped"
  /\ results' = <<>>
  /\ UNCHANGED <<senderVars, requests, requestRx, resultTx, workerVars,
                 iterating, yieldedTerminalError, replies, history>>
-----------------------------------------------------------------------------
Push(c) ==
  \/ \E s \in Senders : ClaimJobId(c, s)
  \/ \E f \in Files : TrySend(c, f)
  \/ TrySendRejected(c)

SenderNext ==
  \/ \E c \in Callers : Push(c)
  \/ \E s, t \in Senders : CloneSender(s, t)
  \/ \E s \in Senders : DropSender(s)

WorkerNext ==
  \/ RecvFirst \/ RecvDisconnected
  \/ DrainOne \/ DrainDone
  \/ RunBatch \/ RunBatchFailed \/ ProcessIndividually \/ Panic
  \/ SendResult \/ SendResultsDone \/ SendResultFailed
  \/ DropResultTx \/ DropRequestRx

Receive == RecvResult \/ ResultsDisconnected \/ JoinTerminalWorker

ReceiverNext == Receive \/ CallAfterEnd \/ IntoIter \/ DropReceiver

(* Everyone has finished: the only states in which nothing may happen.     *)
Quiescent ==
  /\ AllSendersDropped
  /\ worker = "finished"
  /\ receiver \in {"Closed", "WorkerPanicked", "dropped"}
  /\ UNCHANGED vars

Next ==
  \/ SenderNext
  \/ WorkerNext
  \/ ReceiverNext
  \/ Quiescent

Spec == Init /\ [][Next]_vars

(* A started try_push returns, the worker thread is scheduled and its runs *)
(* return, and the receiving caller keeps calling until it drops the       *)
(* receiver.  Nobody is obliged to push, to clone or to drop.              *)
Fairness ==
  /\ \A c \in Callers : WF_vars((\E f \in Files : TrySend(c, f)) \/ TrySendRejected(c))
  /\ WF_vars(WorkerNext)
  /\ WF_vars(Receive)

FairSpec == Spec /\ Fairness
-----------------------------------------------------------------------------
TypeOK ==
  /\ nextJobId \in JobIds
  /\ sender \in [Senders -> {"unborn", "live", "dropped"}]
  /\ borrowed \in [Callers -> SUBSET Senders]
  /\ claimed \in [Callers -> JobIds]
  /\ requests \in Seq(Request) /\ Len(requests) <= Capacity
  /\ requestRx \in BOOLEAN
  /\ batch \in Seq(Request)
  /\ outbox \in Seq(Result)
  /\ results \in Seq(Result) /\ Len(results) <= Capacity
  /\ resultTx \in BOOLEAN
  /\ worker \in {"recv", "drain", "process", "individual", "send",
                 "dropResultTx", "dropRequestRx", "finished"}
  /\ panicked \in BOOLEAN
  /\ receiver \in {"Running", "joining", "Closed", "WorkerPanicked", "dropped"}
  /\ iterating \in BOOLEAN
  /\ yieldedTerminalError \in BOOLEAN
  /\ accepted \in Seq(Request)
  /\ delivered \in Seq(Result)
  /\ replies \in Seq([via : {"recv", "next"},
                      what : {"Closed", "WorkerPanicked", "None"}])

(* Results reach the receiver in the order their requests were admitted,   *)
(* one per request, each with its own file's outcome: neither batching nor *)
(* the retry after a failed batch shifts, drops or taints an answer.       *)
AnsweredInOrder ==
  /\ Len(delivered) <= Len(accepted)
  /\ \A i \in 1 .. Len(delivered) : delivered[i] = OwnAnswer(accepted[i])

(* The strengthening the proofs of QueueProofs.tla are about.              *)

Stopping == {"dropResultTx", "dropRequestRx", "finished"}

(* Requests that have an answer in the result channel or at the caller.    *)
Answered == Len(delivered) + Len(results)

(* What the worker holds between the two channels.                         *)
Held == IF worker = "send" THEN Len(outbox) ELSE Len(batch)

(* Answers at the caller and in the channel belong to the first requests.  *)
AnswersAligned ==
  /\ AnsweredInOrder
  /\ receiver = "dropped" => results = <<>>
  /\ receiver # "dropped" =>
       /\ Answered <= Len(accepted)
       /\ \A i \in 1 .. Len(results) :
            results[i] = OwnAnswer(accepted[Len(delivered) + i])

(* While the worker runs, the requests it holds follow them, and those in  *)
(* the request channel come last; together they are all of them.           *)
WorkAligned ==
  receiver # "dropped" /\ worker \notin Stopping =>
    /\ Answered + Held + Len(requests) = Len(accepted)
    /\ \A i \in 1 .. Len(requests) : requests[i] = accepted[Answered + Held + i]
    /\ \A i \in 1 .. Len(batch) : batch[i] = accepted[Answered + i]
    /\ worker = "send" =>
         \A i \in 1 .. Len(outbox) : outbox[i] = OwnAnswer(accepted[Answered + i])

(* What is left in the worker's hands at each of its points.               *)
WorkerHolds ==
  /\ worker \in {"recv", "send"} => batch = <<>>
  /\ worker # "send" => outbox = <<>>

(* A worker that stops without a panic and with a live receiver has been   *)
(* told that no sender is left, and has answered everything.               *)
StoppedAligned ==
  worker \in Stopping /\ ~panicked /\ receiver # "dropped" =>
    AllSendersDropped /\ Answered = Len(accepted)

(* The order in which the worker lets go of its channel ends, and what the *)
(* receiver may conclude from it.                                          *)
Ends ==
  /\ panicked => worker \in Stopping
  /\ requestRx <=> worker # "finished"
  /\ resultTx <=> worker \notin {"dropRequestRx", "finished"}
  /\ receiver \in {"joining", "Closed", "WorkerPanicked"} => ~resultTx /\ results = <<>>
  /\ receiver \in {"Closed", "WorkerPanicked"} => worker = "finished"
  /\ receiver = "Closed" => ~panicked

(* A push in progress goes through a handle that is still there, so that   *)
(* nothing is admitted once the last one is dropped.                       *)
HandlesLive == \A c \in Callers : \A s \in borrowed[c] : sender[s] = "live"

QueueInv ==
  /\ TypeOK /\ HandlesLive
  /\ AnswersAligned /\ WorkAligned /\ WorkerHolds /\ StoppedAligned /\ Ends
-----------------------------------------------------------------------------
(* "Returns QueueError::Closed after the worker has finished and all       *)
(* queued results have been drained": at Closed nothing admitted is        *)
(* unanswered and no handle is left to admit more.                         *)
ClosedMeansAnswered ==
  receiver = "Closed" => /\ AllSendersDropped
                         /\ Len(delivered) = Len(accepted)

(* Job identifiers are unique, and the answers to one thread's pushes come *)
(* back in the order of their identifiers, through whichever handles it    *)
(* pushed and whoever pushed through them meanwhile; identifiers are       *)
(* claimed before the channel is entered and rejected pushes burn them.    *)
(* Answers of different threads may come out of identifier order, also     *)
(* when the threads share a handle.                                        *)
JobIdsOrdered ==
  /\ \A i, j \in 1 .. Len(accepted) :
       accepted[i].job = accepted[j].job => i = j
  /\ \A i, j \in 1 .. Len(delivered) :
       i < j /\ delivered[i].from = delivered[j].from
         => delivered[i].job < delivered[j].job

(* The iterator yields at most one terminal error, and is fused: after the *)
(* first None there is only None, also when recv had reported the end      *)
(* before the receiver was turned into an iterator.                        *)
IteratorFused ==
  \A i, j \in 1 .. Len(replies) :
    i < j /\ replies[i].via = "next" => replies[j] = [via |-> "next", what |-> "None"]

(* The queue implements the service: requests admitted, answered and ended *)
(* as QueueService.tla says.                                               *)
Service ==
  INSTANCE QueueService WITH
    Requests <- Request,
    Answers <- Result,
    Answer <- OwnAnswer,
    admitted <- accepted,
    answered <- delivered,
    sending <- ~AllSendersDropped,
    status <- CASE receiver \in {"Running", "joining"} -> "open"
                [] receiver = "Closed" -> "closed"
                [] receiver = "WorkerPanicked" -> "failed"
                [] receiver = "dropped" -> "abandoned"

ImplementsService == Service!ServiceInit /\ [][Service!ServiceNext]_(Service!serviceVars)

(* A caller is never told that the queue ended while a push can still be   *)
(* admitted: once WorkerPanicked or Closed is returned, no later step of   *)
(* any handle is admitted, and the reported end never changes.             *)
EndIsFinal ==
  [][(receiver \in {"Closed", "WorkerPanicked"})
       => UNCHANGED <<receiver, history>>]_vars

(* The receiver catches up: every admitted request is answered, unless a   *)
(* run panics or the receiver is dropped; a file that fails does not stop  *)
(* the worker.  The pushes are finitely many here (MaxJobs): producers     *)
(* that never stop could keep drain_batch from ever ending.                *)
EveryRequestAnswered ==
  Len(delivered) < Len(accepted) ~> \/ Len(delivered) = Len(accepted)
                                    \/ panicked
                                    \/ receiver = "dropped"

(* Once every handle is dropped, draining the receiver ends.               *)
DrainingEnds ==
  AllSendersDropped ~> receiver \in {"Closed", "WorkerPanicked", "dropped"}

(* A panic is reported to a receiver that keeps reading, even while sender *)
(* handles stay alive.                                                     *)
PanicReported ==
  panicked ~> receiver \in {"WorkerPanicked", "dropped"}

(* A worker whose receiver is gone stops at the next result it has to      *)
(* send, whether it was blocked on the full channel or not; an idle one    *)
(* stops when the last handle is dropped.                                  *)
AbandonedWorkerStops ==
  ( /\ receiver = "dropped"
    /\ \/ worker \in {"drain", "process", "individual"}
       \/ outbox # <<>>
       \/ requests # <<>>
       \/ AllSendersDropped ) ~> worker = "finished"
=============================================================================
