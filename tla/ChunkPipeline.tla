---------------------------- MODULE ChunkPipeline ----------------------------
(***************************************************************************)
(* The pipelined CoreML embedding of one file (try_chunk_embedding and     *)
(* run_pipelined, pipeline/chunk_embedding.rs and chunk_embedding/).       *)
(* A segmentation thread streams windows; a bridge groups them into        *)
(* chunks; preparation workers and the GPU worker compete for the chunks;  *)
(* the GPU worker predicts; the calling thread collects the embeddings by  *)
(* slot, then joins everybody.  All channels are bounded and all threads   *)
(* belong to one scope, which the call cannot leave before they end.       *)
(*                                                                         *)
(* chunk_rx is borrowed by the workers from outside the scope: unlike      *)
(* every other channel, the chunk channel is never disconnected on its     *)
(* receiving side, so the bridge's send can only wait.                     *)
(***************************************************************************)
EXTENDS Integers, Sequences, FiniteSets

CONSTANTS
  Preps,   \* preparation workers
  Calls    \* the calls to look at: sizes of the file and of the channels

ASSUME PrepsAssumption == Preps # {} /\ IsFiniteSet(Preps)
ASSUME CallsAssumption ==
  Calls \subseteq [total : Nat \ {0}, winCapacity : Nat \ {0}, segCapacity : Nat \ {0},
                   chunkCapacity : Nat \ {0}, prepCapacity : Nat \ {0},
                   embCapacity : Nat \ {0}, mayFail : BOOLEAN]

VARIABLES
  call,         \* the member of Calls
  segmenter,    \* "running", "ok", "failed"
  produced,     \* windows streamed so far
  windows,      \* seg channel
  bridge,       \* "grouping", "ended"
  group,        \* windows of the chunk being grouped
  globalStart,  \* slot of its first window
  chunks,       \* chunk channel: DecodedChunk
  prep,         \* prep worker: "recv", "prep", "send", "ok", "failed"
  prepHolds,    \* the chunk it prepares or sends
  prepared,     \* prep channel
  gpu,          \* where the GPU worker is: see GpuNext
  gpuHolds,     \* the chunk it predicts or sends
  decodedDone,  \* GpuWorker::run: the chunk channel is exhausted
  embedded,     \* emb channel
  slots,        \* window stored in each slot, NoWindow where none is
  main,         \* "collect", "joinGpu", "joinPreps", "joinSeg", "joinBridge",
                \* "leave" (waiting for the scope), "returned"
  outcome,      \* "none", "Ok", "Err"
  faults        \* history: the threads that failed

Total == call.total                   \* windows of the file
WinCapacity == call.winCapacity       \* windows of a full chunk
SegCapacity == call.segCapacity       \* channels: 100, 100, 48 and 8 in the code
ChunkCapacity == call.chunkCapacity
PrepCapacity == call.prepCapacity
EmbCapacity == call.embCapacity
MayFail == call.mayFail               \* segmentation, preparation, prediction, collection

segVars  == <<call, segmenter, produced>>
bridgeVars == <<bridge, group, globalStart>>
prepVars == <<prep, prepHolds>>
gpuVars  == <<gpu, gpuHolds, decodedDone>>
mainVars == <<slots, main, outcome>>
vars == <<segVars, windows, bridgeVars, chunks, prepVars, prepared, gpuVars, embedded,
          mainVars, faults>>

NoWindow == -1

Chunk(start, content) == [start |-> start, content |-> content]

NoChunk == Chunk(0, <<>>)

PrepsGone == \A w \in Preps : prep[w] \in {"ok", "failed"}
GpuGone == gpu \in {"ok", "failed"}
Collecting == main = "collect"

Init ==
  /\ call \in Calls
  /\ segmenter = "running" /\ produced = 0 /\ windows = <<>>
  /\ bridge = "grouping" /\ group = <<>> /\ globalStart = 0 /\ chunks = <<>>
  /\ prep = [w \in Preps |-> "recv"] /\ prepHolds = [w \in Preps |-> NoChunk]
  /\ prepared = <<>>
  /\ gpu = "pollPrep" /\ gpuHolds = NoChunk /\ decodedDone = FALSE
  /\ embedded = <<>>
  /\ slots = [i \in 0 .. Total - 1 |-> NoWindow]
  /\ main = "collect" /\ outcome = "none"
  /\ faults = {}
-----------------------------------------------------------------------------
(* The segmentation thread, by what SegmentationBatch establishes: windows *)
(* in order, and an error if it stops early.  A thread that is blocked on  *)
(* a full channel does not fail.                                           *)
SegSend ==
  /\ segmenter = "running" /\ produced < Total
  /\ Len(windows) < SegCapacity
  /\ windows' = Append(windows, produced)
  /\ produced' = produced + 1
  /\ UNCHANGED <<call, segmenter, bridgeVars, chunks, prepVars, prepared, gpuVars, embedded,
                 mainVars, faults>>

SegEnd ==
  /\ segmenter = "running" /\ produced = Total
  /\ segmenter' = "ok"
  /\ UNCHANGED <<call, produced, windows, bridgeVars, chunks, prepVars, prepared, gpuVars,
                 embedded, mainVars, faults>>

SegFail ==
  /\ MayFail
  /\ segmenter = "running" /\ Len(windows) < SegCapacity
  /\ segmenter' = "failed"
  /\ faults' = faults \union {"segmenter"}
  /\ UNCHANGED <<call, produced, windows, bridgeVars, chunks, prepVars, prepared, gpuVars,
                 embedded, mainVars>>
-----------------------------------------------------------------------------
BridgeTake ==
  /\ bridge = "grouping" /\ Len(group) < WinCapacity
  /\ windows # <<>>
  /\ group' = Append(group, Head(windows))
  /\ windows' = Tail(windows)
  /\ UNCHANGED <<segVars, bridge, globalStart, chunks, prepVars, prepared, gpuVars, embedded,
                 mainVars, faults>>

BridgeSend ==
  /\ bridge = "grouping" /\ Len(group) = WinCapacity
  /\ Len(chunks) < ChunkCapacity
  /\ chunks' = Append(chunks, Chunk(globalStart, group))
  /\ globalStart' = globalStart + WinCapacity
  /\ group' = <<>>
  /\ UNCHANGED <<segVars, windows, bridge, prepVars, prepared, gpuVars, embedded, mainVars,
                 faults>>

(* The stream has ended: an unfinished group is sent as a short chunk.     *)
BridgeEnd ==
  /\ bridge = "grouping" /\ Len(group) < WinCapacity
  /\ windows = <<>> /\ segmenter # "running"
  /\ \/ group = <<>> /\ UNCHANGED chunks
     \/ /\ group # <<>> /\ Len(chunks) < ChunkCapacity
        /\ chunks' = Append(chunks, Chunk(globalStart, group))
  /\ bridge' = "ended"
  /\ group' = <<>>
  /\ UNCHANGED <<segVars, windows, globalStart, prepVars, prepared, gpuVars, embedded,
                 mainVars, faults>>
-----------------------------------------------------------------------------
PrepRecv(w) ==
  /\ prep[w] = "recv"
  /\ chunks # <<>>
  /\ prep' = [prep EXCEPT ![w] = "prep"]
  /\ prepHolds' = [prepHolds EXCEPT ![w] = Head(chunks)]
  /\ chunks' = Tail(chunks)
  /\ UNCHANGED <<segVars, windows, bridgeVars, prepared, gpuVars, embedded, mainVars, faults>>

PrepEnd(w) ==
  /\ prep[w] = "recv"
  /\ chunks = <<>> /\ bridge = "ended"
  /\ prep' = [prep EXCEPT ![w] = "ok"]
  /\ UNCHANGED <<segVars, windows, bridgeVars, chunks, prepHolds, prepared, gpuVars, embedded,
                 mainVars, faults>>

PrepDone(w) ==
  /\ prep[w] = "prep"
  /\ prep' = [prep EXCEPT ![w] = "send"]
  /\ UNCHANGED <<segVars, windows, bridgeVars, chunks, prepHolds, prepared, gpuVars, embedded,
                 mainVars, faults>>

(* A prepared chunk goes to the GPU worker; if that is gone, so does this. *)
PrepSend(w) ==
  /\ prep[w] = "send"
  /\ \/ /\ ~GpuGone /\ Len(prepared) < PrepCapacity
        /\ prepared' = Append(prepared, prepHolds[w])
        /\ prep' = [prep EXCEPT ![w] = "recv"]
     \/ /\ GpuGone
        /\ prep' = [prep EXCEPT ![w] = "ok"]
        /\ UNCHANGED prepared
  /\ prepHolds' = [prepHolds EXCEPT ![w] = NoChunk]
  /\ UNCHANGED <<segVars, windows, bridgeVars, chunks, gpuVars, embedded, mainVars, faults>>

PrepFail(w) ==
  /\ MayFail
  /\ prep[w] = "prep"
  /\ prep' = [prep EXCEPT ![w] = "failed"]
  /\ prepHolds' = [prepHolds EXCEPT ![w] = NoChunk]
  /\ faults' = faults \union {w}
  /\ UNCHANGED <<segVars, windows, bridgeVars, chunks, prepared, gpuVars, embedded, mainVars>>
-----------------------------------------------------------------------------
GpuTakePrepared ==
  /\ prepared # <<>>
  /\ gpu' = "predict"
  /\ gpuHolds' = Head(prepared)
  /\ prepared' = Tail(prepared)
  /\ UNCHANGED <<chunks, decodedDone>>

(* The GPU worker prepares a chunk itself.                                 *)
GpuTakeDecoded ==
  /\ chunks # <<>>
  /\ gpu' = "predict"
  /\ gpuHolds' = Head(chunks)
  /\ chunks' = Tail(chunks)
  /\ UNCHANGED <<prepared, decodedDone>>

(* The prep channel is disconnected and drained.                           *)
GpuStop ==
  /\ prepared = <<>> /\ PrepsGone
  /\ gpu' = "ok"
  /\ UNCHANGED <<gpuHolds, prepared, chunks, decodedDone>>

GpuMove(to, done) ==
  /\ gpu' = to
  /\ decodedDone' = done
  /\ UNCHANGED <<gpuHolds, prepared, chunks>>

(* Mutant: the worker stops when the chunk channel is exhausted.           *)
GpuDecodedDoneStops == chunks = <<>> /\ bridge = "ended" /\ GpuMove("ok", TRUE)

(* The chunk channel is disconnected and drained: from now on the worker   *)
(* blocks on prep_rx alone.                                                *)
GpuDecodedDone == chunks = <<>> /\ bridge = "ended" /\ GpuMove("drain", TRUE)

(* next_prepared: try_recv on prep_rx, try_recv on chunk_rx, select.       *)
NextPrepared ==
  /\ \/ /\ gpu = "pollPrep"
        /\ \/ GpuTakePrepared
           \/ GpuStop
           \/ /\ prepared = <<>> /\ ~PrepsGone
              /\ GpuMove(IF decodedDone THEN "drain" ELSE "pollChunk", decodedDone)
     \/ /\ gpu = "pollChunk"
        /\ \/ GpuTakeDecoded
           \/ GpuDecodedDone
           \/ chunks = <<>> /\ bridge # "ended" /\ GpuMove("select", decodedDone)
     \/ /\ gpu = "select"
        /\ GpuTakePrepared \/ GpuStop \/ GpuTakeDecoded \/ GpuDecodedDone
     \/ /\ gpu = "drain"
        /\ GpuTakePrepared \/ GpuStop
  /\ UNCHANGED <<segVars, windows, bridgeVars, prepVars, embedded, mainVars, faults>>

GpuPredict ==
  /\ gpu = "predict"
  /\ gpu' = "send"
  /\ UNCHANGED <<segVars, windows, bridgeVars, chunks, prepVars, prepared, gpuHolds,
                 decodedDone, embedded, mainVars, faults>>

(* Mutant: a send that waits for room even if the collector is gone.       *)
GpuSendWaits ==
  /\ gpu = "send"
  /\ Len(embedded) < EmbCapacity
  /\ embedded' = Append(embedded, gpuHolds)
  /\ gpu' = "pollPrep"
  /\ gpuHolds' = NoChunk
  /\ UNCHANGED <<segVars, windows, bridgeVars, chunks, prepVars, prepared, decodedDone,
                 mainVars, faults>>

(* A prediction is sent; if the collector is gone the worker stops and     *)
(* drops prep_rx.                                                          *)
GpuSend ==
  /\ gpu = "send"
  /\ \/ /\ Collecting /\ Len(embedded) < EmbCapacity
        /\ embedded' = Append(embedded, gpuHolds)
        /\ gpu' = "pollPrep"
        /\ UNCHANGED prepared
     \/ /\ ~Collecting
        /\ gpu' = "ok"
        /\ prepared' = <<>>
        /\ UNCHANGED embedded
  /\ gpuHolds' = NoChunk
  /\ UNCHANGED <<segVars, windows, bridgeVars, chunks, prepVars, decodedDone, mainVars, faults>>

(* Preparing or predicting fails: the error leaves run.                    *)
GpuFail ==
  /\ MayFail
  /\ gpu = "predict"
  /\ gpu' = "failed"
  /\ gpuHolds' = NoChunk
  /\ prepared' = <<>>
  /\ faults' = faults \union {"gpu"}
  /\ UNCHANGED <<segVars, windows, bridgeVars, chunks, prepVars, decodedDone, embedded, mainVars>>
-----------------------------------------------------------------------------
Store(chunk) ==
  [i \in 0 .. Total - 1 |->
     IF i \in chunk.start .. chunk.start + Len(chunk.content) - 1
       THEN chunk.content[i - chunk.start + 1]
       ELSE slots[i]]

Collect ==
  /\ main = "collect" /\ embedded # <<>>
  /\ slots' = Store(Head(embedded))
  /\ embedded' = Tail(embedded)
  /\ UNCHANGED <<segVars, windows, bridgeVars, chunks, prepVars, prepared, gpuVars, main,
                 outcome, faults>>

Leave(result) == main' = "leave" /\ outcome' = result

(* batch_embeddings rejects the shape of a prediction: emb_rx is dropped.  *)
CollectFail ==
  /\ MayFail
  /\ main = "collect" /\ embedded # <<>>
  /\ Leave("Err")
  /\ embedded' = <<>>
  /\ faults' = faults \union {"collector"}
  /\ UNCHANGED <<segVars, windows, bridgeVars, chunks, prepVars, prepared, gpuVars, slots>>

(* gpu_emb_tx is dropped and the channel is drained.                       *)
CollectEnd ==
  /\ main = "collect"
  /\ embedded = <<>> /\ GpuGone
  /\ main' = "joinGpu"
  /\ UNCHANGED <<segVars, windows, bridgeVars, chunks, prepVars, prepared, gpuVars, embedded,
                 slots, outcome, faults>>

JoinGpu ==
  /\ main = "joinGpu" /\ GpuGone
  /\ IF gpu = "failed" THEN Leave("Err")
                       ELSE main' = "joinPreps" /\ UNCHANGED outcome
  /\ UNCHANGED <<segVars, windows, bridgeVars, chunks, prepVars, prepared, gpuVars, embedded,
                 slots, faults>>

JoinPreps ==
  /\ main = "joinPreps" /\ PrepsGone
  /\ IF \E w \in Preps : prep[w] = "failed"
       THEN Leave("Err")
       ELSE main' = "joinSeg" /\ UNCHANGED outcome
  /\ UNCHANGED <<segVars, windows, bridgeVars, chunks, prepVars, prepared, gpuVars, embedded,
                 slots, faults>>

JoinSeg ==
  /\ main = "joinSeg" /\ segmenter # "running"
  /\ IF segmenter = "failed" THEN Leave("Err")
                             ELSE main' = "joinBridge" /\ UNCHANGED outcome
  /\ UNCHANGED <<segVars, windows, bridgeVars, chunks, prepVars, prepared, gpuVars, embedded,
                 slots, faults>>

JoinBridge ==
  /\ main = "joinBridge" /\ bridge = "ended"
  /\ Leave("Ok")
  /\ UNCHANGED <<segVars, windows, bridgeVars, chunks, prepVars, prepared, gpuVars, embedded,
                 slots, faults>>

(* The scope waits for every thread it started.                            *)
Return ==
  /\ main = "leave"
  /\ segmenter # "running" /\ bridge = "ended" /\ PrepsGone /\ GpuGone
  /\ main' = "returned"
  /\ UNCHANGED <<segVars, windows, bridgeVars, chunks, prepVars, prepared, gpuVars, embedded,
                 slots, outcome, faults>>
-----------------------------------------------------------------------------
SegNext == SegSend \/ SegEnd \/ SegFail
BridgeNext == BridgeTake \/ BridgeSend \/ BridgeEnd
PrepNext(w) == PrepRecv(w) \/ PrepEnd(w) \/ PrepDone(w) \/ PrepSend(w) \/ PrepFail(w)
GpuNext == NextPrepared \/ GpuPredict \/ GpuSend \/ GpuFail
MainNext ==
  Collect \/ CollectFail \/ CollectEnd \/ JoinGpu \/ JoinPreps \/ JoinSeg \/ JoinBridge \/ Return

(* Every thread has ended and the call is over.                            *)
Returned == main = "returned" /\ UNCHANGED vars

Next ==
  \/ SegNext \/ BridgeNext \/ (\E w \in Preps : PrepNext(w)) \/ GpuNext \/ MainNext
  \/ Returned

Spec == Init /\ [][Next]_vars

(* Every thread is scheduled and every model call returns, with a result   *)
(* or an error.                                                            *)
FairSpec ==
  /\ Spec
  /\ WF_vars(SegNext) /\ WF_vars(BridgeNext) /\ WF_vars(GpuNext) /\ WF_vars(MainNext)
  /\ \A w \in Preps : WF_vars(PrepNext(w))
-----------------------------------------------------------------------------
(* No failure of any thread is lost, and none is invented: whichever       *)
(* threads fail, in whatever order they are joined, the call ends with an  *)
(* error, and only then.  Chunks overtake each other between the           *)
(* preparation workers and the GPU worker, yet a call that succeeds has    *)
(* every window of the file, each in its own slot.                         *)
OutcomeTruthful ==
  /\ main \in {"leave", "returned"} => (outcome = "Err" <=> faults # {})
  /\ outcome = "Ok" => \A i \in 0 .. Total - 1 : slots[i] = i

(* The call returns: backpressure through five bounded channels and two    *)
(* consumers of the same channel never end in everyone waiting.            *)
CallReturns == <>(main = "returned")

(* "Per-job failures are surfaced here without stopping the worker": a     *)
(* call in which a thread fails returns its error.                         *)
FailureSurfaced == (faults # {}) ~> (main = "returned")
=============================================================================
