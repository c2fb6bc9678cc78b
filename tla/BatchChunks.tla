----------------------------- MODULE BatchChunks -----------------------------
(***************************************************************************)
(* The pipelined CoreML embedding of several files at once                 *)
(* (try_batch_chunk_embedding, BatchPrepWorker, BatchGpuWorker and         *)
(* FileCollector of pipeline/chunk_embedding).  One segmentation thread    *)
(* goes through the files and groups the windows of each into chunks       *)
(* tagged with their file; preparation workers and the GPU worker compete  *)
(* for them; the calling thread collects the embeddings file by file, and  *)
(* finishes a file when all its chunks have arrived, in whatever order.    *)
(*                                                                         *)
(* decoded_rx and embedded_rx live outside the scope of the threads: a     *)
(* send to either can only wait.  A file is given by its number of         *)
(* windows; the streaming of its windows is that of ChunkPipeline, and the *)
(* segmentation thread and its bridge are one here.                        *)
(***************************************************************************)
EXTENDS Integers, Sequences, FiniteSets

CONSTANTS
  Preps,   \* preparation workers
  Calls    \* the calls to look at: files, sizes of the channels

ASSUME PrepsAssumption == Preps # {} /\ IsFiniteSet(Preps)
ASSUME CallsAssumption ==
  \A c \in Calls :
    /\ c.files \in Seq(Nat)
    /\ {c.winCapacity, c.decodedCapacity, c.preparedCapacity, c.embeddedCapacity} \subseteq Nat \ {0}
    /\ c.mayFail \in BOOLEAN

VARIABLES
  call,       \* the member of Calls; files[f] is 0 for a file shorter than a window
  seg,        \* the segmentation thread: "off", "running", "ok", "failed"
  next,       \* the file and the index of the chunk it produces
  decoded,    \* TaggedDecoded [file, start, windows]
  prep,       \* prep worker: "recv", "prep", "send", "ok", "failed"
  prepHolds,
  prepared,   \* TaggedPrepared
  gpu,        \* "pollPrep", "pollDecoded", "select", "drain", "predict", "send", "ok", "failed"
  gpuHolds,
  embedded,   \* TaggedEmbedded
  collected,  \* per file, [received, slots]
  results,    \* per file, <<>> or the slots of the file when it was complete
  main,       \* "start", "collect", "joinSeg", "joinGpu", "joinPreps", "leave", "returned"
  outcome,    \* "none", "Declined", "Ok", "Err"
  faults      \* history: the threads that failed

segVars == <<call, seg, next>>
prepVars == <<prep, prepHolds>>
gpuVars == <<gpu, gpuHolds>>
mainVars == <<collected, results, main, outcome>>
vars == <<segVars, decoded, prepVars, prepared, gpuVars, embedded, mainVars, faults>>

Files == DOMAIN call.files
Nothing == [file |-> 0]
NewCollector == [received |-> 0, slots |-> <<>>]
\* div_ceil
ExpectedChunks(f) == (call.files[f] + call.winCapacity - 1) \div call.winCapacity
AllChunks[f \in Nat] == IF f = 0 THEN 0 ELSE AllChunks[f - 1] + ExpectedChunks(f)
Window(f, i) == <<f, i>>
PrepsGone == \A w \in Preps : prep[w] \in {"ok", "failed"}
GpuGone == gpu \in {"ok", "failed"}

Init ==
  /\ call \in Calls
  /\ seg = "off" /\ next = [file |-> 1, start |-> 0]
  /\ decoded = <<>> /\ prepared = <<>> /\ embedded = <<>>
  /\ prep = [w \in Preps |-> "recv"] /\ prepHolds = [w \in Preps |-> Nothing]
  /\ gpu = "pollPrep" /\ gpuHolds = Nothing
  /\ collected = [f \in Files |-> NewCollector]
  /\ results = [f \in Files |-> <<>>]
  /\ main = "start" /\ outcome = "none"
  /\ faults = {}
-----------------------------------------------------------------------------
(* The call is not for the batch path, or the threads are started.         *)
Start ==
  /\ main = "start"
  /\ IF Files = {} THEN main' = "returned" /\ outcome' = "Ok" /\ UNCHANGED seg
     ELSE IF (\E f \in Files : call.files[f] = 0) \/ AllChunks[Len(call.files)] < 2
     THEN main' = "returned" /\ outcome' = "Declined" /\ UNCHANGED seg
     ELSE main' = "collect" /\ seg' = "running" /\ UNCHANGED outcome
  /\ UNCHANGED <<call, next, decoded, prepVars, prepared, gpuVars, embedded, collected, results,
                 faults>>

\* A group of n windows, which starts where the last one ended.
Group(n) ==
  [file |-> next.file, start |-> next.start,
   windows |-> [i \in 1..n |-> Window(next.file, next.start * call.winCapacity + i - 1)]]
Left == call.files[next.file] - next.start * call.winCapacity

(* The next chunk of the file; the last may be short.                      *)
SegSend ==
  /\ seg = "running" /\ next.file \in Files
  /\ Len(decoded) < call.decodedCapacity
  /\ decoded' = Append(decoded, Group(IF Left < call.winCapacity THEN Left ELSE call.winCapacity))
  /\ next' = IF Left <= call.winCapacity THEN [file |-> next.file + 1, start |-> 0]
                                         ELSE [next EXCEPT !.start = @ + 1]
  /\ UNCHANGED <<call, seg, prepVars, prepared, gpuVars, embedded, mainVars, faults>>

SegEnd ==
  /\ seg = "running" /\ next.file \notin Files
  /\ seg' = "ok"
  /\ UNCHANGED <<call, next, decoded, prepVars, prepared, gpuVars, embedded, mainVars, faults>>

(* The stream of a file breaks off: what its bridge has grouped is sent.   *)
SegFail ==
  /\ call.mayFail
  /\ seg = "running"
  /\ \/ UNCHANGED decoded
     \/ \E n \in 1..call.winCapacity - 1 :
          /\ next.file \in Files /\ n <= Left /\ Len(decoded) < call.decodedCapacity
          /\ decoded' = Append(decoded, Group(n))
  /\ seg' = "failed"
  /\ faults' = faults \union {"seg"}
  /\ UNCHANGED <<call, next, prepVars, prepared, gpuVars, embedded, mainVars>>

SegGone == seg \in {"ok", "failed"}
-----------------------------------------------------------------------------
PrepRecv(w) ==
  /\ prep[w] = "recv" /\ decoded # <<>>
  /\ prep' = [prep EXCEPT ![w] = "prep"]
  /\ prepHolds' = [prepHolds EXCEPT ![w] = Head(decoded)]
  /\ decoded' = Tail(decoded)
  /\ UNCHANGED <<segVars, prepared, gpuVars, embedded, mainVars, faults>>

(* The decoded channel is disconnected and drained.                        *)
PrepEnd(w) ==
  /\ prep[w] = "recv" /\ decoded = <<>> /\ SegGone
  /\ prep' = [prep EXCEPT ![w] = "ok"]
  /\ UNCHANGED <<segVars, decoded, prepHolds, prepared, gpuVars, embedded, mainVars, faults>>

PrepDone(w) ==
  /\ prep[w] = "prep"
  /\ \/ prep' = [prep EXCEPT ![w] = "send"] /\ UNCHANGED <<prepHolds, faults>>
     \/ /\ call.mayFail
        /\ prep' = [prep EXCEPT ![w] = "failed"]
        /\ prepHolds' = [prepHolds EXCEPT ![w] = Nothing]
        /\ faults' = faults \union {w}
  /\ UNCHANGED <<segVars, decoded, prepared, gpuVars, embedded, mainVars>>

PrepSend(w) ==
  /\ prep[w] = "send"
  /\ \/ /\ ~GpuGone /\ Len(prepared) < call.preparedCapacity
        /\ prepared' = Append(prepared, prepHolds[w])
        /\ prep' = [prep EXCEPT ![w] = "recv"]
     \/ /\ GpuGone
        /\ prep' = [prep EXCEPT ![w] = "ok"]
        /\ UNCHANGED prepared
  /\ prepHolds' = [prepHolds EXCEPT ![w] = Nothing]
  /\ UNCHANGED <<segVars, decoded, gpuVars, embedded, mainVars, faults>>
-----------------------------------------------------------------------------
GpuTakePrepared ==
  /\ prepared # <<>>
  /\ gpu' = "predict" /\ gpuHolds' = Head(prepared)
  /\ prepared' = Tail(prepared) /\ UNCHANGED decoded

GpuTakeDecoded ==
  /\ decoded # <<>>
  /\ gpu' = "predict" /\ gpuHolds' = Head(decoded)
  /\ decoded' = Tail(decoded) /\ UNCHANGED prepared

GpuMove(to) == gpu' = to /\ UNCHANGED <<gpuHolds, prepared, decoded>>

\* Mutant: the worker stops with the decoded chunks, not with the prepared ones.
GpuStopEarly == prepared = <<>> /\ SegGone /\ decoded = <<>> /\ GpuMove("ok")

GpuStop == prepared = <<>> /\ PrepsGone /\ GpuMove("ok")

\* Once the decoded channel has ended, the worker blocks on the prepared one alone.
DecodedDone == decoded = <<>> /\ SegGone

(* try_recv on prepared_rx, try_recv on decoded_rx, select.                *)
GpuNextPrepared ==
  /\ \/ /\ gpu = "pollPrep"
        /\ \/ GpuTakePrepared
           \/ GpuStop
           \/ prepared = <<>> /\ ~PrepsGone /\ GpuMove("pollDecoded")
     \/ /\ gpu = "pollDecoded"
        /\ \/ GpuTakeDecoded
           \/ DecodedDone /\ GpuMove("drain")
           \/ decoded = <<>> /\ ~SegGone /\ GpuMove("select")
     \/ /\ gpu = "select"
        /\ \/ GpuTakePrepared \/ GpuStop \/ GpuTakeDecoded
           \/ DecodedDone /\ GpuMove("drain")
     \/ /\ gpu = "drain"
        /\ GpuTakePrepared \/ GpuStop
  /\ UNCHANGED <<segVars, prepVars, embedded, mainVars, faults>>

(* Preparing a decoded chunk or predicting.                                *)
GpuPredict ==
  /\ gpu = "predict"
  /\ \/ gpu' = "send" /\ UNCHANGED <<gpuHolds, prepared, faults>>
     \/ /\ call.mayFail
        /\ gpu' = "failed" /\ gpuHolds' = Nothing
        /\ prepared' = <<>>
        /\ faults' = faults \union {"gpu"}
  /\ UNCHANGED <<segVars, decoded, prepVars, embedded, mainVars>>

(* embedded_rx outlives the collector.                                     *)
GpuSend ==
  /\ gpu = "send" /\ Len(embedded) < call.embeddedCapacity
  /\ embedded' = Append(embedded, gpuHolds)
  /\ gpu' = "pollPrep" /\ gpuHolds' = Nothing
  /\ UNCHANGED <<segVars, decoded, prepVars, prepared, mainVars, faults>>
-----------------------------------------------------------------------------
\* Mutant: the chunk lands in the order of its arrival.
AddInOrder(c, chunk) ==
  [received |-> c.received + 1,
   slots |-> [i \in 1..Len(c.slots) + Len(chunk.windows) |->
                IF i <= Len(c.slots) THEN c.slots[i] ELSE chunk.windows[i - Len(c.slots)]]]

\* A slot that was never written holds zeros; n = max_slot_used.
Add(c, chunk) ==
  LET start == chunk.start * call.winCapacity
      n == start + Len(chunk.windows)
  IN  [received |-> c.received + 1,
       slots |-> [i \in 1..(IF Len(c.slots) > n THEN Len(c.slots) ELSE n) |->
                    IF i \in start + 1..n THEN chunk.windows[i - start]
                    ELSE IF i \in DOMAIN c.slots THEN c.slots[i] ELSE Nothing]]

(* A file that is complete goes through post_inference.                    *)
Collect ==
  /\ main = "collect" /\ embedded # <<>>
  /\ LET f == Head(embedded).file
         c == Add(collected[f], Head(embedded))
     IN  IF c.received >= ExpectedChunks(f)
         THEN /\ results' = [results EXCEPT ![f] = c.slots]
              /\ collected' = [collected EXCEPT ![f] = NewCollector]
         ELSE collected' = [collected EXCEPT ![f] = c] /\ UNCHANGED results
  /\ embedded' = Tail(embedded)
  /\ UNCHANGED <<segVars, decoded, prepVars, prepared, gpuVars, main, outcome, faults>>

Leave(result) == main' = "leave" /\ outcome' = result

(* The shape of a prediction is rejected, or post_inference fails.         *)
CollectFail ==
  /\ call.mayFail
  /\ main = "collect" /\ embedded # <<>>
  /\ Leave("Err")
  /\ embedded' = Tail(embedded)
  /\ faults' = faults \union {"collector"}
  /\ UNCHANGED <<segVars, decoded, prepVars, prepared, gpuVars, collected, results>>

CollectEnd ==
  /\ main = "collect" /\ embedded = <<>> /\ GpuGone
  /\ main' = "joinSeg"
  /\ UNCHANGED <<segVars, decoded, prepVars, prepared, gpuVars, embedded, collected, results,
                 outcome, faults>>

(* The first thread that failed, in this order, gives the error.           *)
Join ==
  /\ \/ main = "joinSeg" /\ SegGone
        /\ IF seg = "failed" THEN Leave("Err") ELSE main' = "joinGpu" /\ UNCHANGED outcome
     \/ main = "joinGpu" /\ GpuGone
        /\ IF gpu = "failed" THEN Leave("Err") ELSE main' = "joinPreps" /\ UNCHANGED outcome
     \/ main = "joinPreps" /\ PrepsGone
        /\ Leave(IF \E w \in Preps : prep[w] = "failed" THEN "Err" ELSE "Ok")
  /\ UNCHANGED <<segVars, decoded, prepVars, prepared, gpuVars, embedded, collected, results,
                 faults>>

(* The scope waits for every thread.                                       *)
Return ==
  /\ main = "leave" /\ SegGone /\ PrepsGone /\ GpuGone
  /\ main' = "returned"
  /\ UNCHANGED <<segVars, decoded, prepVars, prepared, gpuVars, embedded, collected, results,
                 outcome, faults>>
-----------------------------------------------------------------------------
Started == main # "start" /\ seg # "off"
SegNext == SegSend \/ SegEnd \/ SegFail
PrepNext(w) == Started /\ (PrepRecv(w) \/ PrepEnd(w) \/ PrepDone(w) \/ PrepSend(w))
GpuNext == Started /\ (GpuNextPrepared \/ GpuPredict \/ GpuSend)
MainNext == Start \/ Collect \/ CollectFail \/ CollectEnd \/ Join \/ Return

(* The call is over.                                                       *)
Returned == main = "returned" /\ UNCHANGED vars

Next == SegNext \/ (\E w \in Preps : PrepNext(w)) \/ GpuNext \/ MainNext \/ Returned

Spec == Init /\ [][Next]_vars

(* Every thread is scheduled, and every model call returns.                *)
FairSpec ==
  /\ Spec
  /\ WF_vars(SegNext) /\ WF_vars(GpuNext) /\ WF_vars(MainNext)
  /\ \A w \in Preps : WF_vars(PrepNext(w))
-----------------------------------------------------------------------------
(* No failure is lost and none invented: the threads are joined in an      *)
(* order of their own, and a truncated group may complete a file.  A call  *)
(* that succeeds gives every file its own windows, all of them, in order,  *)
(* although the chunks of the files overtake each other and a file is      *)
(* finished by counting its chunks: no file gets the empty result meant    *)
(* for a file without windows.                                             *)
OutcomeTruthful ==
  /\ main \in {"leave", "returned"} => (outcome = "Err" <=> faults # {})
  /\ outcome = "Ok" => \A f \in Files :
       results[f] = [i \in 1..call.files[f] |-> Window(f, i - 1)]

(* The call returns, if its chunks fit in the channels when a thread fails *)
(* (ChunkPipeline shows what happens when they do not).                    *)
CallReturns == <>(main = "returned")
=============================================================================
