----------------------------- MODULE ChunkProofs -----------------------------
(***************************************************************************)
(* Theorems about the pipelined embedding of one file: chunks overtake     *)
(* each other and threads fail in any order, yet the outcome tells the     *)
(* truth, for files and channels of any size and any number of workers.    *)
(***************************************************************************)
EXTENDS ChunkPipeline, SequenceTheorems, TLAPS

Slots == 0 .. Total - 1

(* Chunks as they travel: consecutive windows, named by their first.       *)
ChunkSet ==
  {ch \in [start : Nat, content : Seq(Int)] :
     /\ ch.start + Len(ch.content) <= Total
     /\ \A j \in 1 .. Len(ch.content) : ch.content[j] = ch.start + j - 1}

FrontTypes ==
  /\ call \in Calls
  /\ segmenter \in {"running", "ok", "failed"} /\ produced \in 0 .. Total
  /\ windows \in Seq(Int)
  /\ bridge \in {"grouping", "ended"} /\ group \in Seq(Int) /\ globalStart \in Nat
  /\ chunks \in Seq(ChunkSet)

BackTypes ==
  /\ prep \in [Preps -> {"recv", "prep", "send", "ok", "failed"}]
  /\ prepHolds \in [Preps -> ChunkSet]
  /\ prepared \in Seq(ChunkSet)
  /\ gpu \in {"pollPrep", "pollChunk", "select", "drain", "predict", "send", "ok", "failed"}
  /\ gpuHolds \in ChunkSet
  /\ embedded \in Seq(ChunkSet)
  /\ slots = [i \in Slots |-> slots[i]]
  /\ main \in {"collect", "joinGpu", "joinPreps", "joinSeg", "joinBridge", "leave", "returned"}
  /\ outcome \in {"none", "Ok", "Err"}

(* The group being formed and the windows on their way continue the chunks *)
(* sent so far.                                                            *)
BridgeInv ==
  /\ bridge = "grouping" =>
       /\ globalStart + Len(group) + Len(windows) = produced
       /\ \A j \in 1 .. Len(group) : group[j] = globalStart + j - 1
       /\ \A j \in 1 .. Len(windows) : windows[j] = globalStart + Len(group) + j - 1
  /\ bridge = "ended" => segmenter # "running"
  /\ segmenter = "ok" => produced = Total

HoldInv ==
  /\ \A w \in Preps : prep[w] \notin {"prep", "send"} => prepHolds[w] = NoChunk
  /\ gpu \notin {"predict", "send"} => gpuHolds = NoChunk

(* A failure is visible at the thread that failed, or is the outcome.      *)
FaultInv ==
  faults = {} <=>
    /\ segmenter # "failed" /\ gpu # "failed" /\ outcome # "Err"
    /\ \A w \in Preps : prep[w] # "failed"

(* Without a failure the threads end in the order of the data flow, each   *)
(* with its input drained.                                                 *)
EndInv ==
  faults = {} =>
    /\ \A w \in Preps : prep[w] = "ok" => chunks = <<>> /\ bridge = "ended"
    /\ GpuGone => PrepsGone /\ prepared = <<>>
    /\ main # "collect" => GpuGone /\ embedded = <<>>

(* What the calling thread knows of the threads it has joined.             *)
JoinInv ==
  /\ outcome # "none" <=> main \in {"leave", "returned"}
  /\ main \in {"joinPreps", "joinSeg", "joinBridge"} \/ outcome = "Ok" => gpu = "ok"
  /\ main \in {"joinSeg", "joinBridge"} \/ outcome = "Ok" => \A w \in Preps : prep[w] = "ok"
  /\ main = "joinBridge" \/ outcome = "Ok" => segmenter = "ok"
  /\ outcome = "Ok" => bridge = "ended"

(* No window disappears: each that has left the bridge is somewhere.       *)
In(ch, i) == i \in ch.start .. ch.start + Len(ch.content) - 1
Holds(q, i) == \E k \in 1 .. Len(q) : In(q[k], i)

Accounted(i) ==
  \/ Holds(chunks, i) \/ (\E w \in Preps : In(prepHolds[w], i)) \/ Holds(prepared, i)
  \/ In(gpuHolds, i) \/ Holds(embedded, i) \/ slots[i] = i

SentUpTo == IF bridge = "grouping" THEN globalStart ELSE produced

AccountInv == faults = {} => \A i \in Slots : i < SentUpTo => Accounted(i)

ChunkInv ==
  /\ FrontTypes /\ BackTypes /\ BridgeInv /\ HoldInv /\ FaultInv /\ EndInv /\ JoinInv
  /\ AccountInv
-----------------------------------------------------------------------------
(* The sizes of a call.                                                    *)
LEMMA CallSizes ==
  ASSUME call \in Calls
  PROVE  Total \in Nat \ {0} /\ WinCapacity \in Nat \ {0}
BY CallsAssumption DEF Total, WinCapacity

(* No window is in an empty chunk or queue.                                *)
LEMMA NothingInNoChunk == ASSUME NEW i \in Int PROVE ~In(NoChunk, i)
BY DEF In, NoChunk, Chunk

LEMMA NothingInEmpty == ASSUME NEW i PROVE ~Holds(<<>>, i)
BY DEF Holds

(* Taking the first chunk of a queue leaves the others there.              *)
LEMMA HoldsHead ==
  ASSUME NEW S, NEW q \in Seq(S), q # <<>>, NEW i
  PROVE  /\ Head(q) \in S /\ Tail(q) \in Seq(S)
         /\ Holds(q, i) => In(Head(q), i) \/ Holds(Tail(q), i)
<1>1. Head(q) \in S /\ Tail(q) \in Seq(S)
  BY HeadTailProperties
<1>2. Len(q) \in Nat /\ Len(q) > 0 /\ Len(Tail(q)) = Len(q) - 1
  BY HeadTailProperties, EmptySeq, LenProperties
<1>3. \A k \in 1 .. Len(Tail(q)) : Tail(q)[k] = q[k + 1]
  BY HeadTailProperties
<1>4. ASSUME NEW k \in 1 .. Len(q), In(q[k], i)
      PROVE  In(Head(q), i) \/ Holds(Tail(q), i)
  <2>1. CASE k = 1
    BY <2>1, <1>4
  <2>2. CASE k # 1
    <3>1. k - 1 \in 1 .. Len(Tail(q)) /\ (k - 1) + 1 = k
      BY <2>2, <1>2
    <3>2. Tail(q)[k - 1] = q[k]
      BY <3>1, <1>3
    <3> QED BY <3>1, <3>2, <1>4 DEF Holds
  <2> QED BY <2>1, <2>2
<1> QED BY <1>1, <1>4 DEF Holds

(* A chunk sent to a queue is in it, and so is all that was.               *)
LEMMA HoldsAppend ==
  ASSUME NEW S, NEW q \in Seq(S), NEW ch \in S, NEW i
  PROVE  /\ Append(q, ch) \in Seq(S)
         /\ In(ch, i) \/ Holds(q, i) => Holds(Append(q, ch), i)
<1>1. /\ Append(q, ch) \in Seq(S) /\ Len(Append(q, ch)) = Len(q) + 1
      /\ \A k \in 1 .. Len(q) : Append(q, ch)[k] = q[k]
      /\ Append(q, ch)[Len(q) + 1] = ch
  BY AppendProperties
<1>2. Len(q) \in Nat
  BY LenProperties
<1>3. In(ch, i) => Holds(Append(q, ch), i)
  <2>1. Len(q) + 1 \in 1 .. Len(Append(q, ch))
    BY <1>1, <1>2
  <2> QED BY <2>1, <1>1 DEF Holds
<1>4. ASSUME NEW k \in 1 .. Len(q), In(q[k], i) PROVE Holds(Append(q, ch), i)
  <2>1. k \in 1 .. Len(Append(q, ch))
    BY <1>1, <1>2
  <2> QED BY <2>1, <1>4, <1>1 DEF Holds
<1> QED BY <1>1, <1>3, <1>4 DEF Holds

LEMMA NoChunkInSet == ASSUME call \in Calls PROVE NoChunk \in ChunkSet
<1>1. NoChunk \in [start : Nat, content : Seq(Int)] /\ Len(NoChunk.content) = 0
  BY DEF NoChunk, Chunk
<1>2. NoChunk.start + Len(NoChunk.content) <= Total
  BY <1>1, CallSizes DEF NoChunk, Chunk
<1> QED BY <1>1, <1>2 DEF ChunkSet

(* The initial states satisfy the invariant: nothing has been produced.    *)
LEMMA InitInv == Init => ChunkInv
<1> SUFFICES ASSUME Init PROVE ChunkInv
  OBVIOUS
<1>1. call \in Calls
  BY DEF Init
<1>2. Total \in Nat \ {0}
  BY <1>1, CallSizes
<1>3. NoChunk \in ChunkSet
  BY <1>1, NoChunkInSet
<1>4. FrontTypes
  BY <1>1, <1>2 DEF Init, FrontTypes
<1>5. BackTypes
  BY <1>3 DEF Init, BackTypes, Slots
<1>6. BridgeInv
  BY DEF Init, BridgeInv
<1>7. HoldInv /\ FaultInv /\ EndInv /\ JoinInv
  BY DEF Init, HoldInv, FaultInv, EndInv, JoinInv, GpuGone
<1>8. AccountInv
  BY <1>2 DEF Init, AccountInv, SentUpTo, Slots
<1> QED BY <1>4, <1>5, <1>6, <1>7, <1>8 DEF ChunkInv
-----------------------------------------------------------------------------
(* A window is streamed.                                                   *)
LEMMA SegSendKeeps ==
  ASSUME ChunkInv, SegSend
  PROVE  ChunkInv'
<1>0. call' = call /\ Total' = Total /\ ChunkSet' = ChunkSet /\ Slots' = Slots
  BY DEF SegSend, bridgeVars, prepVars, gpuVars, mainVars, Total, ChunkSet, Slots
<1>a. Total \in Nat \ {0} /\ produced \in Int /\ windows \in Seq(Int)
  BY CallSizes DEF ChunkInv, FrontTypes
<1>b. /\ windows' = Append(windows, produced) /\ windows' \in Seq(Int)
      /\ Len(windows') = Len(windows) + 1
      /\ \A j \in 1 .. Len(windows) : windows'[j] = windows[j]
      /\ windows'[Len(windows) + 1] = produced
  BY <1>a, AppendProperties DEF SegSend
<1>c. Len(windows) \in Nat /\ Len(group) \in Nat /\ globalStart \in Nat
  BY <1>a, LenProperties DEF ChunkInv, FrontTypes
<1>1. FrontTypes'
  <2>1. produced' \in 0 .. Total
    BY <1>a DEF SegSend, ChunkInv, FrontTypes
  <2> QED BY <2>1, <1>0, <1>b DEF SegSend, segVars, bridgeVars, ChunkInv, FrontTypes
<1>2. BackTypes'
  BY <1>0 DEF SegSend, bridgeVars, prepVars, gpuVars, mainVars, ChunkInv, BackTypes
<1>3. BridgeInv'
  <2>1. ASSUME bridge = "grouping"
        PROVE  /\ globalStart + Len(group) + Len(windows') = produced'
               /\ \A j \in 1 .. Len(windows') : windows'[j] = globalStart + Len(group) + j - 1
    <3>1. /\ globalStart + Len(group) + Len(windows) = produced
          /\ \A j \in 1 .. Len(windows) : windows[j] = globalStart + Len(group) + j - 1
      BY <2>1 DEF ChunkInv, BridgeInv
    <3>2. produced' = produced + 1
      BY DEF SegSend
    <3>3. ASSUME NEW j \in 1 .. Len(windows')
          PROVE  windows'[j] = globalStart + Len(group) + j - 1
      <4>1. CASE j \in 1 .. Len(windows)
        BY <4>1, <3>1, <1>b
      <4>2. CASE j = Len(windows) + 1
        BY <4>2, <3>1, <1>b, <1>c
      <4> QED BY <4>1, <4>2, <1>b, <1>c
    <3> QED BY <3>1, <3>2, <3>3, <1>b, <1>c
  <2> QED BY <2>1 DEF SegSend, bridgeVars, ChunkInv, BridgeInv
<1>4. HoldInv'
  BY <1>0 DEF SegSend, bridgeVars, prepVars, gpuVars, mainVars, ChunkInv, HoldInv
<1>5. FaultInv'
  BY <1>0 DEF SegSend, bridgeVars, prepVars, gpuVars, mainVars, ChunkInv, FaultInv
<1>6. EndInv'
  BY <1>0 DEF SegSend, bridgeVars, prepVars, gpuVars, mainVars, ChunkInv, EndInv,
      GpuGone, PrepsGone
<1>7. JoinInv'
  BY <1>0 DEF SegSend, bridgeVars, prepVars, gpuVars, mainVars, ChunkInv, JoinInv
<1>8. AccountInv'
  <2>1. bridge = "ended" => segmenter # "running"
    BY DEF ChunkInv, BridgeInv
  <2>2. bridge = "grouping"
    BY <2>1 DEF SegSend, ChunkInv, FrontTypes
  <2>3. SentUpTo' = SentUpTo
    BY <2>2 DEF SegSend, bridgeVars, SentUpTo
  <2> QED BY <2>3, <1>0
         DEF SegSend, prepVars, gpuVars, mainVars, ChunkInv, AccountInv, Accounted
<1> QED BY <1>1, <1>2, <1>3, <1>4, <1>5, <1>6, <1>7, <1>8 DEF ChunkInv

(* The stream is complete.                                                 *)
LEMMA SegEndKeeps ==
  ASSUME ChunkInv, SegEnd
  PROVE  ChunkInv'
<1>0. call' = call /\ Total' = Total /\ ChunkSet' = ChunkSet /\ Slots' = Slots
  BY DEF SegEnd, bridgeVars, prepVars, gpuVars, mainVars, Total, ChunkSet, Slots
<1>1. FrontTypes'
  BY <1>0 DEF SegEnd, bridgeVars, prepVars, gpuVars, mainVars, ChunkInv, FrontTypes
<1>2. BackTypes'
  BY <1>0 DEF SegEnd, bridgeVars, prepVars, gpuVars, mainVars, ChunkInv, BackTypes
<1>3. BridgeInv'
  BY <1>0 DEF SegEnd, bridgeVars, prepVars, gpuVars, mainVars, ChunkInv, BridgeInv
<1>4. HoldInv'
  BY <1>0 DEF SegEnd, bridgeVars, prepVars, gpuVars, mainVars, ChunkInv, HoldInv
<1>5. FaultInv'
  BY <1>0 DEF SegEnd, bridgeVars, prepVars, gpuVars, mainVars, ChunkInv, FaultInv
<1>6. EndInv'
  BY <1>0 DEF SegEnd, bridgeVars, prepVars, gpuVars, mainVars, ChunkInv, EndInv,
      GpuGone, PrepsGone
<1>7. JoinInv'
  BY <1>0 DEF SegEnd, bridgeVars, prepVars, gpuVars, mainVars, ChunkInv, JoinInv
<1>8. AccountInv'
  BY <1>0 DEF SegEnd, bridgeVars, prepVars, gpuVars, mainVars, ChunkInv, AccountInv,
      SentUpTo, Accounted
<1> QED BY <1>1, <1>2, <1>3, <1>4, <1>5, <1>6, <1>7, <1>8 DEF ChunkInv

(* The segmentation thread fails.                                          *)
LEMMA SegFailKeeps ==
  ASSUME ChunkInv, SegFail
  PROVE  ChunkInv'
<1>0. call' = call /\ Total' = Total /\ ChunkSet' = ChunkSet /\ Slots' = Slots
  BY DEF SegFail, bridgeVars, prepVars, gpuVars, mainVars, Total, ChunkSet, Slots
<1>1. FrontTypes'
  BY <1>0 DEF SegFail, bridgeVars, prepVars, gpuVars, mainVars, ChunkInv, FrontTypes
<1>2. BackTypes'
  BY <1>0 DEF SegFail, bridgeVars, prepVars, gpuVars, mainVars, ChunkInv, BackTypes
<1>3. BridgeInv'
  BY <1>0 DEF SegFail, bridgeVars, prepVars, gpuVars, mainVars, ChunkInv, BridgeInv
<1>4. HoldInv'
  BY <1>0 DEF SegFail, bridgeVars, prepVars, gpuVars, mainVars, ChunkInv, HoldInv
<1>5. FaultInv'
  BY <1>0 DEF SegFail, bridgeVars, prepVars, gpuVars, mainVars, ChunkInv, FaultInv
<1>6. EndInv'
  BY <1>0 DEF SegFail, bridgeVars, prepVars, gpuVars, mainVars, ChunkInv, EndInv,
      GpuGone, PrepsGone
<1>7. JoinInv'
  BY <1>0 DEF SegFail, bridgeVars, prepVars, gpuVars, mainVars, ChunkInv, JoinInv
<1>8. AccountInv'
  BY <1>0 DEF SegFail, bridgeVars, prepVars, gpuVars, mainVars, ChunkInv, AccountInv,
      SentUpTo, Accounted
<1> QED BY <1>1, <1>2, <1>3, <1>4, <1>5, <1>6, <1>7, <1>8 DEF ChunkInv

(* The bridge adds a window to its group.                                  *)
LEMMA BridgeTakeKeeps ==
  ASSUME ChunkInv, BridgeTake
  PROVE  ChunkInv'
<1>0. call' = call /\ Total' = Total /\ ChunkSet' = ChunkSet /\ Slots' = Slots
  BY DEF BridgeTake, segVars, prepVars, gpuVars, mainVars, Total, ChunkSet, Slots
<1>a. Len(windows) \in Nat /\ Len(group) \in Nat /\ globalStart \in Nat
  BY LenProperties DEF ChunkInv, FrontTypes
<1>b. /\ windows \in Seq(Int) /\ windows # <<>>
      /\ windows' = Tail(windows) /\ group' = Append(group, Head(windows))
  BY DEF BridgeTake, ChunkInv, FrontTypes
<1>c. /\ Head(windows) \in Int /\ Len(windows') = Len(windows) - 1 /\ Len(windows) > 0
      /\ \A j \in 1 .. Len(windows') : windows'[j] = windows[j + 1]
      /\ Head(windows) = windows[1]
  BY <1>a, <1>b, HeadTailProperties, EmptySeq
<1>d. /\ Len(group') = Len(group) + 1
      /\ \A j \in 1 .. Len(group) : group'[j] = group[j]
      /\ group'[Len(group) + 1] = windows[1]
  BY <1>b, <1>c, AppendProperties DEF ChunkInv, FrontTypes
<1>1. FrontTypes'
  BY <1>0 DEF BridgeTake, segVars, prepVars, gpuVars, mainVars, ChunkInv, FrontTypes
<1>2. BackTypes'
  BY <1>0 DEF BridgeTake, segVars, prepVars, gpuVars, mainVars, ChunkInv, BackTypes
<1>3. BridgeInv'
  <2>1. /\ globalStart + Len(group) + Len(windows) = produced
        /\ \A j \in 1 .. Len(group) : group[j] = globalStart + j - 1
        /\ \A j \in 1 .. Len(windows) : windows[j] = globalStart + Len(group) + j - 1
    BY DEF BridgeTake, ChunkInv, BridgeInv
  <2>2. globalStart + Len(group') + Len(windows') = produced
    BY <2>1, <1>a, <1>c, <1>d
  <2>3. ASSUME NEW j \in 1 .. Len(group') PROVE group'[j] = globalStart + j - 1
    <3>1. CASE j \in 1 .. Len(group)
      BY <3>1, <2>1, <1>d
    <3>2. CASE j = Len(group) + 1
      <4>1. windows[1] = globalStart + Len(group) + 1 - 1
        BY <2>1, <1>a, <1>c
      <4> QED BY <4>1, <3>2, <1>a, <1>d
    <3> QED BY <3>1, <3>2, <1>a, <1>d
  <2>4. ASSUME NEW j \in 1 .. Len(windows')
        PROVE  windows'[j] = globalStart + Len(group') + j - 1
    <3>1. j + 1 \in 1 .. Len(windows) /\ windows'[j] = windows[j + 1]
      BY <1>a, <1>c
    <3>2. windows[j + 1] = globalStart + Len(group) + (j + 1) - 1
      BY <3>1, <2>1
    <3> QED BY <3>1, <3>2, <1>a, <1>d
  <2>5. /\ bridge' = "grouping" /\ globalStart' = globalStart
        /\ produced' = produced /\ segmenter' = segmenter
    BY DEF BridgeTake, segVars
  <2>6. segmenter = "ok" => produced = Total
    BY DEF ChunkInv, BridgeInv
  <2> QED BY <1>0, <2>2, <2>3, <2>4, <2>5, <2>6 DEF BridgeInv
<1>4. HoldInv'
  BY <1>0 DEF BridgeTake, segVars, prepVars, gpuVars, mainVars, ChunkInv, HoldInv
<1>5. FaultInv'
  BY <1>0 DEF BridgeTake, segVars, prepVars, gpuVars, mainVars, ChunkInv, FaultInv
<1>6. EndInv'
  BY <1>0 DEF BridgeTake, segVars, prepVars, gpuVars, mainVars, ChunkInv, EndInv,
      GpuGone, PrepsGone
<1>7. JoinInv'
  BY <1>0 DEF BridgeTake, segVars, prepVars, gpuVars, mainVars, ChunkInv, JoinInv
<1>8. AccountInv'
  BY <1>0 DEF BridgeTake, segVars, prepVars, gpuVars, mainVars, ChunkInv, AccountInv,
      SentUpTo, Accounted
<1> QED BY <1>1, <1>2, <1>3, <1>4, <1>5, <1>6, <1>7, <1>8 DEF ChunkInv

(* A full chunk is sent.                                                   *)
LEMMA BridgeSendKeeps ==
  ASSUME ChunkInv, BridgeSend
  PROVE  ChunkInv'
<1>0. call' = call /\ Total' = Total /\ ChunkSet' = ChunkSet /\ Slots' = Slots
  BY DEF BridgeSend, segVars, prepVars, gpuVars, mainVars, Total, ChunkSet, Slots
<1>a. /\ Total \in Nat \ {0} /\ produced \in 0 .. Total /\ globalStart \in Nat
      /\ group \in Seq(Int) /\ Len(group) \in Nat /\ Len(windows) \in Nat
      /\ WinCapacity \in Nat \ {0} /\ chunks \in Seq(ChunkSet)
  BY CallSizes, LenProperties DEF ChunkInv, FrontTypes
<1>b. /\ globalStart + Len(group) + Len(windows) = produced
      /\ \A j \in 1 .. Len(group) : group[j] = globalStart + j - 1
  BY DEF BridgeSend, ChunkInv, BridgeInv
<1>c. /\ Chunk(globalStart, group).start = globalStart
      /\ Chunk(globalStart, group).content = group
      /\ Chunk(globalStart, group) \in [start : Nat, content : Seq(Int)]
  BY <1>a DEF Chunk
<1>d. Chunk(globalStart, group) \in ChunkSet
  <2>1. globalStart + Len(group) <= Total
    BY <1>a, <1>b
  <2> QED BY <2>1, <1>b, <1>c DEF ChunkSet
<1>e. Append(chunks, Chunk(globalStart, group)) \in Seq(ChunkSet)
  BY <1>a, <1>d, AppendProperties
<1>1. FrontTypes'
  <2>1. globalStart' \in Nat /\ group' \in Seq(Int)
    BY <1>a, EmptySeq DEF BridgeSend
  <2>2. chunks' \in Seq(ChunkSet)
    BY <1>e DEF BridgeSend
  <2> QED BY <2>1, <2>2, <1>0 DEF BridgeSend, segVars, ChunkInv, FrontTypes
<1>2. BackTypes'
  BY <1>0 DEF BridgeSend, segVars, prepVars, gpuVars, mainVars, ChunkInv, BackTypes
<1>3. BridgeInv'
  BY <1>0 DEF BridgeSend, segVars, prepVars, gpuVars, mainVars, ChunkInv, BridgeInv
<1>4. HoldInv'
  BY <1>0 DEF BridgeSend, segVars, prepVars, gpuVars, mainVars, ChunkInv, HoldInv
<1>5. FaultInv'
  BY <1>0 DEF BridgeSend, segVars, prepVars, gpuVars, mainVars, ChunkInv, FaultInv
<1>6. EndInv'
  BY <1>0 DEF BridgeSend, segVars, prepVars, gpuVars, mainVars, ChunkInv, EndInv,
      GpuGone, PrepsGone
<1>7. JoinInv'
  BY <1>0 DEF BridgeSend, segVars, prepVars, gpuVars, mainVars, ChunkInv, JoinInv
<1>8. AccountInv'
  <2> SUFFICES ASSUME faults = {}, NEW i \in Slots, i < SentUpTo'
               PROVE  Accounted(i)'
    BY <1>0 DEF BridgeSend, AccountInv
  <2>1. SentUpTo = globalStart /\ SentUpTo' = globalStart + Len(group)
    BY DEF BridgeSend, SentUpTo
  <2>2. i \in Int
    BY <1>a DEF Slots
  <2>3. Holds(chunks, i) => Holds(chunks', i)
    BY <1>a, <1>d, HoldsAppend DEF BridgeSend
  <2>4. CASE i < globalStart
    <3>1. Accounted(i)
      BY <2>1, <2>4 DEF ChunkInv, AccountInv
    <3> QED BY <3>1, <2>3
           DEF BridgeSend, segVars, prepVars, gpuVars, mainVars, Accounted
  <2>5. CASE globalStart <= i
    <3>1. i \in globalStart .. globalStart + Len(group) - 1
      BY <2>1, <2>2, <2>5, <1>a
    <3>2. In(Chunk(globalStart, group), i)
      BY <3>1, <1>c DEF In
    <3>3. Holds(chunks', i)
      BY <3>2, <1>a, <1>d, HoldsAppend DEF BridgeSend
    <3> QED BY <3>3 DEF Accounted
  <2> QED BY <2>2, <2>4, <2>5, <1>a
<1> QED BY <1>1, <1>2, <1>3, <1>4, <1>5, <1>6, <1>7, <1>8 DEF ChunkInv

(* The bridge ends, with a short chunk if windows are left.                *)
LEMMA BridgeEndKeeps ==
  ASSUME ChunkInv, BridgeEnd
  PROVE  ChunkInv'
<1>0. call' = call /\ Total' = Total /\ ChunkSet' = ChunkSet /\ Slots' = Slots
  BY DEF BridgeEnd, segVars, prepVars, gpuVars, mainVars, Total, ChunkSet, Slots
<1>a. /\ Total \in Nat \ {0} /\ produced \in 0 .. Total /\ globalStart \in Nat
      /\ group \in Seq(Int) /\ Len(group) \in Nat /\ Len(windows) \in Nat
      /\ WinCapacity \in Nat \ {0} /\ chunks \in Seq(ChunkSet)
  BY CallSizes, LenProperties DEF ChunkInv, FrontTypes
<1>b. /\ globalStart + Len(group) + Len(windows) = produced
      /\ \A j \in 1 .. Len(group) : group[j] = globalStart + j - 1
  BY DEF BridgeEnd, ChunkInv, BridgeInv
<1>c. /\ Chunk(globalStart, group).start = globalStart
      /\ Chunk(globalStart, group).content = group
      /\ Chunk(globalStart, group) \in [start : Nat, content : Seq(Int)]
  BY <1>a DEF Chunk
<1>d. Chunk(globalStart, group) \in ChunkSet
  <2>1. globalStart + Len(group) <= Total
    BY <1>a, <1>b
  <2> QED BY <2>1, <1>b, <1>c DEF ChunkSet
<1>e. Append(chunks, Chunk(globalStart, group)) \in Seq(ChunkSet)
  BY <1>a, <1>d, AppendProperties
<1>1. FrontTypes'
  <2>1. bridge' = "ended" /\ group' \in Seq(Int)
    BY EmptySeq DEF BridgeEnd
  <2>2. chunks' \in Seq(ChunkSet)
    BY <1>a, <1>e DEF BridgeEnd
  <2> QED BY <2>1, <2>2, <1>0 DEF BridgeEnd, segVars, ChunkInv, FrontTypes
<1>2. BackTypes'
  BY <1>0 DEF BridgeEnd, segVars, prepVars, gpuVars, mainVars, ChunkInv, BackTypes
<1>3. BridgeInv'
  BY <1>0 DEF BridgeEnd, segVars, prepVars, gpuVars, mainVars, ChunkInv, BridgeInv
<1>4. HoldInv'
  BY <1>0 DEF BridgeEnd, segVars, prepVars, gpuVars, mainVars, ChunkInv, HoldInv
<1>5. FaultInv'
  BY <1>0 DEF BridgeEnd, segVars, prepVars, gpuVars, mainVars, ChunkInv, FaultInv
<1>6. EndInv'
  BY <1>0 DEF BridgeEnd, segVars, prepVars, gpuVars, mainVars, ChunkInv, EndInv,
      GpuGone, PrepsGone
<1>7. JoinInv'
  BY <1>0 DEF BridgeEnd, segVars, prepVars, gpuVars, mainVars, ChunkInv, JoinInv
<1>8. AccountInv'
  <2> SUFFICES ASSUME faults = {}, NEW i \in Slots, i < SentUpTo'
               PROVE  Accounted(i)'
    BY <1>0 DEF BridgeEnd, AccountInv
  <2>1. SentUpTo = globalStart /\ SentUpTo' = globalStart + Len(group)
    <3>1. Len(windows) = 0
      BY DEF BridgeEnd
    <3>2. produced = globalStart + Len(group)
      BY <3>1, <1>a, <1>b
    <3> QED BY <3>2 DEF BridgeEnd, segVars, SentUpTo
  <2>2. i \in Int
    BY <1>a DEF Slots
  <2>3. Holds(chunks, i) => Holds(chunks', i)
    <3>1. CASE chunks' = chunks
      BY <3>1
    <3>2. CASE chunks' = Append(chunks, Chunk(globalStart, group))
      BY <3>2, <1>a, <1>d, HoldsAppend
    <3> QED BY <3>1, <3>2 DEF BridgeEnd
  <2>4. CASE i < globalStart
    <3>1. Accounted(i)
      BY <2>1, <2>4 DEF ChunkInv, AccountInv
    <3> QED BY <3>1, <2>3
           DEF BridgeEnd, segVars, prepVars, gpuVars, mainVars, Accounted
  <2>5. CASE globalStart <= i
    <3>1. i \in globalStart .. globalStart + Len(group) - 1
      BY <2>1, <2>2, <2>5, <1>a
    <3>2. In(Chunk(globalStart, group), i)
      BY <3>1, <1>c DEF In
    <3>3. group # <<>>
      BY <3>1, <1>a
    <3>4. chunks' = Append(chunks, Chunk(globalStart, group))
      BY <3>3 DEF BridgeEnd
    <3>5. Holds(chunks', i)
      BY <3>2, <3>4, <1>a, <1>d, HoldsAppend
    <3> QED BY <3>5 DEF Accounted
  <2> QED BY <2>2, <2>4, <2>5, <1>a
<1> QED BY <1>1, <1>2, <1>3, <1>4, <1>5, <1>6, <1>7, <1>8 DEF ChunkInv

(* A preparation worker takes a chunk.                                     *)
LEMMA PrepRecvKeeps ==
  ASSUME ChunkInv, NEW w \in Preps, PrepRecv(w)
  PROVE  ChunkInv'
<1>0. call' = call /\ Total' = Total /\ ChunkSet' = ChunkSet /\ Slots' = Slots
  BY DEF PrepRecv, segVars, bridgeVars, gpuVars, mainVars, Total, ChunkSet, Slots
<1>a. chunks \in Seq(ChunkSet) /\ chunks # <<>>
  BY DEF PrepRecv, ChunkInv, FrontTypes
<1>b. Head(chunks) \in ChunkSet
  BY <1>a, HoldsHead
<1>c. /\ prep \in [Preps -> {"recv", "prep", "send", "ok", "failed"}]
      /\ prepHolds \in [Preps -> ChunkSet]
  BY DEF ChunkInv, BackTypes
<1>d. /\ prep' = [prep EXCEPT ![w] = "prep"]
      /\ prepHolds' = [prepHolds EXCEPT ![w] = Head(chunks)]
  BY DEF PrepRecv
<1>e. prep'[w] = "prep" /\ prepHolds'[w] = Head(chunks)
  BY <1>c, <1>d
<1>f. \A v \in Preps \ {w} : prep'[v] = prep[v] /\ prepHolds'[v] = prepHolds[v]
  BY <1>c, <1>d
<1>1. FrontTypes'
  BY <1>0 DEF PrepRecv, segVars, bridgeVars, gpuVars, mainVars, ChunkInv, FrontTypes
<1>2. BackTypes'
  <2>1. prep' \in [Preps -> {"recv", "prep", "send", "ok", "failed"}]
    BY <1>c, <1>d
  <2>2. prepHolds' \in [Preps -> ChunkSet]
    BY <1>b, <1>c, <1>d
  <2> QED BY <2>1, <2>2, <1>0
         DEF PrepRecv, gpuVars, mainVars, ChunkInv, BackTypes
<1>3. BridgeInv'
  BY <1>0 DEF PrepRecv, segVars, bridgeVars, gpuVars, mainVars, ChunkInv, BridgeInv
<1>4. HoldInv'
  <2>1. gpu' = gpu /\ gpuHolds' = gpuHolds
    BY DEF PrepRecv, gpuVars
  <2> QED BY <2>1, <1>c, <1>d, <1>e, <1>f DEF ChunkInv, HoldInv
<1>5. FaultInv'
  BY <1>0 DEF PrepRecv, segVars, bridgeVars, gpuVars, mainVars, ChunkInv, FaultInv
<1>6. EndInv'
  BY <1>0 DEF PrepRecv, segVars, bridgeVars, gpuVars, mainVars, ChunkInv, EndInv,
      GpuGone, PrepsGone
<1>7. JoinInv'
  BY <1>0 DEF PrepRecv, segVars, bridgeVars, gpuVars, mainVars, ChunkInv, JoinInv
<1>8. AccountInv'
  <2> SUFFICES ASSUME faults = {}, NEW i \in Slots, i < SentUpTo
               PROVE  Accounted(i)'
    BY <1>0 DEF PrepRecv, segVars, bridgeVars, AccountInv, SentUpTo
  <2>1. Accounted(i)
    BY DEF ChunkInv, AccountInv
  <2>2. Total \in Nat \ {0} /\ i \in Int
    BY CallSizes DEF ChunkInv, FrontTypes, Slots
  <2>3. CASE Holds(chunks, i)
    <3>1. In(prepHolds'[w], i) \/ Holds(chunks', i)
      BY <2>3, <1>a, <1>e, HoldsHead DEF PrepRecv
    <3> QED BY <3>1 DEF Accounted
  <2>4. CASE \E v \in Preps : In(prepHolds[v], i)
    <3>1. PICK v \in Preps : In(prepHolds[v], i)
      BY <2>4
    <3>2. prepHolds[w] = NoChunk
      BY DEF PrepRecv, ChunkInv, HoldInv
    <3>3. v # w
      BY <3>1, <3>2, <2>2, NothingInNoChunk
    <3>4. In(prepHolds'[v], i)
      BY <3>1, <3>3, <1>f
    <3> QED BY <3>4 DEF Accounted
  <2>5. CASE Holds(prepared, i) \/ In(gpuHolds, i) \/ Holds(embedded, i) \/ slots[i] = i
    BY <2>5 DEF PrepRecv, gpuVars, mainVars, Accounted
  <2> QED BY <2>1, <2>3, <2>4, <2>5 DEF Accounted
<1> QED BY <1>1, <1>2, <1>3, <1>4, <1>5, <1>6, <1>7, <1>8 DEF ChunkInv

(* A preparation worker finds the chunk channel exhausted.                 *)
LEMMA PrepEndKeeps ==
  ASSUME ChunkInv, NEW w \in Preps, PrepEnd(w)
  PROVE  ChunkInv'
<1>0. call' = call /\ Total' = Total /\ ChunkSet' = ChunkSet /\ Slots' = Slots
  BY DEF PrepEnd, segVars, bridgeVars, gpuVars, mainVars, Total, ChunkSet, Slots
<1>1. FrontTypes'
  BY <1>0 DEF PrepEnd, segVars, bridgeVars, gpuVars, mainVars, ChunkInv, FrontTypes
<1>2. BackTypes'
  BY <1>0 DEF PrepEnd, segVars, bridgeVars, gpuVars, mainVars, ChunkInv, BackTypes
<1>3. BridgeInv'
  BY <1>0 DEF PrepEnd, segVars, bridgeVars, gpuVars, mainVars, ChunkInv, BridgeInv
<1>4. HoldInv'
  BY <1>0 DEF PrepEnd, segVars, bridgeVars, gpuVars, mainVars, ChunkInv, HoldInv
<1>5. FaultInv'
  BY <1>0 DEF PrepEnd, segVars, bridgeVars, gpuVars, mainVars, ChunkInv, FaultInv
<1>6. EndInv'
  BY <1>0 DEF PrepEnd, segVars, bridgeVars, gpuVars, mainVars, ChunkInv, EndInv,
      GpuGone, PrepsGone
<1>7. JoinInv'
  BY <1>0 DEF PrepEnd, segVars, bridgeVars, gpuVars, mainVars, ChunkInv, JoinInv
<1>8. AccountInv'
  BY <1>0 DEF PrepEnd, segVars, bridgeVars, gpuVars, mainVars, ChunkInv, AccountInv,
      SentUpTo, Accounted
<1> QED BY <1>1, <1>2, <1>3, <1>4, <1>5, <1>6, <1>7, <1>8 DEF ChunkInv

(* A chunk is prepared.                                                    *)
LEMMA PrepDoneKeeps ==
  ASSUME ChunkInv, NEW w \in Preps, PrepDone(w)
  PROVE  ChunkInv'
<1>0. call' = call /\ Total' = Total /\ ChunkSet' = ChunkSet /\ Slots' = Slots
  BY DEF PrepDone, segVars, bridgeVars, gpuVars, mainVars, Total, ChunkSet, Slots
<1>1. FrontTypes'
  BY <1>0 DEF PrepDone, segVars, bridgeVars, gpuVars, mainVars, ChunkInv, FrontTypes
<1>2. BackTypes'
  BY <1>0 DEF PrepDone, segVars, bridgeVars, gpuVars, mainVars, ChunkInv, BackTypes
<1>3. BridgeInv'
  BY <1>0 DEF PrepDone, segVars, bridgeVars, gpuVars, mainVars, ChunkInv, BridgeInv
<1>4. HoldInv'
  BY <1>0 DEF PrepDone, segVars, bridgeVars, gpuVars, mainVars, ChunkInv, HoldInv
<1>5. FaultInv'
  BY <1>0 DEF PrepDone, segVars, bridgeVars, gpuVars, mainVars, ChunkInv, FaultInv
<1>6. EndInv'
  BY <1>0 DEF PrepDone, segVars, bridgeVars, gpuVars, mainVars, ChunkInv, EndInv,
      GpuGone, PrepsGone
<1>7. JoinInv'
  BY <1>0 DEF PrepDone, segVars, bridgeVars, gpuVars, mainVars, ChunkInv, JoinInv
<1>8. AccountInv'
  BY <1>0 DEF PrepDone, segVars, bridgeVars, gpuVars, mainVars, ChunkInv, AccountInv,
      SentUpTo, Accounted
<1> QED BY <1>1, <1>2, <1>3, <1>4, <1>5, <1>6, <1>7, <1>8 DEF ChunkInv

(* A prepared chunk is sent, or its worker stops with the GPU worker.      *)
LEMMA PrepSendKeeps ==
  ASSUME ChunkInv, NEW w \in Preps, PrepSend(w)
  PROVE  ChunkInv'
<1>0. call' = call /\ Total' = Total /\ ChunkSet' = ChunkSet /\ Slots' = Slots
  BY DEF PrepSend, segVars, bridgeVars, gpuVars, mainVars, Total, ChunkSet, Slots
<1>a. /\ prepared \in Seq(ChunkSet) /\ prepHolds[w] \in ChunkSet
  BY DEF ChunkInv, BackTypes
<1>b. NoChunk \in ChunkSet
  BY NoChunkInSet DEF ChunkInv, FrontTypes
<1>c. /\ prep \in [Preps -> {"recv", "prep", "send", "ok", "failed"}]
      /\ prepHolds \in [Preps -> ChunkSet]
  BY DEF ChunkInv, BackTypes
<1>d. /\ prep' = [prep EXCEPT ![w] = "recv"] \/ prep' = [prep EXCEPT ![w] = "ok"]
      /\ prepHolds' = [prepHolds EXCEPT ![w] = NoChunk]
  BY DEF PrepSend
<1>e. (prep'[w] = "recv" \/ prep'[w] = "ok") /\ prepHolds'[w] = NoChunk
  BY <1>c, <1>d
<1>f. \A v \in Preps \ {w} : prep'[v] = prep[v] /\ prepHolds'[v] = prepHolds[v]
  BY <1>c, <1>d
<1>g. faults = {} => ~GpuGone
  <2>1. faults = {} /\ GpuGone => PrepsGone
    BY DEF ChunkInv, EndInv
  <2>2. ~PrepsGone
    BY DEF PrepSend, PrepsGone
  <2> QED BY <2>1, <2>2
<1>h. faults = {} => /\ prepared' = Append(prepared, prepHolds[w])
                     /\ prep'[w] = "recv"
  BY <1>c, <1>g DEF PrepSend
<1>1. FrontTypes'
  BY <1>0 DEF PrepSend, segVars, bridgeVars, gpuVars, mainVars, ChunkInv, FrontTypes
<1>2. BackTypes'
  <2>1. prep' \in [Preps -> {"recv", "prep", "send", "ok", "failed"}]
    BY <1>c, <1>d
  <2>2. prepHolds' \in [Preps -> ChunkSet]
    BY <1>b, <1>c, <1>d
  <2>3. prepared' \in Seq(ChunkSet)
    BY <1>a, AppendProperties DEF PrepSend
  <2> QED BY <2>1, <2>2, <2>3, <1>0
         DEF PrepSend, gpuVars, mainVars, ChunkInv, BackTypes
<1>3. BridgeInv'
  BY <1>0 DEF PrepSend, segVars, bridgeVars, gpuVars, mainVars, ChunkInv, BridgeInv
<1>4. HoldInv'
  <2>1. gpu' = gpu /\ gpuHolds' = gpuHolds
    BY DEF PrepSend, gpuVars
  <2> QED BY <2>1, <1>c, <1>d, <1>e, <1>f DEF ChunkInv, HoldInv
<1>5. FaultInv'
  <2>1. (\A v \in Preps : prep[v] # "failed") <=> (\A v \in Preps : prep'[v] # "failed")
    BY <1>e, <1>f DEF PrepSend
  <2> QED BY <2>1 DEF PrepSend, segVars, gpuVars, mainVars, ChunkInv, FaultInv
<1>6. EndInv'
  <2> SUFFICES ASSUME faults = {} PROVE EndInv'
    BY DEF PrepSend, EndInv
  <2>1. ~GpuGone' /\ (main' # "collect" <=> main # "collect") /\ (GpuGone' <=> GpuGone)
    BY <1>g DEF PrepSend, gpuVars, mainVars, GpuGone
  <2>2. main = "collect"
    BY <1>g DEF ChunkInv, EndInv
  <2>3. \A v \in Preps : prep'[v] = "ok" => prep[v] = "ok"
    BY <1>f, <1>h
  <2> QED BY <2>1, <2>2, <2>3 DEF PrepSend, bridgeVars, ChunkInv, EndInv
<1>7. JoinInv'
  BY <1>0 DEF PrepSend, segVars, bridgeVars, gpuVars, mainVars, ChunkInv, JoinInv
<1>8. AccountInv'
  <2> SUFFICES ASSUME faults = {}, NEW i \in Slots, i < SentUpTo
               PROVE  Accounted(i)'
    BY <1>0 DEF PrepSend, segVars, bridgeVars, AccountInv, SentUpTo
  <2>1. Accounted(i)
    BY DEF ChunkInv, AccountInv
  <2>2. In(prepHolds[w], i) \/ Holds(prepared, i) => Holds(prepared', i)
    <3>1. prepared' = Append(prepared, prepHolds[w])
      BY <1>h
    <3>2. In(prepHolds[w], i) \/ Holds(prepared, i) => Holds(Append(prepared, prepHolds[w]), i)
      BY <1>a, HoldsAppend
    <3> QED BY <3>1, <3>2
  <2>3. CASE Holds(prepared, i)
    BY <2>2, <2>3 DEF Accounted
  <2>4. CASE \E v \in Preps : In(prepHolds[v], i)
    <3>1. PICK v \in Preps : In(prepHolds[v], i)
      BY <2>4
    <3>2. CASE v = w
      BY <3>1, <3>2, <2>2 DEF Accounted
    <3>3. CASE v # w
      <4>1. In(prepHolds'[v], i)
        BY <3>1, <3>3, <1>f
      <4> QED BY <4>1 DEF Accounted
    <3> QED BY <3>2, <3>3
  <2>5. CASE Holds(chunks, i) \/ In(gpuHolds, i) \/ Holds(embedded, i) \/ slots[i] = i
    BY <2>5 DEF PrepSend, gpuVars, mainVars, Accounted
  <2> QED BY <2>1, <2>3, <2>4, <2>5 DEF Accounted
<1> QED BY <1>1, <1>2, <1>3, <1>4, <1>5, <1>6, <1>7, <1>8 DEF ChunkInv

(* A preparation fails.                                                    *)
LEMMA PrepFailKeeps ==
  ASSUME ChunkInv, NEW w \in Preps, PrepFail(w)
  PROVE  ChunkInv'
<1>0. call' = call /\ Total' = Total /\ ChunkSet' = ChunkSet /\ Slots' = Slots
  BY DEF PrepFail, segVars, bridgeVars, gpuVars, mainVars, Total, ChunkSet, Slots
<1>b. NoChunk \in ChunkSet
  BY NoChunkInSet DEF ChunkInv, FrontTypes
<1>c. /\ prep \in [Preps -> {"recv", "prep", "send", "ok", "failed"}]
      /\ prepHolds \in [Preps -> ChunkSet]
  BY DEF ChunkInv, BackTypes
<1>d. /\ prep' = [prep EXCEPT ![w] = "failed"]
      /\ prepHolds' = [prepHolds EXCEPT ![w] = NoChunk]
  BY DEF PrepFail
<1>e. prep'[w] = "failed" /\ prepHolds'[w] = NoChunk
  BY <1>c, <1>d
<1>f. \A v \in Preps \ {w} : prep'[v] = prep[v] /\ prepHolds'[v] = prepHolds[v]
  BY <1>c, <1>d
<1>1. FrontTypes'
  BY <1>0 DEF PrepFail, segVars, bridgeVars, gpuVars, mainVars, ChunkInv, FrontTypes
<1>2. BackTypes'
  <2>1. prep' \in [Preps -> {"recv", "prep", "send", "ok", "failed"}]
    BY <1>c, <1>d
  <2>2. prepHolds' \in [Preps -> ChunkSet]
    BY <1>b, <1>c, <1>d
  <2> QED BY <2>1, <2>2, <1>0
         DEF PrepFail, gpuVars, mainVars, ChunkInv, BackTypes
<1>3. BridgeInv'
  BY <1>0 DEF PrepFail, segVars, bridgeVars, gpuVars, mainVars, ChunkInv, BridgeInv
<1>4. HoldInv'
  <2>1. gpu' = gpu /\ gpuHolds' = gpuHolds
    BY DEF PrepFail, gpuVars
  <2> QED BY <2>1, <1>c, <1>d, <1>e, <1>f DEF ChunkInv, HoldInv
<1>5. FaultInv'
  <2>1. faults' # {}
    BY DEF PrepFail
  <2> QED BY <2>1, <1>e DEF FaultInv
<1>6. EndInv'
  BY <1>0 DEF PrepFail, segVars, bridgeVars, gpuVars, mainVars, ChunkInv, EndInv,
      GpuGone, PrepsGone
<1>7. JoinInv'
  BY <1>0 DEF PrepFail, segVars, bridgeVars, gpuVars, mainVars, ChunkInv, JoinInv
<1>8. AccountInv'
  BY <1>0 DEF PrepFail, segVars, bridgeVars, gpuVars, mainVars, ChunkInv, AccountInv,
      SentUpTo, Accounted
<1> QED BY <1>1, <1>2, <1>3, <1>4, <1>5, <1>6, <1>7, <1>8 DEF ChunkInv

(* A chunk is predicted.                                                   *)
LEMMA GpuPredictKeeps ==
  ASSUME ChunkInv, GpuPredict
  PROVE  ChunkInv'
<1>0. call' = call /\ Total' = Total /\ ChunkSet' = ChunkSet /\ Slots' = Slots
  BY DEF GpuPredict, segVars, bridgeVars, prepVars, mainVars, Total, ChunkSet, Slots
<1>1. FrontTypes'
  BY <1>0 DEF GpuPredict, segVars, bridgeVars, prepVars, mainVars, ChunkInv, FrontTypes
<1>2. BackTypes'
  BY <1>0 DEF GpuPredict, segVars, bridgeVars, prepVars, mainVars, ChunkInv, BackTypes
<1>3. BridgeInv'
  BY <1>0 DEF GpuPredict, segVars, bridgeVars, prepVars, mainVars, ChunkInv, BridgeInv
<1>4. HoldInv'
  BY <1>0 DEF GpuPredict, segVars, bridgeVars, prepVars, mainVars, ChunkInv, HoldInv
<1>5. FaultInv'
  BY <1>0 DEF GpuPredict, segVars, bridgeVars, prepVars, mainVars, ChunkInv, FaultInv
<1>6. EndInv'
  BY <1>0 DEF GpuPredict, segVars, bridgeVars, prepVars, mainVars, ChunkInv, EndInv,
      GpuGone, PrepsGone
<1>7. JoinInv'
  BY <1>0 DEF GpuPredict, segVars, bridgeVars, prepVars, mainVars, ChunkInv, JoinInv
<1>8. AccountInv'
  BY <1>0 DEF GpuPredict, segVars, bridgeVars, prepVars, mainVars, ChunkInv,
      AccountInv, SentUpTo, Accounted
<1> QED BY <1>1, <1>2, <1>3, <1>4, <1>5, <1>6, <1>7, <1>8 DEF ChunkInv

(* A prediction is sent, or the worker stops with the collector.           *)
LEMMA GpuSendKeeps ==
  ASSUME ChunkInv, GpuSend
  PROVE  ChunkInv'
<1>0. call' = call /\ Total' = Total /\ ChunkSet' = ChunkSet /\ Slots' = Slots
  BY DEF GpuSend, segVars, bridgeVars, prepVars, mainVars, Total, ChunkSet, Slots
<1>a. /\ embedded \in Seq(ChunkSet) /\ gpuHolds \in ChunkSet /\ gpu = "send"
      /\ main \in {"collect", "joinGpu", "joinPreps", "joinSeg", "joinBridge", "leave",
                  "returned"}
  BY DEF GpuSend, ChunkInv, BackTypes
<1>b. NoChunk \in ChunkSet
  BY NoChunkInSet DEF ChunkInv, FrontTypes
<1>c. faults = {} => main = "collect"
  BY <1>a DEF ChunkInv, EndInv, GpuGone
<1>d. faults = {} => gpu' = "pollPrep" /\ embedded' = Append(embedded, gpuHolds)
                     /\ prepared' = prepared
  BY <1>c DEF GpuSend, Collecting
<1>1. FrontTypes'
  BY <1>0 DEF GpuSend, segVars, bridgeVars, prepVars, mainVars, ChunkInv, FrontTypes
<1>2. BackTypes'
  <2>1. embedded' \in Seq(ChunkSet)
    BY <1>a, AppendProperties DEF GpuSend
  <2>2. prepared' \in Seq(ChunkSet)
    BY EmptySeq DEF GpuSend, ChunkInv, BackTypes
  <2>3. gpu' \in {"pollPrep", "ok"} /\ gpuHolds' \in ChunkSet
    BY <1>b DEF GpuSend
  <2> QED BY <2>1, <2>2, <2>3, <1>0
         DEF GpuSend, prepVars, mainVars, ChunkInv, BackTypes
<1>3. BridgeInv'
  BY <1>0 DEF GpuSend, segVars, bridgeVars, prepVars, mainVars, ChunkInv, BridgeInv
<1>4. HoldInv'
  BY <1>0 DEF GpuSend, segVars, bridgeVars, prepVars, mainVars, ChunkInv, HoldInv
<1>5. FaultInv'
  BY <1>0 DEF GpuSend, segVars, bridgeVars, prepVars, mainVars, ChunkInv, FaultInv
<1>6. EndInv'
  <2> SUFFICES ASSUME faults = {} PROVE EndInv'
    BY DEF GpuSend, EndInv
  <2>1. ~GpuGone' /\ main' = "collect"
    BY <1>c, <1>d DEF GpuSend, mainVars, GpuGone
  <2> QED BY <2>1 DEF GpuSend, bridgeVars, prepVars, ChunkInv, EndInv
<1>7. JoinInv'
  BY <1>0 DEF GpuSend, segVars, bridgeVars, prepVars, mainVars, ChunkInv, JoinInv
<1>8. AccountInv'
  <2> SUFFICES ASSUME faults = {}, NEW i \in Slots, i < SentUpTo
               PROVE  Accounted(i)'
    BY <1>0 DEF GpuSend, segVars, bridgeVars, AccountInv, SentUpTo
  <2>1. Accounted(i)
    BY DEF ChunkInv, AccountInv
  <2>2. In(gpuHolds, i) \/ Holds(embedded, i) => Holds(embedded', i)
    BY <1>a, <1>d, HoldsAppend
  <2>3. prepared' = prepared
    BY <1>d
  <2> QED BY <2>1, <2>2, <2>3 DEF GpuSend, prepVars, mainVars, Accounted
<1> QED BY <1>1, <1>2, <1>3, <1>4, <1>5, <1>6, <1>7, <1>8 DEF ChunkInv

(* A preparation by the GPU worker, or a prediction, fails.                *)
LEMMA GpuFailKeeps ==
  ASSUME ChunkInv, GpuFail
  PROVE  ChunkInv'
<1>0. call' = call /\ Total' = Total /\ ChunkSet' = ChunkSet /\ Slots' = Slots
  BY DEF GpuFail, segVars, bridgeVars, prepVars, mainVars, Total, ChunkSet, Slots
<1>1. FrontTypes'
  BY <1>0 DEF GpuFail, segVars, bridgeVars, prepVars, mainVars, ChunkInv, FrontTypes
<1>2. BackTypes'
  <2>1. NoChunk \in ChunkSet
    BY NoChunkInSet DEF ChunkInv, FrontTypes
  <2>2. prepared' \in Seq(ChunkSet) /\ gpuHolds' \in ChunkSet /\ gpu' = "failed"
    BY <2>1, EmptySeq DEF GpuFail
  <2> QED BY <2>2, <1>0 DEF GpuFail, prepVars, mainVars, ChunkInv, BackTypes
<1>3. BridgeInv'
  BY <1>0 DEF GpuFail, segVars, bridgeVars, prepVars, mainVars, ChunkInv, BridgeInv
<1>4. HoldInv'
  BY <1>0 DEF GpuFail, segVars, bridgeVars, prepVars, mainVars, ChunkInv, HoldInv
<1>5. FaultInv'
  BY <1>0 DEF GpuFail, segVars, bridgeVars, prepVars, mainVars, ChunkInv, FaultInv
<1>6. EndInv'
  BY <1>0 DEF GpuFail, segVars, bridgeVars, prepVars, mainVars, ChunkInv, EndInv,
      GpuGone, PrepsGone
<1>7. JoinInv'
  BY <1>0 DEF GpuFail, segVars, bridgeVars, prepVars, mainVars, ChunkInv, JoinInv
<1>8. AccountInv'
  BY <1>0 DEF GpuFail, segVars, bridgeVars, prepVars, mainVars, ChunkInv, AccountInv,
      SentUpTo, Accounted
<1> QED BY <1>1, <1>2, <1>3, <1>4, <1>5, <1>6, <1>7, <1>8 DEF ChunkInv

(* The GPU worker takes a chunk: from the preparation workers, ...         *)
LEMMA GpuTakePreparedKeeps ==
  ASSUME ChunkInv, gpu \notin {"predict", "send", "ok", "failed"}, GpuTakePrepared,
         UNCHANGED <<segVars, windows, bridgeVars, prepVars, embedded, mainVars, faults>>
  PROVE  ChunkInv'
<1>0. call' = call /\ Total' = Total /\ ChunkSet' = ChunkSet /\ Slots' = Slots
  BY DEF segVars, Total, ChunkSet, Slots
<1>a. prepared \in Seq(ChunkSet) /\ prepared # <<>>
  BY DEF GpuTakePrepared, ChunkInv, BackTypes
<1>b. Head(prepared) \in ChunkSet /\ Tail(prepared) \in Seq(ChunkSet)
  BY <1>a, HoldsHead
<1>c. gpu' = "predict" /\ gpuHolds' = Head(prepared) /\ prepared' = Tail(prepared)
  BY DEF GpuTakePrepared
<1>1. FrontTypes' /\ BridgeInv'
  BY <1>0 DEF GpuTakePrepared, segVars, bridgeVars, ChunkInv, FrontTypes, BridgeInv
<1>2. BackTypes'
  BY <1>0, <1>b, <1>c DEF prepVars, mainVars, ChunkInv, BackTypes
<1>4. HoldInv'
  BY <1>c DEF prepVars, ChunkInv, HoldInv
<1>5. FaultInv'
  BY <1>c DEF segVars, prepVars, mainVars, ChunkInv, FaultInv
<1>6. EndInv'
  <2>1. ~GpuGone /\ ~GpuGone'
    BY <1>c DEF GpuGone, ChunkInv, BackTypes
  <2> QED BY <2>1 DEF GpuTakePrepared, bridgeVars, prepVars, mainVars, ChunkInv, EndInv
<1>7. JoinInv'
  BY <1>c DEF segVars, bridgeVars, prepVars, mainVars, ChunkInv, JoinInv
<1>8. AccountInv'
  <2> SUFFICES ASSUME faults = {}, NEW i \in Slots, i < SentUpTo
               PROVE  Accounted(i)'
    BY <1>0 DEF segVars, bridgeVars, AccountInv, SentUpTo
  <2>1. Accounted(i)
    BY DEF ChunkInv, AccountInv
  <2>2. Total \in Nat \ {0} /\ i \in Int
    BY CallSizes DEF ChunkInv, FrontTypes, Slots
  <2>3. Holds(prepared, i) => In(gpuHolds', i) \/ Holds(prepared', i)
    BY <1>a, <1>c, HoldsHead
  <2>4. gpuHolds = NoChunk
    BY DEF ChunkInv, HoldInv
  <2>5. ~In(gpuHolds, i)
    BY <2>2, <2>4, NothingInNoChunk
  <2> QED BY <2>1, <2>3, <2>5 DEF GpuTakePrepared, prepVars, mainVars, Accounted
<1> QED BY <1>1, <1>2, <1>4, <1>5, <1>6, <1>7, <1>8 DEF ChunkInv

(* ... or from the bridge.                                                 *)
LEMMA GpuTakeDecodedKeeps ==
  ASSUME ChunkInv, gpu \notin {"predict", "send", "ok", "failed"}, GpuTakeDecoded,
         UNCHANGED <<segVars, windows, bridgeVars, prepVars, embedded, mainVars, faults>>
  PROVE  ChunkInv'
<1>0. call' = call /\ Total' = Total /\ ChunkSet' = ChunkSet /\ Slots' = Slots
  BY DEF segVars, Total, ChunkSet, Slots
<1>a. chunks \in Seq(ChunkSet) /\ chunks # <<>>
  BY DEF GpuTakeDecoded, ChunkInv, FrontTypes
<1>b. Head(chunks) \in ChunkSet /\ Tail(chunks) \in Seq(ChunkSet)
  BY <1>a, HoldsHead
<1>c. gpu' = "predict" /\ gpuHolds' = Head(chunks) /\ chunks' = Tail(chunks)
  BY DEF GpuTakeDecoded
<1>1. FrontTypes' /\ BridgeInv'
  BY <1>0, <1>b, <1>c DEF segVars, bridgeVars, ChunkInv, FrontTypes, BridgeInv
<1>2. BackTypes'
  BY <1>0, <1>b, <1>c DEF GpuTakeDecoded, prepVars, mainVars, ChunkInv, BackTypes
<1>4. HoldInv'
  BY <1>c DEF prepVars, ChunkInv, HoldInv
<1>5. FaultInv'
  BY <1>c DEF segVars, prepVars, mainVars, ChunkInv, FaultInv
<1>6. EndInv'
  <2>1. ~GpuGone /\ ~GpuGone'
    BY <1>c DEF GpuGone, ChunkInv, BackTypes
  <2> QED BY <1>a, <2>1 DEF GpuTakeDecoded, bridgeVars, prepVars, mainVars, ChunkInv, EndInv
<1>7. JoinInv'
  BY <1>c DEF segVars, bridgeVars, prepVars, mainVars, ChunkInv, JoinInv
<1>8. AccountInv'
  <2> SUFFICES ASSUME faults = {}, NEW i \in Slots, i < SentUpTo
               PROVE  Accounted(i)'
    BY <1>0 DEF segVars, bridgeVars, AccountInv, SentUpTo
  <2>1. Accounted(i)
    BY DEF ChunkInv, AccountInv
  <2>2. Total \in Nat \ {0} /\ i \in Int
    BY CallSizes DEF ChunkInv, FrontTypes, Slots
  <2>3. Holds(chunks, i) => In(gpuHolds', i) \/ Holds(chunks', i)
    BY <1>a, <1>c, HoldsHead
  <2>4. gpuHolds = NoChunk
    BY DEF ChunkInv, HoldInv
  <2>5. ~In(gpuHolds, i)
    BY <2>2, <2>4, NothingInNoChunk
  <2> QED BY <2>1, <2>3, <2>5 DEF GpuTakeDecoded, prepVars, mainVars, Accounted
<1> QED BY <1>1, <1>2, <1>4, <1>5, <1>6, <1>7, <1>8 DEF ChunkInv

(* It only moves, or stops with its input disconnected and drained.        *)
LEMMA GpuIdleKeeps ==
  ASSUME ChunkInv, gpu \notin {"predict", "send", "ok", "failed"},
         \/ gpu' \in {"pollPrep", "pollChunk", "select", "drain"}
         \/ gpu' = "ok" /\ PrepsGone /\ prepared = <<>>,
         UNCHANGED <<gpuHolds, prepared, chunks>>,
         UNCHANGED <<segVars, windows, bridgeVars, prepVars, embedded, mainVars, faults>>
  PROVE  ChunkInv'
<1>0. call' = call /\ Total' = Total /\ ChunkSet' = ChunkSet /\ Slots' = Slots
  BY DEF segVars, Total, ChunkSet, Slots
<1>1. FrontTypes' /\ BridgeInv'
  BY <1>0 DEF segVars, bridgeVars, ChunkInv, FrontTypes, BridgeInv
<1>2. BackTypes'
  BY <1>0 DEF prepVars, mainVars, ChunkInv, BackTypes
<1>4. HoldInv'
  BY DEF prepVars, ChunkInv, HoldInv
<1>5. FaultInv'
  BY DEF segVars, prepVars, mainVars, ChunkInv, FaultInv
<1>6. EndInv'
  <2>1. ~GpuGone
    BY DEF GpuGone, ChunkInv, BackTypes
  <2>2. GpuGone' => PrepsGone' /\ prepared' = <<>>
    BY DEF GpuGone, PrepsGone, prepVars
  <2> QED BY <2>1, <2>2 DEF bridgeVars, prepVars, mainVars, ChunkInv, EndInv
<1>7. JoinInv'
  BY DEF segVars, bridgeVars, prepVars, mainVars, ChunkInv, JoinInv
<1>8. AccountInv'
  BY <1>0 DEF segVars, bridgeVars, prepVars, mainVars, ChunkInv, AccountInv, SentUpTo, Accounted
<1> QED BY <1>1, <1>2, <1>4, <1>5, <1>6, <1>7, <1>8 DEF ChunkInv

(* The wait for the next chunk keeps the invariant.                        *)
LEMMA NextPreparedKeeps == ASSUME ChunkInv, NextPrepared PROVE ChunkInv'
<1>1. /\ UNCHANGED <<segVars, windows, bridgeVars, prepVars, embedded, mainVars, faults>>
      /\ gpu \notin {"predict", "send", "ok", "failed"}
  BY DEF NextPrepared
<1>2. \/ GpuTakePrepared \/ GpuTakeDecoded
      \/ /\ \/ gpu' \in {"pollPrep", "pollChunk", "select", "drain"}
            \/ gpu' = "ok" /\ PrepsGone /\ prepared = <<>>
         /\ UNCHANGED <<gpuHolds, prepared, chunks>>
  BY DEF NextPrepared, GpuStop, GpuMove, GpuDecodedDone
<1> QED BY <1>1, <1>2, GpuTakePreparedKeeps, GpuTakeDecodedKeeps, GpuIdleKeeps

(* The embeddings of a chunk are stored by slot.                           *)
LEMMA CollectKeeps ==
  ASSUME ChunkInv, Collect
  PROVE  ChunkInv'
<1>0. call' = call /\ Total' = Total /\ ChunkSet' = ChunkSet /\ Slots' = Slots
  BY DEF Collect, segVars, bridgeVars, prepVars, gpuVars, Total, ChunkSet, Slots
<1>a. embedded \in Seq(ChunkSet) /\ embedded # <<>>
  BY DEF Collect, ChunkInv, BackTypes
<1>b. Head(embedded) \in ChunkSet /\ Tail(embedded) \in Seq(ChunkSet)
  BY <1>a, HoldsHead
<1>c. slots' = [i \in Slots |-> IF In(Head(embedded), i)
                                 THEN Head(embedded).content[i - Head(embedded).start + 1]
                                 ELSE slots[i]]
  BY DEF Collect, Store, In, Slots
<1>1. FrontTypes'
  BY <1>0 DEF Collect, segVars, bridgeVars, prepVars, gpuVars, ChunkInv, FrontTypes
<1>2. BackTypes'
  <2>1. slots' = [i \in Slots |-> slots'[i]]
    BY <1>c
  <2>2. embedded' \in Seq(ChunkSet)
    BY <1>b DEF Collect
  <2> QED BY <2>1, <2>2, <1>0 DEF Collect, prepVars, gpuVars, ChunkInv, BackTypes
<1>3. BridgeInv'
  BY <1>0 DEF Collect, segVars, bridgeVars, prepVars, gpuVars, ChunkInv, BridgeInv
<1>4. HoldInv'
  BY <1>0 DEF Collect, segVars, bridgeVars, prepVars, gpuVars, ChunkInv, HoldInv
<1>5. FaultInv'
  BY <1>0 DEF Collect, segVars, bridgeVars, prepVars, gpuVars, ChunkInv, FaultInv
<1>6. EndInv'
  BY <1>0 DEF Collect, segVars, bridgeVars, prepVars, gpuVars, ChunkInv, EndInv,
      GpuGone, PrepsGone
<1>7. JoinInv'
  BY <1>0 DEF Collect, segVars, bridgeVars, prepVars, gpuVars, ChunkInv, JoinInv
<1>8. AccountInv'
  <2> SUFFICES ASSUME faults = {}, NEW i \in Slots, i < SentUpTo
               PROVE  Accounted(i)'
    BY <1>0 DEF Collect, segVars, bridgeVars, AccountInv, SentUpTo
  <2>1. Accounted(i)
    BY DEF ChunkInv, AccountInv
  <2>2. Holds(embedded, i) => In(Head(embedded), i) \/ Holds(embedded', i)
    BY <1>a, HoldsHead DEF Collect
  <2>3. In(Head(embedded), i) => slots'[i] = i
    <3> SUFFICES ASSUME In(Head(embedded), i) PROVE slots'[i] = i
      OBVIOUS
    <3>1. slots'[i] = Head(embedded).content[i - Head(embedded).start + 1]
      BY <1>c
    <3>2. PICK ch : ch = Head(embedded)
      OBVIOUS
    <3>3. /\ ch.start \in Nat /\ ch.content \in Seq(Int)
          /\ \A j \in 1 .. Len(ch.content) : ch.content[j] = ch.start + j - 1
      BY <1>b, <3>2 DEF ChunkSet
    <3>4. Len(ch.content) \in Nat
      BY <3>3, LenProperties
    <3>5. i \in Int /\ i >= ch.start /\ i <= ch.start + Len(ch.content) - 1
      BY <3>2, <3>3, <3>4 DEF In
    <3>6. i - ch.start + 1 \in 1 .. Len(ch.content)
      BY <3>3, <3>4, <3>5
    <3>7. ch.content[i - ch.start + 1] = ch.start + (i - ch.start + 1) - 1
      BY <3>3, <3>6
    <3> QED BY <3>1, <3>2, <3>3, <3>5, <3>7
  <2>4. slots[i] = i => slots'[i] = i
    BY <2>3, <1>c
  <2> QED BY <2>1, <2>2, <2>3, <2>4 DEF Collect, prepVars, gpuVars, Accounted
<1> QED BY <1>1, <1>2, <1>3, <1>4, <1>5, <1>6, <1>7, <1>8 DEF ChunkInv

(* The collector rejects a prediction.                                     *)
LEMMA CollectFailKeeps ==
  ASSUME ChunkInv, CollectFail
  PROVE  ChunkInv'
<1>0. call' = call /\ Total' = Total /\ ChunkSet' = ChunkSet /\ Slots' = Slots
  BY DEF CollectFail, segVars, bridgeVars, prepVars, gpuVars, Leave, Total, ChunkSet,
      Slots
<1>1. FrontTypes'
  BY <1>0 DEF CollectFail, segVars, bridgeVars, prepVars, gpuVars, Leave, ChunkInv,
      FrontTypes
<1>2. BackTypes'
  BY <1>0 DEF CollectFail, segVars, bridgeVars, prepVars, gpuVars, Leave, ChunkInv,
      BackTypes
<1>3. BridgeInv'
  BY <1>0 DEF CollectFail, segVars, bridgeVars, prepVars, gpuVars, Leave, ChunkInv,
      BridgeInv
<1>4. HoldInv'
  BY <1>0 DEF CollectFail, segVars, bridgeVars, prepVars, gpuVars, Leave, ChunkInv,
      HoldInv
<1>5. FaultInv'
  BY <1>0 DEF CollectFail, segVars, bridgeVars, prepVars, gpuVars, Leave, ChunkInv,
      FaultInv
<1>6. EndInv'
  BY <1>0 DEF CollectFail, segVars, bridgeVars, prepVars, gpuVars, Leave, ChunkInv,
      EndInv, GpuGone, PrepsGone
<1>7. JoinInv'
  BY <1>0 DEF CollectFail, segVars, bridgeVars, prepVars, gpuVars, Leave, ChunkInv,
      JoinInv
<1>8. AccountInv'
  BY <1>0 DEF CollectFail, segVars, bridgeVars, prepVars, gpuVars, Leave, ChunkInv,
      AccountInv, SentUpTo, Accounted
<1> QED BY <1>1, <1>2, <1>3, <1>4, <1>5, <1>6, <1>7, <1>8 DEF ChunkInv

(* The embedding channel is exhausted.                                     *)
LEMMA CollectEndKeeps ==
  ASSUME ChunkInv, CollectEnd
  PROVE  ChunkInv'
<1>0. call' = call /\ Total' = Total /\ ChunkSet' = ChunkSet /\ Slots' = Slots
  BY DEF CollectEnd, segVars, bridgeVars, prepVars, gpuVars, Total, ChunkSet, Slots
<1>1. FrontTypes'
  BY <1>0 DEF CollectEnd, segVars, bridgeVars, prepVars, gpuVars, ChunkInv, FrontTypes
<1>2. BackTypes'
  BY <1>0 DEF CollectEnd, segVars, bridgeVars, prepVars, gpuVars, ChunkInv, BackTypes
<1>3. BridgeInv'
  BY <1>0 DEF CollectEnd, segVars, bridgeVars, prepVars, gpuVars, ChunkInv, BridgeInv
<1>4. HoldInv'
  BY <1>0 DEF CollectEnd, segVars, bridgeVars, prepVars, gpuVars, ChunkInv, HoldInv
<1>5. FaultInv'
  BY <1>0 DEF CollectEnd, segVars, bridgeVars, prepVars, gpuVars, ChunkInv, FaultInv
<1>6. EndInv'
  BY <1>0 DEF CollectEnd, segVars, bridgeVars, prepVars, gpuVars, ChunkInv, EndInv,
      GpuGone, PrepsGone
<1>7. JoinInv'
  BY <1>0 DEF CollectEnd, segVars, bridgeVars, prepVars, gpuVars, ChunkInv, JoinInv
<1>8. AccountInv'
  BY <1>0 DEF CollectEnd, segVars, bridgeVars, prepVars, gpuVars, ChunkInv, AccountInv,
      SentUpTo, Accounted
<1> QED BY <1>1, <1>2, <1>3, <1>4, <1>5, <1>6, <1>7, <1>8 DEF ChunkInv

(* The calling thread joins the GPU worker,                                *)
LEMMA JoinGpuKeeps ==
  ASSUME ChunkInv, JoinGpu
  PROVE  ChunkInv'
<1>0. call' = call /\ Total' = Total /\ ChunkSet' = ChunkSet /\ Slots' = Slots
  BY DEF JoinGpu, segVars, bridgeVars, prepVars, gpuVars, Leave, Total, ChunkSet, Slots
<1>1. FrontTypes'
  BY <1>0 DEF JoinGpu, segVars, bridgeVars, prepVars, gpuVars, Leave, ChunkInv,
      FrontTypes
<1>2. BackTypes'
  BY <1>0 DEF JoinGpu, segVars, bridgeVars, prepVars, gpuVars, Leave, ChunkInv,
      BackTypes
<1>3. BridgeInv'
  BY <1>0 DEF JoinGpu, segVars, bridgeVars, prepVars, gpuVars, Leave, ChunkInv,
      BridgeInv
<1>4. HoldInv'
  BY <1>0 DEF JoinGpu, segVars, bridgeVars, prepVars, gpuVars, Leave, ChunkInv, HoldInv
<1>5. FaultInv'
  BY <1>0 DEF JoinGpu, segVars, bridgeVars, prepVars, gpuVars, Leave, ChunkInv,
      FaultInv
<1>6. EndInv'
  BY <1>0 DEF JoinGpu, segVars, bridgeVars, prepVars, gpuVars, Leave, ChunkInv, EndInv,
      GpuGone, PrepsGone
<1>7. JoinInv'
  <2>1. gpu' = gpu /\ gpu \in {"ok", "failed"} /\ outcome = "none"
    BY DEF JoinGpu, gpuVars, GpuGone, ChunkInv, BackTypes, JoinInv
  <2>2. CASE gpu = "failed"
    BY <2>1, <2>2 DEF JoinGpu, Leave, JoinInv
  <2>3. CASE gpu = "ok"
    BY <2>1, <2>3 DEF JoinGpu, JoinInv
  <2> QED BY <2>1, <2>2, <2>3
<1>8. AccountInv'
  BY <1>0 DEF JoinGpu, segVars, bridgeVars, prepVars, gpuVars, Leave, ChunkInv,
      AccountInv, SentUpTo, Accounted
<1> QED BY <1>1, <1>2, <1>3, <1>4, <1>5, <1>6, <1>7, <1>8 DEF ChunkInv

(* the preparation workers,                                                *)
LEMMA JoinPrepsKeeps ==
  ASSUME ChunkInv, JoinPreps
  PROVE  ChunkInv'
<1>0. call' = call /\ Total' = Total /\ ChunkSet' = ChunkSet /\ Slots' = Slots
  BY DEF JoinPreps, segVars, bridgeVars, prepVars, gpuVars, Leave, Total, ChunkSet,
      Slots
<1>1. FrontTypes'
  BY <1>0 DEF JoinPreps, segVars, bridgeVars, prepVars, gpuVars, Leave, ChunkInv,
      FrontTypes
<1>2. BackTypes'
  BY <1>0 DEF JoinPreps, segVars, bridgeVars, prepVars, gpuVars, Leave, ChunkInv,
      BackTypes
<1>3. BridgeInv'
  BY <1>0 DEF JoinPreps, segVars, bridgeVars, prepVars, gpuVars, Leave, ChunkInv,
      BridgeInv
<1>4. HoldInv'
  BY <1>0 DEF JoinPreps, segVars, bridgeVars, prepVars, gpuVars, Leave, ChunkInv,
      HoldInv
<1>5. FaultInv'
  BY <1>0 DEF JoinPreps, segVars, bridgeVars, prepVars, gpuVars, Leave, ChunkInv,
      FaultInv
<1>6. EndInv'
  BY <1>0 DEF JoinPreps, segVars, bridgeVars, prepVars, gpuVars, Leave, ChunkInv,
      EndInv, GpuGone, PrepsGone
<1>7. JoinInv'
  <2>1. /\ gpu' = gpu /\ prep' = prep /\ gpu = "ok" /\ outcome = "none"
    BY DEF JoinPreps, gpuVars, prepVars, ChunkInv, BackTypes, JoinInv
  <2>2. CASE \E w \in Preps : prep[w] = "failed"
    BY <2>1, <2>2 DEF JoinPreps, Leave, JoinInv
  <2>3. CASE ~(\E w \in Preps : prep[w] = "failed")
    <3>1. \A w \in Preps : prep[w] = "ok"
      BY <2>3 DEF JoinPreps, PrepsGone
    <3> QED BY <2>1, <2>3, <3>1 DEF JoinPreps, JoinInv
  <2> QED BY <2>2, <2>3
<1>8. AccountInv'
  BY <1>0 DEF JoinPreps, segVars, bridgeVars, prepVars, gpuVars, Leave, ChunkInv,
      AccountInv, SentUpTo, Accounted
<1> QED BY <1>1, <1>2, <1>3, <1>4, <1>5, <1>6, <1>7, <1>8 DEF ChunkInv

(* and the segmentation thread.                                            *)
LEMMA JoinSegKeeps ==
  ASSUME ChunkInv, JoinSeg
  PROVE  ChunkInv'
<1>0. call' = call /\ Total' = Total /\ ChunkSet' = ChunkSet /\ Slots' = Slots
  BY DEF JoinSeg, segVars, bridgeVars, prepVars, gpuVars, Leave, Total, ChunkSet, Slots
<1>1. FrontTypes'
  BY <1>0 DEF JoinSeg, segVars, bridgeVars, prepVars, gpuVars, Leave, ChunkInv,
      FrontTypes
<1>2. BackTypes'
  BY <1>0 DEF JoinSeg, segVars, bridgeVars, prepVars, gpuVars, Leave, ChunkInv,
      BackTypes
<1>3. BridgeInv'
  BY <1>0 DEF JoinSeg, segVars, bridgeVars, prepVars, gpuVars, Leave, ChunkInv,
      BridgeInv
<1>4. HoldInv'
  BY <1>0 DEF JoinSeg, segVars, bridgeVars, prepVars, gpuVars, Leave, ChunkInv, HoldInv
<1>5. FaultInv'
  BY <1>0 DEF JoinSeg, segVars, bridgeVars, prepVars, gpuVars, Leave, ChunkInv,
      FaultInv
<1>6. EndInv'
  BY <1>0 DEF JoinSeg, segVars, bridgeVars, prepVars, gpuVars, Leave, ChunkInv, EndInv,
      GpuGone, PrepsGone
<1>7. JoinInv'
  <2>1. /\ gpu' = gpu /\ prep' = prep /\ segmenter' = segmenter
        /\ gpu = "ok" /\ outcome = "none" /\ segmenter \in {"ok", "failed"}
        /\ \A w \in Preps : prep[w] = "ok"
    BY DEF JoinSeg, gpuVars, prepVars, segVars, ChunkInv, FrontTypes, BackTypes, JoinInv
  <2>2. CASE segmenter = "failed"
    BY <2>1, <2>2 DEF JoinSeg, Leave, JoinInv
  <2>3. CASE segmenter = "ok"
    BY <2>1, <2>3 DEF JoinSeg, JoinInv
  <2> QED BY <2>1, <2>2, <2>3
<1>8. AccountInv'
  BY <1>0 DEF JoinSeg, segVars, bridgeVars, prepVars, gpuVars, Leave, ChunkInv,
      AccountInv, SentUpTo, Accounted
<1> QED BY <1>1, <1>2, <1>3, <1>4, <1>5, <1>6, <1>7, <1>8 DEF ChunkInv

(* It joins the bridge last, and the call succeeds.                        *)
LEMMA JoinBridgeKeeps ==
  ASSUME ChunkInv, JoinBridge
  PROVE  ChunkInv'
<1>0. call' = call /\ Total' = Total /\ ChunkSet' = ChunkSet /\ Slots' = Slots
  BY DEF JoinBridge, segVars, bridgeVars, prepVars, gpuVars, Leave, Total, ChunkSet,
      Slots
<1>1. FrontTypes'
  BY <1>0 DEF JoinBridge, segVars, bridgeVars, prepVars, gpuVars, Leave, ChunkInv,
      FrontTypes
<1>2. BackTypes'
  BY <1>0 DEF JoinBridge, segVars, bridgeVars, prepVars, gpuVars, Leave, ChunkInv,
      BackTypes
<1>3. BridgeInv'
  BY <1>0 DEF JoinBridge, segVars, bridgeVars, prepVars, gpuVars, Leave, ChunkInv,
      BridgeInv
<1>4. HoldInv'
  BY <1>0 DEF JoinBridge, segVars, bridgeVars, prepVars, gpuVars, Leave, ChunkInv,
      HoldInv
<1>5. FaultInv'
  <2>1. outcome = "none" /\ outcome' = "Ok"
    BY DEF JoinBridge, Leave, ChunkInv, BackTypes, JoinInv
  <2> QED BY <2>1 DEF JoinBridge, segVars, prepVars, gpuVars, ChunkInv, FaultInv
<1>6. EndInv'
  BY <1>0 DEF JoinBridge, segVars, bridgeVars, prepVars, gpuVars, Leave, ChunkInv,
      EndInv, GpuGone, PrepsGone
<1>7. JoinInv'
  BY <1>0 DEF JoinBridge, segVars, bridgeVars, prepVars, gpuVars, Leave, ChunkInv,
      JoinInv
<1>8. AccountInv'
  BY <1>0 DEF JoinBridge, segVars, bridgeVars, prepVars, gpuVars, Leave, ChunkInv,
      AccountInv, SentUpTo, Accounted
<1> QED BY <1>1, <1>2, <1>3, <1>4, <1>5, <1>6, <1>7, <1>8 DEF ChunkInv

(* The scope is left.                                                      *)
LEMMA ReturnKeeps ==
  ASSUME ChunkInv, Return
  PROVE  ChunkInv'
<1>0. call' = call /\ Total' = Total /\ ChunkSet' = ChunkSet /\ Slots' = Slots
  BY DEF Return, segVars, bridgeVars, prepVars, gpuVars, Total, ChunkSet, Slots
<1>1. FrontTypes'
  BY <1>0 DEF Return, segVars, bridgeVars, prepVars, gpuVars, ChunkInv, FrontTypes
<1>2. BackTypes'
  BY <1>0 DEF Return, segVars, bridgeVars, prepVars, gpuVars, ChunkInv, BackTypes
<1>3. BridgeInv'
  BY <1>0 DEF Return, segVars, bridgeVars, prepVars, gpuVars, ChunkInv, BridgeInv
<1>4. HoldInv'
  BY <1>0 DEF Return, segVars, bridgeVars, prepVars, gpuVars, ChunkInv, HoldInv
<1>5. FaultInv'
  BY <1>0 DEF Return, segVars, bridgeVars, prepVars, gpuVars, ChunkInv, FaultInv
<1>6. EndInv'
  BY <1>0 DEF Return, segVars, bridgeVars, prepVars, gpuVars, ChunkInv, EndInv,
      GpuGone, PrepsGone
<1>7. JoinInv'
  BY <1>0 DEF Return, segVars, bridgeVars, prepVars, gpuVars, ChunkInv, JoinInv
<1>8. AccountInv'
  BY <1>0 DEF Return, segVars, bridgeVars, prepVars, gpuVars, ChunkInv, AccountInv,
      SentUpTo, Accounted
<1> QED BY <1>1, <1>2, <1>3, <1>4, <1>5, <1>6, <1>7, <1>8 DEF ChunkInv

(* Nothing changes.                                                        *)
LEMMA StutterKeeps == ASSUME ChunkInv, UNCHANGED vars PROVE ChunkInv'
<1>0. call' = call /\ Total' = Total /\ ChunkSet' = ChunkSet /\ Slots' = Slots
  BY DEF vars, segVars, Total, ChunkSet, Slots
<1>1. FrontTypes' /\ BridgeInv'
  BY <1>0 DEF vars, segVars, bridgeVars, ChunkInv, FrontTypes, BridgeInv
<1>2. BackTypes'
  BY <1>0 DEF vars, prepVars, gpuVars, mainVars, ChunkInv, BackTypes
<1>3. HoldInv' /\ FaultInv' /\ JoinInv'
  BY DEF vars, segVars, bridgeVars, prepVars, gpuVars, mainVars, ChunkInv, HoldInv, FaultInv,
         JoinInv
<1>4. EndInv'
  BY DEF vars, bridgeVars, prepVars, gpuVars, mainVars, ChunkInv, EndInv, GpuGone, PrepsGone
<1>5. AccountInv'
  BY <1>0 DEF vars, segVars, bridgeVars, prepVars, gpuVars, mainVars, ChunkInv, AccountInv,
              SentUpTo, Accounted
<1> QED BY <1>1, <1>2, <1>3, <1>4, <1>5 DEF ChunkInv
-----------------------------------------------------------------------------
(* Every step of every thread keeps the invariant.                         *)
LEMMA ChunkInvariant == Spec => []ChunkInv
<1>1. ChunkInv /\ [Next]_vars => ChunkInv'
  <2> SUFFICES ASSUME ChunkInv, [Next]_vars PROVE ChunkInv'
    OBVIOUS
  <2>1. CASE SegNext
    BY <2>1, SegSendKeeps, SegEndKeeps, SegFailKeeps DEF SegNext
  <2>2. CASE BridgeNext
    BY <2>2, BridgeTakeKeeps, BridgeSendKeeps, BridgeEndKeeps DEF BridgeNext
  <2>3. ASSUME NEW w \in Preps, PrepNext(w) PROVE ChunkInv'
    BY <2>3, PrepRecvKeeps, PrepEndKeeps, PrepDoneKeeps, PrepSendKeeps, PrepFailKeeps
       DEF PrepNext
  <2>4. CASE GpuNext
    BY <2>4, NextPreparedKeeps, GpuPredictKeeps, GpuSendKeeps, GpuFailKeeps DEF GpuNext
  <2>5. CASE MainNext
    BY <2>5, CollectKeeps, CollectFailKeeps, CollectEndKeeps, JoinGpuKeeps, JoinPrepsKeeps,
       JoinSegKeeps, JoinBridgeKeeps, ReturnKeeps DEF MainNext
  <2>6. CASE Returned \/ UNCHANGED vars
    BY <2>6, StutterKeeps DEF Returned
  <2> QED BY <2>1, <2>2, <2>3, <2>4, <2>5, <2>6 DEF Next
<1> QED BY <1>1, InitInv, PTL DEF Spec

(* Every window is in its slot once all threads have ended well: the       *)
(* channels are drained and no thread holds a chunk.                       *)
LEMMA SlotsComplete ==
  ASSUME ChunkInv, outcome = "Ok" PROVE \A i \in 0 .. Total - 1 : slots[i] = i
<1>1. /\ gpu = "ok" /\ segmenter = "ok" /\ bridge = "ended"
      /\ \A w \in Preps : prep[w] = "ok"
  BY DEF ChunkInv, JoinInv
<1>2. faults = {}
  BY <1>1 DEF ChunkInv, FaultInv
<1>3. GpuGone /\ main \in {"leave", "returned"}
  BY <1>1 DEF GpuGone, ChunkInv, JoinInv
<1>4. chunks = <<>> /\ prepared = <<>> /\ embedded = <<>>
  <2>1. PICK w \in Preps : TRUE
    BY PrepsAssumption
  <2> QED BY <2>1, <1>1, <1>2, <1>3 DEF ChunkInv, EndInv
<1>5. gpuHolds = NoChunk /\ \A w \in Preps : prepHolds[w] = NoChunk
  BY <1>1 DEF ChunkInv, HoldInv
<1>6. produced = Total
  BY <1>1 DEF ChunkInv, BridgeInv
<1>7. Total \in Nat \ {0}
  BY CallSizes DEF ChunkInv, FrontTypes
<1> SUFFICES ASSUME NEW i \in 0 .. Total - 1 PROVE slots[i] = i
  OBVIOUS
<1>8. i \in Int /\ i \in Slots /\ i < SentUpTo
  BY <1>1, <1>6, <1>7 DEF Slots, SentUpTo
<1>9. Accounted(i)
  BY <1>2, <1>8 DEF ChunkInv, AccountInv
<1>10. ~In(NoChunk, i) /\ ~Holds(<<>>, i)
  BY <1>8, NothingInNoChunk, NothingInEmpty
<1> QED BY <1>4, <1>5, <1>9, <1>10 DEF Accounted

(* A call fails exactly if a thread failed, whichever thread and however   *)
(* the joins are ordered, and a call that succeeds has the embedding of    *)
(* every window in its own slot, whichever worker prepared which chunk     *)
(* (run_pipelined and the GPU worker's select).                            *)
THEOREM ChunkOutcomeTruthful == Spec => []OutcomeTruthful
<1>1. ChunkInv => OutcomeTruthful
  <2> SUFFICES ASSUME ChunkInv PROVE OutcomeTruthful
    OBVIOUS
  <2>1. ASSUME main \in {"leave", "returned"} PROVE outcome = "Err" <=> faults # {}
    <3>1. outcome \in {"Ok", "Err"}
      BY <2>1 DEF ChunkInv, BackTypes, JoinInv
    <3>2. outcome = "Ok" => faults = {}
      BY DEF ChunkInv, JoinInv, FaultInv
    <3>3. outcome = "Err" => faults # {}
      BY DEF ChunkInv, FaultInv
    <3> QED BY <3>1, <3>2, <3>3
  <2>2. outcome = "Ok" => \A i \in 0 .. Total - 1 : slots[i] = i
    BY SlotsComplete
  <2> QED BY <2>1, <2>2 DEF OutcomeTruthful
<1> QED BY <1>1, ChunkInvariant, PTL
=============================================================================
