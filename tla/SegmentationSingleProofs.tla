---------------------- MODULE SegmentationSingleProofs ----------------------
(***************************************************************************)
(* Theorems about parallel segmentation a window at a time: whichever      *)
(* workers fail, and for any number of them, the stream never steps back,  *)
(* a gap in it is always reported, and the outcome is true.                *)
(***************************************************************************)
EXTENDS SegmentationSingle, AlgorithmProofs

(* What the state machine needs to know of its ranges.                     *)
LEMMA RangeFacts ==
  /\ WorkerCount \in Nat /\ WorkerCount > 0 /\ Total \in Nat /\ Total > 0
  /\ Ranges[0].start = 0 /\ Ranges[WorkerCount - 1].end = Total
  /\ \A w \in Workers :
       /\ Ranges[w].start \in 0 .. Total - 1 /\ Ranges[w].end \in 1 .. Total
       /\ Ranges[w].start < Ranges[w].end
       /\ w + 1 \in Workers => Ranges[w + 1].start = Ranges[w].end
  <1>1. Partitions(Ranges, WorkerCount, Total)
    BY RangesPartition, SizesAssumption DEF Ranges, WorkerCount
  <1>2. WorkerCount \in Nat
    <2>1. /\ RangeSize(Total, NumWorkers) \in Nat \ {0}
          /\ WorkerCount = CeilDiv(Total, RangeSize(Total, NumWorkers))
      BY RangesFit, SizesAssumption DEF WorkerCount
    <2> QED
      BY <2>1, CeilDivBounds, SizesAssumption
  <1>3. WorkerCount > 0
    BY <1>1, <1>2, SizesAssumption DEF Partitions
  <1>4. \A w \in Workers : NonEmpty(Ranges[w], Total)
    BY <1>1 DEF Partitions, Workers
  <1>5. ASSUME NEW w \in Workers, w + 1 \in Workers
        PROVE  Ranges[w + 1].start = Ranges[w].end
    <2>1. w + 1 \in 1 .. WorkerCount - 1 /\ (w + 1) - 1 = w
      BY <1>2, <1>5 DEF Workers
    <2> QED
      BY <1>1, <2>1 DEF Partitions
  <1> QED
    BY <1>1, <1>2, <1>3, <1>4, <1>5, SizesAssumption DEF Partitions, NonEmpty

LEMMA SingleInvInit ==
  ASSUME Init
  PROVE  SingleInv
  <1> USE DEF Init
  <1>1. /\ Len(sent) = 0 /\ sent \in Seq(Windows) /\ ~ErrorRecorded
        /\ \A w \in Workers : results[w] \in Seq(Windows) /\ Len(results[w]) = 0
    BY EmptyFacts DEF ErrorRecorded
  <1>2. 0 \in Workers /\ Frontier = 0
    BY RangeFacts, <1>1 DEF Workers, Frontier
  <1>3. TypeOK
    <2>1. next \in [Workers -> 0 .. Total]
      BY RangeFacts
    <2>2. results \in [Workers -> Seq(Windows)]
      BY <1>1
    <2> QED
      BY <1>1, <2>1, <2>2, RangeFacts, SizesAssumption DEF TypeOK, InFlight
  <1>4. ChannelsConsecutive
    <2>1. \A w \in Workers : next[w] = Ranges[w].start /\ worker[w] = "running" /\ ~(w < reading)
      BY RangeFacts DEF Workers
    <2>2. \A w \in Workers : next[w] \in Ranges[w].start .. Ranges[w].end
                             /\ Len(results[w]) = next[w] - Ranges[w].start
      BY <1>1, <2>1, RangeFacts
    <2>3. \A w \in Workers : 1 .. Len(results[w]) = {}
      BY <1>1
    <2> QED
      BY <2>1, <2>2, <2>3, RangeFacts DEF ChannelsConsecutive, ChannelConsecutive
  <1>5. StreamIncreasing /\ StreamBelowFrontier /\ StreamExact
    BY <1>1, <1>2 DEF StreamIncreasing, StreamBelowFrontier, StreamExact
  <1> QED
    BY <1>1, <1>3, <1>4, <1>5 DEF SingleInv, OutcomeDecided, Outcomes

(* A worker adds the next window of its range at the end of its channel;   *)
(* the first window still to come from the channel being read stays where  *)
(* it was.                                                                 *)
LEMMA ProcessWindowInv ==
  ASSUME SingleInv, NEW w \in Workers, ProcessWindow(w)
  PROVE  SingleInv'
  <1>1. TypeOK /\ ChannelsConsecutive /\ worker[w] = "running" /\ next[w] < Ranges[w].end
    BY DEF SingleInv, ProcessWindow
  <1>2. UNCHANGED <<merger, reading, sent, taken, consumer, executor>>
    BY DEF ProcessWindow, mergerVars, consumerVars
  <1>3. /\ next \in [Workers -> 0 .. Total] /\ results \in [Workers -> Seq(Windows)]
        /\ worker \in [Workers -> {"running", "done", "failed"}]
        /\ next[w] \in Ranges[w].start .. Ranges[w].end
    BY <1>1 DEF TypeOK, ChannelsConsecutive, ChannelConsecutive
  <1>4. CASE merger = "failed"
    <2>1. worker' = [worker EXCEPT ![w] = "done"] /\ UNCHANGED <<results, next>>
      BY <1>4 DEF ProcessWindow
    <2>2. \A v \in Workers : worker'[v] # "running" <=> worker[v] # "running" \/ v = w
      BY <1>3, <2>1
    <2>3. ErrorRecorded' <=> ErrorRecorded
      BY <1>1, <1>3, <2>1 DEF ErrorRecorded
    <2>4. TypeOK' /\ ChannelsConsecutive'
      BY <1>1, <1>2, <1>3, <1>4, <2>1, <2>2 DEF TypeOK, InFlight, ChannelsConsecutive, ChannelConsecutive
    <2> QED
      BY <1>2, <1>4, <2>1, <2>2, <2>3, <2>4
         DEF SingleInv, StreamIncreasing, StreamBelowFrontier, StreamExact, OutcomeDecided
  <1>5. CASE merger = "running"
    <2>1. /\ results' = [results EXCEPT ![w] = Append(@, next[w])]
          /\ next' = [next EXCEPT ![w] = @ + 1] /\ worker' = worker
      BY <1>5 DEF ProcessWindow
    <2>2. /\ next[w] \in Windows /\ next[w] + 1 \in 0 .. Total
          /\ next[w] + 1 \in Ranges[w].start .. Ranges[w].end
      BY <1>1, <1>3, RangeFacts DEF Windows
    <2>3. /\ results'[w] \in Seq(Windows) /\ Len(results'[w]) = Len(results[w]) + 1
          /\ Len(results[w]) \in Nat
          /\ \A i \in 1 .. Len(results[w]) : results'[w][i] = results[w][i]
          /\ results'[w][Len(results[w]) + 1] = next[w]
      BY <1>3, <2>1, <2>2, AppendFacts
    <2>4. \A v \in Workers \ {w} : results'[v] = results[v] /\ next'[v] = next[v]
      BY <1>3, <2>1
    <2>5. next'[w] = next[w] + 1
      BY <1>3, <2>1
    <2>6. TypeOK'
      <3>1. next' \in [Workers -> 0 .. Total]
        BY <1>3, <2>1, <2>2
      <3>2. results' \in [Workers -> Seq(Windows)]
        BY <1>3, <2>1, <2>3
      <3> QED
        BY <1>1, <1>2, <2>1, <3>1, <3>2 DEF TypeOK, InFlight
    <2>7. ChannelsConsecutive'
      <3>1. /\ ChannelConsecutive(w) /\ w \in Nat /\ reading \in Nat
            /\ Ranges[w].start \in Nat /\ Ranges[w].end \in Nat /\ next[w] \in Nat
        BY <1>1, <1>3, RangeFacts, SMTT(20) DEF ChannelsConsecutive, TypeOK, Workers
      <3> DEFINE first == next[w] - Len(results[w])
      <3>2. next'[w] - Len(results'[w]) = first /\ first \in Int
        <4>1. Len(results[w]) \in Nat /\ Len(results'[w]) = Len(results[w]) + 1
          BY <2>3
        <4>2. \A n, m \in Nat : (n + 1) - (m + 1) = n - m /\ n - m \in Int
          OBVIOUS
        <4>3. next'[w] - Len(results'[w]) = (next[w] + 1) - (Len(results[w]) + 1)
          BY <2>5, <4>1
        <4> QED
          BY <3>1, <4>1, <4>2, <4>3
      <3>3. \A i \in 1 .. Len(results'[w]) :
              results'[w][i] = next'[w] - Len(results'[w]) + i - 1
        <4> TAKE i \in 1 .. Len(results'[w])
        <4>1. CASE i \in 1 .. Len(results[w])
          <5>1. results'[w][i] = first + i - 1
            BY <3>1, <1>5, <2>3, <4>1 DEF ChannelConsecutive
          <5> QED
            BY <3>2, <5>1
        <4>2. CASE i = Len(results[w]) + 1
          <5>1. next[w] = first + i - 1
            BY <3>1, <2>3, <4>2
          <5> QED
            BY <3>2, <2>3, <4>2, <5>1
        <4> QED
          BY <2>3, <4>1, <4>2
      <3>4. /\ Len(results'[w]) <= next'[w] - Ranges[w].start
            /\ w > reading => Len(results'[w]) = next'[w] - Ranges[w].start
            /\ ~(w < reading)
        <4>1. PICK l \in Nat : l = Len(results[w]) /\ Len(results'[w]) = l + 1
          BY <2>3
        <4>2. /\ l <= next[w] - Ranges[w].start
              /\ w > reading => l = next[w] - Ranges[w].start
          BY <1>5, <3>1, <4>1 DEF ChannelConsecutive
        <4>3. ~(w < reading)
          BY <1>1, <1>5, <3>1 DEF ChannelConsecutive
        <4>4. PICK n, m \in Nat : n = next[w] /\ m = Ranges[w].start
          BY <3>1
        <4>5. l + 1 <= (n + 1) - m /\ (w > reading => l + 1 = (n + 1) - m)
          BY <4>2, <4>4
        <4> QED
          BY <2>5, <4>1, <4>3, <4>4, <4>5
      <3>5. worker'[w] = "running" /\ reading' = reading /\ merger' = merger
        BY <1>1, <1>2, <2>1
      <3>6. ChannelConsecutive(w)'
        BY <2>2, <2>5, <3>3, <3>4, <3>5 DEF ChannelConsecutive
      <3>7. \A v \in Workers \ {w} : ChannelConsecutive(v)'
        BY <1>1, <1>2, <2>1, <2>4 DEF ChannelsConsecutive, ChannelConsecutive
      <3> QED
        BY <3>6, <3>7 DEF ChannelsConsecutive
    <2>8. Frontier' = Frontier
      <3>1. CASE reading = w
        BY <1>2, <1>3, <2>3, <2>5, <3>1, RangeFacts DEF Frontier
      <3>2. CASE reading # w
        BY <1>2, <2>4, <3>2 DEF Frontier
      <3> QED
        BY <3>1, <3>2
    <2>9. ErrorRecorded' <=> ErrorRecorded
      BY <2>1 DEF ErrorRecorded
    <2> QED
      BY <1>2, <2>1, <2>6, <2>7, <2>8, <2>9
         DEF SingleInv, StreamIncreasing, StreamBelowFrontier, StreamExact, OutcomeDecided
  <1> QED
    BY <1>4, <1>5 DEF ProcessWindow

(* A worker that ends, with or without an error, leaves its channel as it  *)
(* is: only the end of a finished range is known.                          *)
LEMMA WorkerEndInv ==
  ASSUME SingleInv, NEW w \in Workers, FinishRange(w) \/ FailWindow(w)
  PROVE  SingleInv'
  <1>1. TypeOK /\ ChannelsConsecutive /\ worker[w] = "running"
    BY DEF SingleInv, FinishRange, FailWindow
  <1>2. UNCHANGED <<next, results, merger, reading, sent, taken, consumer, executor>>
    BY DEF FinishRange, FailWindow, mergerVars, consumerVars
  <1>3. PICK end \in {"done", "failed"} :
          /\ worker' = [worker EXCEPT ![w] = end]
          /\ end = "done" => next[w] = Ranges[w].end
    BY DEF FinishRange, FailWindow
  <1>4. worker \in [Workers -> {"running", "done", "failed"}]
    BY <1>1 DEF TypeOK
  <1>5. /\ worker'[w] = end
        /\ \A v \in Workers \ {w} : worker'[v] = worker[v]
    BY <1>3, <1>4
  <1>6. TypeOK'
    <2>1. worker' \in [Workers -> {"running", "done", "failed"}]
      BY <1>3, <1>4
    <2> QED
      BY <1>1, <1>2, <2>1 DEF TypeOK, InFlight
  <1>7. ChannelsConsecutive'
    <2>1. ChannelConsecutive(w)'
      BY <1>1, <1>2, <1>3, <1>5 DEF ChannelsConsecutive, ChannelConsecutive
    <2>2. \A v \in Workers \ {w} : ChannelConsecutive(v)'
      BY <1>1, <1>2, <1>5 DEF ChannelsConsecutive, ChannelConsecutive
    <2> QED
      BY <2>1, <2>2 DEF ChannelsConsecutive
  <1>8. Frontier' = Frontier
    BY <1>2 DEF Frontier
  <1>9. ErrorRecorded => ErrorRecorded'
    BY <1>1, <1>5 DEF ErrorRecorded
  <1>10. executor = "working"
    BY <1>1 DEF SingleInv, OutcomeDecided
  <1> QED
    BY <1>2, <1>6, <1>7, <1>8, <1>9, <1>10
       DEF SingleInv, StreamIncreasing, StreamBelowFrontier, StreamExact, OutcomeDecided, Outcomes

(* The window sent is the front of the stream: above every earlier one,    *)
(* and, as long as no worker has failed, the next one of the file.         *)
LEMMA MergeSendInv ==
  ASSUME SingleInv, MergeSend
  PROVE  SingleInv'
  <1>0. PICK r \in Workers : r = reading
    BY DEF MergeSend
  <1> DEFINE front == next[r] - Len(results[r])
  <1>1. /\ TypeOK /\ ChannelsConsecutive /\ merger = "running"
        /\ results[r] # <<>> /\ consumer = "receiving" /\ InFlight < TxCapacity
    BY <1>0 DEF SingleInv, MergeSend
  <1>2. /\ UNCHANGED <<worker, next, merger, reading, taken, consumer, executor>>
        /\ sent' = Append(sent, Head(results[r]))
        /\ results' = [results EXCEPT ![r] = Tail(results[r])]
    BY <1>0 DEF MergeSend, workerVars, mergerVars, consumerVars
  <1>3. /\ results \in [Workers -> Seq(Windows)] /\ results[r] \in Seq(Windows)
        /\ sent \in Seq(Windows) /\ taken \in 0 .. Len(sent)
        /\ next[r] \in Nat /\ Ranges[r].start \in Nat /\ r \in Nat
        /\ next[r] \in Ranges[r].start .. Ranges[r].end
    <2>1. ChannelConsecutive(r)
      BY <1>1 DEF ChannelsConsecutive
    <2>2. next[r] \in Ranges[r].start .. Ranges[r].end
      BY <2>1 DEF ChannelConsecutive
    <2>3. Ranges[r].start \in Nat /\ Ranges[r].end \in Nat /\ r \in Nat
      BY RangeFacts DEF Workers
    <2>4. /\ results \in [Workers -> Seq(Windows)]
          /\ sent \in Seq(Windows) /\ taken \in 0 .. Len(sent)
      BY <1>1 DEF TypeOK
    <2> QED
      BY <2>2, <2>3, <2>4
  <1>4. /\ Len(results[r]) \in Nat /\ Len(results[r]) >= 1
        /\ Head(results[r]) \in Windows /\ Head(results[r]) = results[r][1]
        /\ Tail(results[r]) \in Seq(Windows)
        /\ Len(Tail(results[r])) = Len(results[r]) - 1
        /\ \A i \in 1 .. Len(results[r]) - 1 : Tail(results[r])[i] = results[r][i + 1]
    BY <1>1, <1>3, TailFacts
  <1>5. ChannelConsecutive(r)
    BY <1>1 DEF ChannelsConsecutive
  <1>6. front \in Int /\ Frontier = front /\ Head(results[r]) = front
    <2>1. front \in Int
      BY <1>3, <1>4
    <2>2. results[r][1] = front + 1 - 1
      BY <1>1, <1>4, <1>5 DEF ChannelConsecutive
    <2> QED
      BY <1>0, <1>4, <2>1, <2>2 DEF Frontier
  <1>7. /\ results'[r] = Tail(results[r])
        /\ \A v \in Workers \ {r} : results'[v] = results[v]
    BY <1>1, <1>2, <1>3
  <1>8. next'[r] - Len(results'[r]) = front + 1
    <2>1. \A n, m \in Nat : n - (m - 1) = (n - m) + 1
      OBVIOUS
    <2>2. next'[r] - Len(results'[r]) = next[r] - (Len(results[r]) - 1)
      BY <1>2, <1>4, <1>7
    <2> QED
      BY <1>3, <1>4, <2>1, <2>2
  <1>9. Frontier' = front + 1
    BY <1>0, <1>2, <1>8 DEF Frontier
  <1>10. /\ sent' \in Seq(Windows) /\ Len(sent') = Len(sent) + 1 /\ Len(sent) \in Nat
         /\ \A i \in 1 .. Len(sent) : sent'[i] = sent[i]
         /\ sent'[Len(sent) + 1] = front
    BY <1>2, <1>3, <1>4, <1>6, AppendFacts
  <1>11. TypeOK'
    <2>1. results' \in [Workers -> Seq(Windows)]
      BY <1>2, <1>3, <1>4
    <2>2. taken' \in 0 .. Len(sent') /\ InFlight' <= TxCapacity
      BY <1>1, <1>2, <1>3, <1>10, SizesAssumption DEF InFlight
    <2> QED
      BY <1>1, <1>2, <1>10, <2>1, <2>2 DEF TypeOK
  <1>12. ChannelsConsecutive'
    <2>1. \A i \in 1 .. Len(results'[r]) :
            results'[r][i] = next'[r] - Len(results'[r]) + i - 1
      <3> TAKE i \in 1 .. Len(results'[r])
      <3>1. i \in 1 .. Len(results[r]) - 1 /\ i + 1 \in 1 .. Len(results[r]) /\ i \in Nat
        BY <1>4, <1>7
      <3>2. results'[r][i] = front + (i + 1) - 1
        BY <1>1, <1>4, <1>5, <1>7, <3>1 DEF ChannelConsecutive
      <3>3. front + (i + 1) - 1 = (front + 1) + i - 1
        BY <1>6, <3>1
      <3> QED
        BY <1>8, <3>2, <3>3
    <2>2. Len(results'[r]) <= next'[r] - Ranges[r].start
      BY <1>1, <1>2, <1>3, <1>4, <1>5, <1>7 DEF ChannelConsecutive
    <2>3. ~(r > reading') /\ ~(r < reading')
      BY <1>0, <1>2, <1>3
    <2>4. ChannelConsecutive(r)'
      BY <1>2, <1>5, <2>1, <2>2, <2>3 DEF ChannelConsecutive
    <2>5. \A v \in Workers \ {r} : ChannelConsecutive(v)'
      BY <1>1, <1>2, <1>7 DEF ChannelsConsecutive, ChannelConsecutive
    <2> QED
      BY <2>4, <2>5 DEF ChannelsConsecutive
  <1>13. \A i \in 1 .. Len(sent) : sent[i] \in Int /\ sent[i] < front
    <2>1. \A i \in 1 .. Len(sent) : sent[i] < Frontier
      BY <1>1 DEF SingleInv, StreamBelowFrontier
    <2>2. \A i \in 1 .. Len(sent) : sent[i] \in Windows
      BY <1>3
    <2> QED
      BY <1>6, <2>1, <2>2 DEF Windows
  <1>14. StreamIncreasing'
    <2> SUFFICES ASSUME NEW i \in 1 .. Len(sent'), NEW j \in 1 .. Len(sent'), i < j
                 PROVE  sent'[i] < sent'[j]
      BY DEF StreamIncreasing
    <2>1. i \in 1 .. Len(sent) /\ (j \in 1 .. Len(sent) \/ j = Len(sent) + 1)
      BY <1>10
    <2>2. CASE j \in 1 .. Len(sent)
      BY <1>10, <2>1, <2>2 DEF SingleInv, StreamIncreasing
    <2>3. CASE j = Len(sent) + 1
      BY <1>10, <1>13, <2>1, <2>3
    <2> QED
      BY <2>1, <2>2, <2>3
  <1>15. StreamBelowFrontier'
    <2> SUFFICES ASSUME NEW i \in 1 .. Len(sent')
                 PROVE  sent'[i] < front + 1
      BY <1>9 DEF StreamBelowFrontier
    <2>1. CASE i \in 1 .. Len(sent)
      BY <1>6, <1>10, <1>13, <2>1
    <2>2. CASE i = Len(sent) + 1
      BY <1>6, <1>10, <2>2
    <2> QED
      BY <1>10, <2>1, <2>2
  <1>16. StreamExact'
    <2> SUFFICES ASSUME ~ErrorRecorded
                 PROVE  /\ \A i \in 1 .. Len(sent') : sent'[i] = i - 1
                        /\ Len(sent') = front + 1
      BY <1>2, <1>9 DEF StreamExact, ErrorRecorded
    <2>1. Len(sent) = front /\ \A i \in 1 .. Len(sent) : sent[i] = i - 1
      BY <1>1, <1>6 DEF SingleInv, StreamExact
    <2>2. ASSUME NEW i \in 1 .. Len(sent')
          PROVE  sent'[i] = i - 1
      <3>1. CASE i \in 1 .. Len(sent)
        BY <1>10, <2>1, <3>1
      <3>2. CASE i = Len(sent) + 1
        BY <1>10, <2>1, <3>2
      <3> QED
        BY <1>10, <2>2, <3>1, <3>2
    <2> QED
      BY <1>10, <2>1, <2>2
  <1>17. OutcomeDecided' /\ (merger = "failed" => consumer = "hungUp")
    BY <1>1, <1>2 DEF SingleInv, OutcomeDecided, ErrorRecorded
  <1> QED
    BY <1>1, <1>2, <1>11, <1>12, <1>14, <1>15, <1>16, <1>17 DEF SingleInv

(* Once the consumer has hung up, what is left in the channels is dropped. *)
LEMMA MergeSendFailedInv ==
  ASSUME SingleInv, MergeSendFailed
  PROVE  SingleInv'
  <1>1. /\ UNCHANGED <<worker, next, reading, sent, taken, consumer, executor>>
        /\ merger = "running" /\ merger' = "failed" /\ consumer = "hungUp"
        /\ results' = [w \in Workers |-> <<>>]
    BY DEF MergeSendFailed, workerVars, consumerVars
  <1>2. TypeOK'
    <2>1. results' \in [Workers -> Seq(Windows)]
      BY <1>1, EmptyFacts
    <2> QED
      BY <1>1, <2>1 DEF SingleInv, TypeOK, InFlight
  <1>3. ChannelsConsecutive'
    BY <1>1 DEF SingleInv, ChannelsConsecutive, ChannelConsecutive
  <1>4. StreamIncreasing' /\ StreamBelowFrontier' /\ StreamExact'
    BY <1>1 DEF SingleInv, StreamIncreasing, StreamBelowFrontier, StreamExact, ErrorRecorded
  <1>5. OutcomeDecided'
    BY <1>1 DEF SingleInv, OutcomeDecided, ErrorRecorded
  <1> QED
    BY <1>1, <1>2, <1>3, <1>4, <1>5 DEF SingleInv

(* The next channel starts where this one ended, or later if its worker    *)
(* has failed.                                                             *)
LEMMA MergeNextInv ==
  ASSUME SingleInv, MergeNext
  PROVE  SingleInv'
  <1>0. PICK r \in Workers : r = reading
    BY DEF MergeNext
  <1>1. /\ UNCHANGED <<worker, next, results, merger, sent, taken, consumer, executor>>
        /\ merger = "running" /\ reading' = r + 1
        /\ results[r] = <<>> /\ worker[r] # "running"
    BY <1>0 DEF MergeNext, workerVars, consumerVars
  <1>2. /\ TypeOK /\ ChannelsConsecutive
        /\ \A w \in Workers : w \in Nat /\ Ranges[w].start \in Nat /\ Ranges[w].end \in Nat
        /\ WorkerCount \in Nat /\ Workers = 0 .. WorkerCount - 1
    BY RangeFacts DEF SingleInv, Workers
  <1>3. \A w \in Workers : ChannelConsecutive(w) /\ next[w] \in Nat
    BY <1>2, RangeFacts DEF ChannelsConsecutive, ChannelConsecutive
  <1>4. TypeOK'
    <2>1. r + 1 \in 0 .. WorkerCount
      BY <1>2
    <2> QED
      BY <1>1, <1>2, <2>1 DEF TypeOK, InFlight
  <1>5. ChannelsConsecutive'
    <2> SUFFICES ASSUME NEW w \in Workers
                 PROVE  ChannelConsecutive(w)'
      BY DEF ChannelsConsecutive
    <2>1. (w > r + 1 => w > r) /\ (w < r + 1 => w < r \/ w = r)
      BY <1>2
    <2> QED
      BY <1>0, <1>1, <1>3, <2>1 DEF ChannelConsecutive
  <1>6. Frontier = next[r] /\ next[r] <= Ranges[r].end
    <2>1. Len(results[r]) = 0
      BY <1>1, EmptyFacts
    <2> QED
      BY <1>0, <1>2, <1>3, <2>1 DEF Frontier, ChannelConsecutive
  <1>7. Frontier' = Ranges[r].end
    <2>1. CASE r + 1 \in Workers
      <3>1. Ranges[r + 1].start = Ranges[r].end /\ r + 1 > r
        BY <1>2, <2>1, RangeFacts
      <3>2. Len(results[r + 1]) = next[r + 1] - Ranges[r + 1].start
        BY <1>0, <1>1, <1>3, <2>1, <3>1 DEF ChannelConsecutive
      <3>3. Frontier' = next[r + 1] - Len(results[r + 1])
        BY <1>1, <2>1 DEF Frontier
      <3>4. \A n, m \in Nat : n - (n - m) = m
        OBVIOUS
      <3> QED
        BY <1>2, <1>3, <2>1, <3>1, <3>2, <3>3, <3>4
    <2>2. CASE r + 1 \notin Workers
      <3>1. r = WorkerCount - 1
        BY <1>2, <2>2
      <3> QED
        BY <1>1, <2>2, <3>1, RangeFacts DEF Frontier
    <2> QED
      BY <2>1, <2>2
  <1>8. StreamBelowFrontier'
    <2>1. \A i \in 1 .. Len(sent) : sent[i] \in Nat /\ sent[i] < next[r]
      <3>1. \A i \in 1 .. Len(sent) : sent[i] \in Windows
        BY <1>2 DEF TypeOK
      <3> QED
        BY <1>1, <1>6, <3>1 DEF SingleInv, StreamBelowFrontier, Windows
    <2> QED
      BY <1>1, <1>2, <1>3, <1>6, <1>7, <2>1 DEF StreamBelowFrontier
  <1>9. StreamExact'
    <2> SUFFICES ASSUME ~ErrorRecorded
                 PROVE  /\ \A i \in 1 .. Len(sent) : sent[i] = i - 1
                        /\ Len(sent) = Ranges[r].end
      BY <1>1, <1>7 DEF StreamExact, ErrorRecorded
    <2>1. worker[r] = "done"
      BY <1>1, <1>2 DEF ErrorRecorded, TypeOK
    <2>2. next[r] = Ranges[r].end
      BY <1>1, <1>3, <2>1 DEF ChannelConsecutive
    <2> QED
      BY <1>1, <1>6, <2>2 DEF SingleInv, StreamExact
  <1>10. StreamIncreasing' /\ OutcomeDecided'
    BY <1>1 DEF SingleInv, StreamIncreasing, OutcomeDecided, ErrorRecorded
  <1> QED
    BY <1>1, <1>4, <1>5, <1>8, <1>9, <1>10 DEF SingleInv

LEMMA MergeEndInv ==
  ASSUME SingleInv, MergeEnd
  PROVE  SingleInv'
  <1>1. /\ UNCHANGED <<worker, next, results, reading, sent, taken, consumer, executor>>
        /\ merger = "running" /\ merger' = "ok" /\ reading = WorkerCount
    BY DEF MergeEnd, workerVars, consumerVars
  <1>2. TypeOK' /\ ChannelsConsecutive'
    BY <1>1 DEF SingleInv, TypeOK, InFlight, ChannelsConsecutive, ChannelConsecutive
  <1>3. StreamIncreasing' /\ StreamBelowFrontier' /\ StreamExact'
    BY <1>1 DEF SingleInv, StreamIncreasing, StreamBelowFrontier, StreamExact, ErrorRecorded,
               Frontier
  <1>4. OutcomeDecided'
    BY <1>1 DEF SingleInv, OutcomeDecided, ErrorRecorded
  <1> QED
    BY <1>1, <1>2, <1>3, <1>4 DEF SingleInv

(* The consumer and the executor only look at what the others have done.   *)
LEMMA OtherSingleInv ==
  ASSUME SingleInv, ExecutorNext \/ ConsumerNext \/ HangUp \/ Finished \/ UNCHANGED vars
  PROVE  SingleInv'
  <1> USE DEF workerVars, mergerVars, consumerVars, vars
  <1>1. UNCHANGED <<worker, next, results, merger, reading, sent>>
    BY DEF ExecutorNext, WorkersReturned, Return, ConsumerNext, ReceiveWindow, EndOfStream,
           HangUp, Finished
  <1>2. TypeOK /\ Len(sent) \in Nat
    BY DEF SingleInv, TypeOK
  <1>3. /\ ChannelsConsecutive' /\ StreamIncreasing' /\ StreamBelowFrontier' /\ StreamExact'
        /\ (merger' = "ok" => reading' = WorkerCount)
        /\ (ErrorRecorded' <=> ErrorRecorded)
    BY <1>1 DEF SingleInv, ChannelsConsecutive, ChannelConsecutive, StreamIncreasing,
                StreamBelowFrontier, StreamExact, ErrorRecorded, Frontier
  <1>4. TypeOK' /\ OutcomeDecided'
        /\ (merger' = "failed" => consumer' = "hungUp")
        /\ (consumer' = "ended" => merger' = "ok" /\ taken' = Len(sent'))
    <2> USE DEF TypeOK, InFlight
    <2>1. CASE WorkersReturned
      BY <1>1, <1>2, <1>3, <2>1 DEF SingleInv, WorkersReturned, OutcomeDecided, Outcomes
    <2>2. CASE Return
      BY <1>1, <1>2, <1>3, <2>2 DEF SingleInv, Return, OutcomeDecided, Outcomes
    <2>3. CASE ReceiveWindow
      BY <1>1, <1>2, <1>3, <2>3, SizesAssumption DEF SingleInv, ReceiveWindow, OutcomeDecided
    <2>4. CASE EndOfStream
      BY <1>1, <1>2, <1>3, <2>4 DEF SingleInv, EndOfStream, OutcomeDecided
    <2>5. CASE HangUp
      BY <1>1, <1>2, <1>3, <2>5 DEF SingleInv, HangUp, OutcomeDecided
    <2>6. CASE Finished \/ UNCHANGED vars
      BY <1>1, <1>2, <1>3, <2>6 DEF SingleInv, Finished, OutcomeDecided
    <2> QED
      BY <2>1, <2>2, <2>3, <2>4, <2>5, <2>6 DEF ExecutorNext, ConsumerNext
  <1> QED
    BY <1>3, <1>4 DEF SingleInv
-----------------------------------------------------------------------------
(* The order of the stream, and what the channels, the stream and the      *)
(* outcome say of each other, for any number of workers and windows and    *)
(* any capacity.                                                           *)
THEOREM SingleInvariant == Spec => []SingleInv
<1>1. Init => SingleInv
  BY SingleInvInit
<1>2. SingleInv /\ [Next]_vars => SingleInv'
  <2> SUFFICES ASSUME SingleInv, [Next]_vars
               PROVE  SingleInv'
    OBVIOUS
  <2>1. ASSUME NEW w \in Workers, WorkerNext(w)
        PROVE  SingleInv'
    BY <2>1, ProcessWindowInv, WorkerEndInv DEF WorkerNext
  <2>2. CASE MergerNext
    BY <2>2, MergeSendInv, MergeSendFailedInv, MergeNextInv, MergeEndInv DEF MergerNext
  <2>3. CASE ExecutorNext \/ ConsumerNext \/ HangUp \/ Finished \/ UNCHANGED vars
    BY <2>3, OtherSingleInv
  <2> QED
    BY <2>1, <2>2, <2>3 DEF Next
<1> QED
  BY <1>1, <1>2, PTL DEF Spec

(* What the consumer counts wrong never belongs to a successful result: a  *)
(* gap or an early end means that a worker has recorded an error.          *)
THEOREM GapIsReported == Spec => []DisplacedMeansFailure
<1>1. SingleInv => DisplacedMeansFailure
  <2> SUFFICES ASSUME SingleInv, ~ErrorRecorded
               PROVE  /\ \A i \in 1 .. Len(sent) : sent[i] = i - 1
                      /\ consumer = "ended" => taken = Total
    BY RangeFacts DEF DisplacedMeansFailure
  <2>1. \A i \in 1 .. Len(sent) : sent[i] = i - 1
    BY DEF SingleInv, StreamExact
  <2>2. ASSUME consumer = "ended"
        PROVE  taken = Total
    <3>1. merger = "ok" /\ reading = WorkerCount /\ taken = Len(sent)
      BY <2>2 DEF SingleInv
    <3>2. Frontier = Total
      BY <3>1, RangeFacts DEF Frontier, Workers
    <3> QED
      BY <3>1, <3>2 DEF SingleInv, StreamExact
  <2> QED
    BY <2>1, <2>2
<1> QED
  BY <1>1, SingleInvariant, PTL

(* The result of the executor is true: Ok means the whole file in order,   *)
(* and a worker's error is returned whenever one was recorded.             *)
THEOREM OutcomeIsTruthful == Spec => []OutcomeTruthful
<1>1. SingleInv => OutcomeTruthful
  <2> SUFFICES ASSUME SingleInv
               PROVE  OutcomeTruthful
    OBVIOUS
  <2>1. ASSUME executor = "Ok"
        PROVE  Len(sent) = Total /\ \A i \in 1 .. Total : sent[i] = i - 1
    <3>1. merger = "ok" /\ reading = WorkerCount /\ ~ErrorRecorded
      BY <2>1 DEF SingleInv, OutcomeDecided, Outcomes
    <3>2. Frontier = Total
      BY <3>1, RangeFacts DEF Frontier, Workers
    <3> QED
      BY <3>1, <3>2 DEF SingleInv, StreamExact
  <2>2. executor = "SendError" => consumer = "hungUp"
    BY DEF SingleInv, OutcomeDecided
  <2>3. executor \in Outcomes => (executor = "WorkerError" <=> ErrorRecorded)
    BY DEF SingleInv, OutcomeDecided
  <2> QED
    BY <2>1, <2>2, <2>3 DEF OutcomeTruthful
<1> QED
  BY <1>1, SingleInvariant, PTL
=============================================================================
