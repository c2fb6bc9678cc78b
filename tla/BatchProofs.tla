---------------------------- MODULE BatchProofs -----------------------------
(***************************************************************************)
(* Theorems about the embedding of several files at once: chunks of the    *)
(* files overtake each other and a file is finished by counting, yet each  *)
(* file gets its own windows, all of them, in order, for files and         *)
(* channels of any size and any number of workers.                         *)
(***************************************************************************)
EXTENDS BatchChunks, SequenceTheorems, FiniteSetTheorems, TLAPS

Size(f) == call.files[f]
W == call.winCapacity

(* What a slot holds: a window of a file, or zeros.                        *)
Content == {Nothing} \union (Nat \X Int)

(* Chunks as they travel: consecutive windows of a file.                   *)
ChunkSet ==
  {ch \in [file : Files, start : Nat, windows : Seq(Content)] :
     /\ ch.start * W + Len(ch.windows) <= Size(ch.file)
     /\ \A j \in 1 .. Len(ch.windows) :
          ch.windows[j] = Window(ch.file, ch.start * W + j - 1)}

FrontTypes ==
  /\ call \in Calls
  /\ seg \in {"off", "running", "ok", "failed"}
  /\ next \in [file : 1 .. Len(call.files) + 1, start : Nat]
  /\ decoded \in Seq(ChunkSet)
  /\ prep \in [Preps -> {"recv", "prep", "send", "ok", "failed"}]
  /\ prepHolds \in [Preps -> ChunkSet \union {Nothing}]
  /\ prepared \in Seq(ChunkSet)

BackTypes ==
  /\ gpu \in {"pollPrep", "pollDecoded", "select", "drain", "predict", "send", "ok", "failed"}
  /\ gpuHolds \in ChunkSet \union {Nothing}
  /\ embedded \in Seq(ChunkSet)
  /\ collected \in [Files -> [received : Nat, slots : Seq(Content)]]
  /\ \A f \in Files : Len(collected[f].slots) <= Size(f)
  /\ results \in [Files -> Seq(Content)]
  /\ main \in {"start", "collect", "joinSeg", "joinGpu", "joinPreps", "leave", "returned"}
  /\ outcome \in {"none", "Declined", "Ok", "Err"}

(* The segmentation thread is within the file it is at, or past the last.  *)
SegInv ==
  /\ seg # "off" =>
       /\ \A f \in Files : Size(f) > 0
       /\ next.file \in Files => next.start * W < Size(next.file)
  /\ seg = "ok" => next.file \notin Files

(* A thread holds a chunk only while it works on it.                       *)
HoldInv ==
  /\ \A w \in Preps : prep[w] \in {"prep", "send"} <=> prepHolds[w] # Nothing
  /\ gpu \in {"predict", "send"} <=> gpuHolds # Nothing

(* A call that is not for the batch path starts no thread.                 *)
OffInv ==
  /\ main = "start" => seg = "off"
  /\ seg = "off" =>
       /\ main \in {"start", "returned"} /\ outcome \in {"none", "Declined", "Ok"}
       /\ outcome = "Ok" => Files = {}
       /\ gpu = "pollPrep" /\ \A w \in Preps : prep[w] = "recv"
       /\ next = [file |-> 1, start |-> 0]
       /\ decoded = <<>> /\ prepared = <<>> /\ embedded = <<>>
       /\ \A f \in Files : collected[f] = NewCollector /\ results[f] = <<>>

(* A failure is visible at the thread that failed, or is the outcome.      *)
FaultInv ==
  faults = {} <=>
    /\ seg # "failed" /\ gpu # "failed" /\ outcome # "Err"
    /\ \A w \in Preps : prep[w] # "failed"

(* Without a failure the threads end in the order of the data flow, each   *)
(* with its input drained.                                                 *)
EndInv ==
  faults = {} =>
    /\ \A w \in Preps : prep[w] = "ok" => decoded = <<>> /\ SegGone
    /\ GpuGone => PrepsGone /\ prepared = <<>>
    /\ main \notin {"start", "collect"} /\ seg # "off" => GpuGone /\ embedded = <<>>

(* What the calling thread knows of the threads it has joined.             *)
JoinInv ==
  /\ outcome # "none" <=> main \in {"leave", "returned"}
  /\ outcome = "Declined" => seg = "off"
  /\ main \in {"joinGpu", "joinPreps"} => seg = "ok"
  /\ main = "joinPreps" => gpu = "ok"
  /\ outcome = "Ok" /\ seg # "off" =>
       seg = "ok" /\ gpu = "ok" /\ \A w \in Preps : prep[w] = "ok"

(* The chunks of a file in a queue, in the hands of the workers, and all   *)
(* that are on their way.                                                  *)
OfFile(q, f) == {k \in 1 .. Len(q) : q[k].file = f}
HeldOf(holds, f) == {w \in Preps : holds[w].file = f}
Count(q, f) == Cardinality(OfFile(q, f))
Held(holds, f) == Cardinality(HeldOf(holds, f))
One(chunk, f) == IF chunk.file = f THEN 1 ELSE 0

InFlight(f) ==
  Count(decoded, f) + Held(prepHolds, f) + Count(prepared, f) + One(gpuHolds, f)
    + Count(embedded, f)

Sent(f) ==
  IF f < next.file THEN ExpectedChunks(f) ELSE IF f = next.file THEN next.start ELSE 0
SentUpTo(f) ==
  IF f < next.file THEN Size(f) ELSE IF f = next.file THEN next.start * W ELSE 0

(* Every chunk sent for a file is counted by its collector or on its way,  *)
(* and a file is complete only when no chunk of it is.                     *)
CountInv ==
  seg # "off" /\ faults = {} => \A f \in Files :
    IF results[f] = <<>>
    THEN /\ collected[f].received + InFlight(f) = Sent(f)
         /\ collected[f].received < ExpectedChunks(f)
    ELSE f < next.file /\ InFlight(f) = 0

(* No window disappears: each that was sent is in a chunk or in its slot.  *)
Carries(chunk, f, i) ==
  chunk.file = f /\ \E j \in 1 .. Len(chunk.windows) : chunk.windows[j] = Window(f, i)
CarriedIn(q, f, i) == \E k \in 1 .. Len(q) : Carries(q[k], f, i)

Stored(collector, f, i) ==
  i + 1 <= Len(collector.slots) /\ collector.slots[i + 1] = Window(f, i)

InTransit(f, i) ==
  \/ CarriedIn(decoded, f, i) \/ (\E w \in Preps : Carries(prepHolds[w], f, i))
  \/ CarriedIn(prepared, f, i) \/ Carries(gpuHolds, f, i) \/ CarriedIn(embedded, f, i)
Accounted(f, i) == InTransit(f, i) \/ Stored(collected[f], f, i)

AccountInv ==
  seg # "off" /\ faults = {} =>
    \A f \in Files : results[f] = <<>> =>
      \A i \in 0 .. Size(f) - 1 : i < SentUpTo(f) => Accounted(f, i)

(* A complete file has its own windows, in order.                          *)
ResultInv ==
  faults = {} => \A f \in Files :
    results[f] # <<>> => results[f] = [i \in 1 .. Size(f) |-> Window(f, i - 1)]

BatchInv ==
  /\ FrontTypes /\ BackTypes /\ SegInv /\ HoldInv /\ OffInv /\ FaultInv /\ EndInv /\ JoinInv
  /\ CountInv /\ AccountInv /\ ResultInv
-----------------------------------------------------------------------------
(* The sizes of a call.                                                    *)
LEMMA CallSizes ==
  ASSUME call \in Calls
  PROVE  /\ Len(call.files) \in Nat /\ Files = 1 .. Len(call.files)
         /\ \A f \in Files : Size(f) \in Nat
         /\ W \in Nat \ {0}
<1>1. call.files \in Seq(Nat)
  BY CallsAssumption
<1>2. Len(call.files) \in Nat /\ DOMAIN call.files = 1 .. Len(call.files)
  BY <1>1, LenProperties
<1>3. \A f \in 1 .. Len(call.files) : call.files[f] \in Nat
  BY <1>1, <1>2, ElementOfSeq
<1>4. W \in Nat \ {0}
  BY CallsAssumption DEF W
<1> QED BY <1>2, <1>3, <1>4 DEF Files, Size

(* Arithmetic of multiples and quotients.                                  *)
LEMMA Times ==
  ASSUME NEW a \in Nat, NEW c \in Nat
  PROVE  a * c \in Nat /\ (a + 1) * c = a * c + c
BY SMT

(* Multiples of more are more.                                             *)
LEMMA TimesMonotone ==
  ASSUME NEW a \in Nat, NEW b \in Nat, NEW c \in Nat, a <= b
  PROVE  a * c <= b * c
BY SMT

(* What a quotient leaves is less than the divisor.                        *)
LEMMA Quotient ==
  ASSUME NEW x \in Nat, NEW b \in Nat \ {0}
  PROVE  /\ x \div b \in Nat
         /\ (x \div b) * b <= x
         /\ x < (x \div b) * b + b
<1>1. x \div b \in Nat
  BY SMT
<1>2. (x \div b) * b <= x
  BY SMT
<1>3. x < (x \div b) * b + b
  BY SMT
<1> QED BY <1>1, <1>2, <1>3

(* A chunk that starts within the file is one of those expected, and the   *)
(* one that reaches the end is the last.                                   *)
LEMMA ExpectedLast ==
  ASSUME call \in Calls, NEW f \in Files, NEW s \in Nat, s * W < Size(f)
  PROVE  /\ ExpectedChunks(f) \in Nat /\ s < ExpectedChunks(f)
         /\ Size(f) <= s * W + W => ExpectedChunks(f) = s + 1
<1> DEFINE x == Size(f) + W - 1
           n == x \div W
<1>1. Size(f) \in Nat /\ W \in Nat \ {0} /\ x \in Nat
  BY CallSizes
<1>2. n \in Nat /\ n * W <= x /\ x < n * W + W
  BY <1>1, Quotient
<1>3. ExpectedChunks(f) = n
  BY DEF ExpectedChunks, Size, W
<1> HIDE DEF n
<1>4. s * W \in Nat /\ n * W \in Nat
  BY <1>1, <1>2, Times
<1>5. s < n
  <2>1. n <= s => n * W <= s * W
    BY <1>1, <1>2, TimesMonotone
  <2> QED BY <2>1, <1>1, <1>2, <1>4
<1>6. Size(f) <= s * W + W => n <= s + 1
  <2>1. (s + 1) * W = s * W + W /\ ((s + 1) + 1) * W = (s + 1) * W + W
    BY <1>1, Times
  <2>2. (s + 1) + 1 <= n => ((s + 1) + 1) * W <= n * W
    BY <1>1, <1>2, TimesMonotone
  <2> QED BY <2>1, <2>2, <1>1, <1>2, <1>4
<1> QED BY <1>2, <1>3, <1>5, <1>6

(* What is counted is finite.                                              *)
LEMMA Counted ==
  ASSUME NEW f
  PROVE  /\ \A S : \A q \in Seq(S) : Count(q, f) \in Nat
         /\ \A holds : Held(holds, f) \in Nat
<1>1. ASSUME NEW S, NEW q \in Seq(S) PROVE Count(q, f) \in Nat
  <2>1. Len(q) \in Nat
    BY LenProperties
  <2>2. IsFiniteSet(1 .. Len(q)) /\ OfFile(q, f) \in SUBSET (1 .. Len(q))
    BY <2>1, FS_Interval DEF OfFile
  <2>3. IsFiniteSet(OfFile(q, f))
    BY <2>2, FS_Subset
  <2> QED BY <2>3, FS_CardinalityType DEF Count
<1>2. ASSUME NEW holds PROVE Held(holds, f) \in Nat
  <2>1. HeldOf(holds, f) \in SUBSET Preps
    BY DEF HeldOf
  <2>2. IsFiniteSet(HeldOf(holds, f))
    BY <2>1, PrepsAssumption, FS_Subset
  <2> QED BY <2>2, FS_CardinalityType DEF Held
<1> QED BY <1>1, <1>2

(* Taking the first chunk of a queue leaves the others there.              *)
LEMMA QueueHead ==
  ASSUME NEW S, NEW q \in Seq(S), q # <<>>, NEW f
  PROVE  /\ Head(q) \in S /\ Tail(q) \in Seq(S)
         /\ Count(q, f) \in Nat /\ Count(Tail(q), f) \in Nat
         /\ Count(q, f) = One(Head(q), f) + Count(Tail(q), f)
         /\ \A i : CarriedIn(q, f, i) => Carries(Head(q), f, i) \/ CarriedIn(Tail(q), f, i)
<1>1. Head(q) \in S /\ Tail(q) \in Seq(S) /\ Head(q) = q[1]
  BY HeadTailProperties
<1>2. Len(q) \in Nat /\ Len(q) > 0 /\ Len(Tail(q)) = Len(q) - 1 /\ Len(Tail(q)) \in Nat
  BY HeadTailProperties, EmptySeq, LenProperties
<1>3. \A k \in 1 .. Len(Tail(q)) : Tail(q)[k] = q[k + 1]
  BY HeadTailProperties
<1>4. IsFiniteSet(OfFile(q, f)) /\ IsFiniteSet(OfFile(Tail(q), f))
  <2>1. IsFiniteSet(1 .. Len(q)) /\ IsFiniteSet(1 .. Len(Tail(q)))
    BY <1>2, FS_Interval
  <2>2. OfFile(q, f) \in SUBSET (1 .. Len(q))
        /\ OfFile(Tail(q), f) \in SUBSET (1 .. Len(Tail(q)))
    BY DEF OfFile
  <2> QED BY <2>1, <2>2, FS_Subset
<1>5. Cardinality(OfFile(Tail(q), f)) = Cardinality(OfFile(q, f) \ {1})
  <2> DEFINE T == OfFile(Tail(q), f)
             R == OfFile(q, f) \ {1}
             next1 == [k \in T |-> k + 1]
  <2>1. \A k \in T : next1[k] \in R
    BY <1>2, <1>3 DEF OfFile
  <2>2. \A k, m \in T : next1[k] = next1[m] => k = m
    BY <1>2 DEF OfFile
  <2>3. ASSUME NEW r \in R PROVE r - 1 \in T /\ next1[r - 1] = r
    <3>1. r \in 1 .. Len(q) /\ r # 1 /\ q[r].file = f
      BY DEF OfFile
    <3>2. r - 1 \in 1 .. Len(Tail(q)) /\ (r - 1) + 1 = r
      BY <3>1, <1>2
    <3>3. Tail(q)[r - 1] = q[r]
      BY <3>2, <1>3
    <3> QED BY <3>1, <3>2, <3>3 DEF OfFile
  <2>4. next1 \in Bijection(T, R)
    BY <2>1, <2>2, <2>3 DEF Bijection, Injection, Surjection, IsInjective
  <2>5. ExistsBijection(T, R)
    BY <2>4 DEF ExistsBijection
  <2> HIDE DEF T, R
  <2>6. IsFiniteSet(T) => Cardinality(R) = Cardinality(T)
    BY <2>5, FS_Bijection
  <2> QED BY <2>6, <1>4 DEF T, R
<1>6. Cardinality(OfFile(q, f)) = One(Head(q), f) + Cardinality(OfFile(q, f) \ {1})
  <2>1. 1 \in OfFile(q, f) <=> Head(q).file = f
    BY <1>1, <1>2 DEF OfFile
  <2>2. Cardinality(OfFile(q, f) \ {1})
          = IF 1 \in OfFile(q, f) THEN Cardinality(OfFile(q, f)) - 1
                                  ELSE Cardinality(OfFile(q, f))
    BY <1>4, FS_RemoveElement
  <2>3. Cardinality(OfFile(q, f)) \in Nat
    BY <1>4, FS_CardinalityType
  <2> QED BY <2>1, <2>2, <2>3 DEF One
<1>7. Count(q, f) \in Nat /\ Count(Tail(q), f) \in Nat
  BY <1>4, FS_CardinalityType DEF Count
<1>8. ASSUME NEW i, NEW k \in 1 .. Len(q), Carries(q[k], f, i)
      PROVE  Carries(Head(q), f, i) \/ CarriedIn(Tail(q), f, i)
  <2>1. CASE k = 1
    BY <2>1, <1>1, <1>8
  <2>2. CASE k # 1
    <3>1. k - 1 \in 1 .. Len(Tail(q)) /\ (k - 1) + 1 = k
      BY <2>2, <1>2
    <3>2. Tail(q)[k - 1] = q[k]
      BY <3>1, <1>3
    <3> QED BY <3>1, <3>2, <1>8 DEF CarriedIn
  <2> QED BY <2>1, <2>2
<1>9. \A i : CarriedIn(q, f, i) => Carries(Head(q), f, i) \/ CarriedIn(Tail(q), f, i)
  BY <1>8 DEF CarriedIn
<1> QED BY <1>1, <1>5, <1>6, <1>7, <1>9 DEF Count

(* A chunk sent to a queue is in it, and so is all that was.               *)
LEMMA QueueAppend ==
  ASSUME NEW S, NEW q \in Seq(S), NEW chunk \in S, NEW f
  PROVE  /\ Append(q, chunk) \in Seq(S)
         /\ Count(q, f) \in Nat /\ Count(Append(q, chunk), f) \in Nat
         /\ Count(Append(q, chunk), f) = Count(q, f) + One(chunk, f)
         /\ \A i : CarriedIn(q, f, i) \/ Carries(chunk, f, i)
                     => CarriedIn(Append(q, chunk), f, i)
<1> DEFINE last == Len(q) + 1
<1>1. /\ Append(q, chunk) \in Seq(S) /\ Len(Append(q, chunk)) = last
      /\ \A k \in 1 .. Len(q) : Append(q, chunk)[k] = q[k]
      /\ Append(q, chunk)[last] = chunk
  BY AppendProperties
<1>2. Len(q) \in Nat
  BY LenProperties
<1>3. IsFiniteSet(OfFile(q, f))
  <2>1. IsFiniteSet(1 .. Len(q)) /\ OfFile(q, f) \in SUBSET (1 .. Len(q))
    BY <1>2, FS_Interval DEF OfFile
  <2> QED BY <2>1, FS_Subset
<1>4. /\ Cardinality(OfFile(q, f)) \in Nat
      /\ Cardinality(OfFile(q, f) \union {last}) = Cardinality(OfFile(q, f)) + 1
  <2>1. last \notin OfFile(q, f)
    BY <1>2 DEF OfFile
  <2> QED BY <2>1, <1>3, FS_AddElement, FS_CardinalityType
<1>5. OfFile(Append(q, chunk), f)
        = IF chunk.file = f THEN OfFile(q, f) \union {last} ELSE OfFile(q, f)
  <2>1. 1 .. last = (1 .. Len(q)) \union {last}
    BY <1>2
  <2> QED BY <2>1, <1>1, <1>2 DEF OfFile
<1>6. /\ Count(q, f) \in Nat /\ Count(Append(q, chunk), f) \in Nat
      /\ Count(Append(q, chunk), f) = Count(q, f) + One(chunk, f)
  BY <1>4, <1>5 DEF Count, One
<1>7. ASSUME NEW i, Carries(chunk, f, i) PROVE CarriedIn(Append(q, chunk), f, i)
  <2>1. last \in 1 .. Len(Append(q, chunk))
    BY <1>1, <1>2
  <2> QED BY <2>1, <1>1, <1>7 DEF CarriedIn
<1>8. ASSUME NEW i, NEW k \in 1 .. Len(q), Carries(q[k], f, i)
      PROVE  CarriedIn(Append(q, chunk), f, i)
  <2>1. k \in 1 .. Len(Append(q, chunk))
    BY <1>1, <1>2
  <2> QED BY <2>1, <1>8, <1>1 DEF CarriedIn
<1> QED BY <1>1, <1>6, <1>7, <1>8 DEF CarriedIn

(* A worker takes a chunk, or gives it away.                               *)
LEMMA HandsChange ==
  ASSUME NEW holds, NEW after, NEW w \in Preps, NEW f,
         \A v \in Preps \ {w} : after[v] = holds[v]
  PROVE  Held(after, f) + One(holds[w], f) = Held(holds, f) + One(after[w], f)
<1> DEFINE A == HeldOf(holds, f)
           B == HeldOf(after, f)
<1>1. IsFiniteSet(A) /\ IsFiniteSet(B)
  <2>1. A \in SUBSET Preps /\ B \in SUBSET Preps
    BY DEF HeldOf
  <2> QED BY <2>1, PrepsAssumption, FS_Subset
<1>2. A \ {w} = B \ {w}
  BY DEF HeldOf
<1>3. (w \in A <=> holds[w].file = f) /\ (w \in B <=> after[w].file = f)
  BY DEF HeldOf
<1> HIDE DEF A, B
<1>4. /\ Cardinality(A) \in Nat /\ Cardinality(B) \in Nat
      /\ Cardinality(A \ {w}) = IF w \in A THEN Cardinality(A) - 1 ELSE Cardinality(A)
      /\ Cardinality(B \ {w}) = IF w \in B THEN Cardinality(B) - 1 ELSE Cardinality(B)
  BY <1>1, FS_CardinalityType, FS_RemoveElement
<1>5. One(holds[w], f) = (IF w \in A THEN 1 ELSE 0) /\ One(after[w], f) = (IF w \in B THEN 1 ELSE 0)
  BY <1>3 DEF One
<1>6. Cardinality(A) - One(holds[w], f) = Cardinality(B) - One(after[w], f)
  <2>1. Cardinality(A) - One(holds[w], f) = Cardinality(A \ {w})
    BY <1>4, <1>5
  <2>2. Cardinality(B) - One(after[w], f) = Cardinality(B \ {w})
    BY <1>4, <1>5
  <2> QED BY <1>2, <2>1, <2>2
<1>7. Cardinality(B) + One(holds[w], f) = Cardinality(A) + One(after[w], f)
  BY <1>4, <1>5, <1>6
<1> QED BY <1>4, <1>7 DEF A, B, Held

(* What is not on its way is in no queue.                                  *)
LEMMA CountedOut ==
  ASSUME NEW S, NEW q \in Seq(S), NEW f, Count(q, f) = 0, NEW i
  PROVE  ~CarriedIn(q, f, i)
<1>1. Len(q) \in Nat
  BY LenProperties
<1>2. IsFiniteSet(1 .. Len(q)) /\ OfFile(q, f) \in SUBSET (1 .. Len(q))
  BY <1>1, FS_Interval DEF OfFile
<1>3. IsFiniteSet(OfFile(q, f))
  BY <1>2, FS_Subset
<1>4. OfFile(q, f) = {}
  BY <1>3, FS_EmptySet DEF Count
<1> QED BY <1>4 DEF OfFile, CarriedIn, Carries

(* What is not on its way is in no worker's hands.                         *)
LEMMA HeldOut ==
  ASSUME NEW S, NEW holds \in [Preps -> S], NEW f, Held(holds, f) = 0, NEW i
  PROVE  \A w \in Preps : ~Carries(holds[w], f, i)
<1>1. HeldOf(holds, f) \in SUBSET Preps
  BY DEF HeldOf
<1>2. IsFiniteSet(HeldOf(holds, f))
  BY <1>1, PrepsAssumption, FS_Subset
<1>3. HeldOf(holds, f) = {}
  BY <1>2, FS_EmptySet DEF Held
<1> QED BY <1>3 DEF HeldOf, Carries

(* An empty queue and idle workers count nothing.                          *)
LEMMA NothingCounted ==
  ASSUME NEW f
  PROVE  /\ Count(<<>>, f) = 0
         /\ \A holds : (\A w \in Preps : holds[w].file # f) => Held(holds, f) = 0
<1>1. OfFile(<<>>, f) = {}
  BY DEF OfFile
<1>2. \A holds : (\A w \in Preps : holds[w].file # f) => HeldOf(holds, f) = {}
  BY DEF HeldOf
<1> QED BY <1>1, <1>2, FS_EmptySet DEF Count, Held

(* A chunk is one of a file; nobody takes it for no chunk.                 *)
LEMMA ChunkOfFile ==
  ASSUME call \in Calls, NEW chunk \in ChunkSet
  PROVE  chunk.file \in Files /\ chunk # Nothing
<1>1. chunk.file \in Files
  BY DEF ChunkSet
<1>2. 0 \notin Files
  BY CallSizes
<1> QED BY <1>1, <1>2 DEF Nothing

(* No chunk is of no file.                                                 *)
LEMMA NothingOfFile ==
  ASSUME call \in Calls, NEW f \in Files
  PROVE  One(Nothing, f) = 0 /\ Nothing.file # f /\ \A i : ~Carries(Nothing, f, i)
<1>1. 0 \notin Files
  BY CallSizes
<1> QED BY <1>1 DEF Nothing, One, Carries

(* A group is a chunk that carries its windows.                            *)
LEMMA GroupOfFile ==
  ASSUME FrontTypes, next.file \in Files, NEW n \in Nat,
         next.start * W + n <= Size(next.file)
  PROVE  /\ Group(n) \in ChunkSet /\ Group(n).file = next.file
         /\ \A i \in next.start * W .. next.start * W + n - 1 :
              Carries(Group(n), next.file, i)
<1>1. /\ next.start \in Nat /\ W \in Nat \ {0} /\ next.file \in Nat
      /\ next.start * W \in Nat
  <2>1. next.start \in Nat /\ next.file \in 1 .. Len(call.files) + 1 /\ call \in Calls
    BY DEF FrontTypes
  <2> QED BY <2>1, CallSizes, Times
<1> DEFINE from == next.start * W
           content == [i \in 1 .. n |-> Window(next.file, from + i - 1)]
<1>2. Group(n) = [file |-> next.file, start |-> next.start, windows |-> content]
  BY DEF Group, W
<1>3. from \in Nat
  BY <1>1
<1> HIDE DEF from
<1>4. content \in Seq(Content) /\ Len(content) = n
  <2>1. \A i \in 1 .. n : Window(next.file, from + i - 1) \in Content
    BY <1>1, <1>3 DEF Window, Content
  <2>2. content \in [1 .. n -> Content]
    BY <2>1
  <2> HIDE DEF content
  <2> QED BY <2>2, SeqDef, LenProperties
<1>5. \A j \in 1 .. n : content[j] = Window(next.file, from + j - 1)
  OBVIOUS
<1>6. ASSUME NEW i \in from .. from + n - 1
      PROVE  \E j \in 1 .. n : content[j] = Window(next.file, i)
  <2>1. i - from + 1 \in 1 .. n /\ from + (i - from + 1) - 1 = i
    BY <1>3
  <2> QED BY <2>1, <1>5
<1> HIDE DEF content
<1>7. Group(n) \in [file : Files, start : Nat, windows : Seq(Content)]
  BY <1>1, <1>2, <1>4
<1>8. Group(n) \in ChunkSet
  BY <1>2, <1>4, <1>5, <1>7 DEF ChunkSet, from
<1> QED BY <1>2, <1>4, <1>6, <1>8 DEF Carries, from

(* The collector keeps what it has and stores the chunk.                   *)
LEMMA AddStores ==
  ASSUME call \in Calls, NEW chunk \in ChunkSet,
         NEW c \in [received : Nat, slots : Seq(Content)], Len(c.slots) <= Size(chunk.file)
  PROVE  /\ Add(c, chunk) \in [received : Nat, slots : Seq(Content)]
         /\ Len(Add(c, chunk).slots) <= Size(chunk.file)
         /\ Add(c, chunk).received = c.received + 1
         /\ \A i \in Nat : Stored(c, chunk.file, i) \/ Carries(chunk, chunk.file, i)
                             => Stored(Add(c, chunk), chunk.file, i)
<1>1. /\ chunk.file \in Files /\ chunk.start \in Nat /\ chunk.windows \in Seq(Content)
      /\ chunk.start * W + Len(chunk.windows) <= Size(chunk.file)
      /\ \A j \in 1 .. Len(chunk.windows) :
           chunk.windows[j] = Window(chunk.file, chunk.start * W + j - 1)
  BY DEF ChunkSet
<1>2. /\ Len(chunk.windows) \in Nat /\ Len(c.slots) \in Nat
      /\ W \in Nat \ {0} /\ chunk.start * W \in Nat /\ Size(chunk.file) \in Nat
  BY <1>1, CallSizes, LenProperties, Times
<1> DEFINE start == chunk.start * W
           n == start + Len(chunk.windows)
           m == IF Len(c.slots) > n THEN Len(c.slots) ELSE n
           slots == [i \in 1 .. m |-> IF i \in start + 1 .. n THEN chunk.windows[i - start]
                                      ELSE IF i \in DOMAIN c.slots THEN c.slots[i] ELSE Nothing]
<1>3. Add(c, chunk) = [received |-> c.received + 1, slots |-> slots]
  BY DEF Add, W
<1>4. start \in Nat /\ n \in Nat /\ m \in Nat /\ m <= Size(chunk.file)
      /\ n = start + Len(chunk.windows)
  <2>1. start \in Nat /\ n \in Nat /\ n <= Size(chunk.file) /\ n = start + Len(chunk.windows)
    BY <1>1, <1>2
  <2> HIDE DEF n
  <2> QED BY <2>1, <1>2
<1>5. \A j \in 1 .. Len(chunk.windows) : chunk.windows[j] = Window(chunk.file, start + j - 1)
  BY <1>1
<1>6. DOMAIN c.slots = 1 .. Len(c.slots) /\ Len(c.slots) <= m /\ n <= m
  BY <1>2, <1>4, LenProperties
<1> HIDE DEF start, n, m
<1>7. slots \in Seq(Content) /\ Len(slots) = m
  <2>1. ASSUME NEW i \in 1 .. m
        PROVE  (IF i \in start + 1 .. n THEN chunk.windows[i - start]
                ELSE IF i \in DOMAIN c.slots THEN c.slots[i] ELSE Nothing) \in Content
    <3>1. CASE i \in start + 1 .. n
      <4>1. i - start \in 1 .. Len(chunk.windows)
        BY <3>1, <1>2, <1>4
      <4> QED BY <3>1, <4>1, <1>1, ElementOfSeq
    <3>2. CASE i \notin start + 1 .. n /\ i \in DOMAIN c.slots
      BY <3>2, <1>6, ElementOfSeq
    <3>3. CASE i \notin start + 1 .. n /\ i \notin DOMAIN c.slots
      BY <3>3 DEF Content
    <3> QED BY <3>1, <3>2, <3>3
  <2>2. slots \in [1 .. m -> Content]
    BY <2>1
  <2> HIDE DEF slots
  <2> QED BY <2>2, <1>4, SeqDef, LenProperties
<1>8. ASSUME NEW i \in Nat, Stored(c, chunk.file, i) \/ Carries(chunk, chunk.file, i)
      PROVE  i + 1 <= m /\ slots[i + 1] = Window(chunk.file, i)
  <2>1. CASE i + 1 \in start + 1 .. n
    <3>1. i + 1 - start \in 1 .. Len(chunk.windows) /\ start + (i + 1 - start) - 1 = i
      BY <2>1, <1>2, <1>4
    <3>2. chunk.windows[i + 1 - start] = Window(chunk.file, i)
      BY <3>1, <1>5
    <3>3. i + 1 \in 1 .. m
      BY <2>1, <1>4, <1>6
    <3>4. slots[i + 1] = chunk.windows[i + 1 - start]
      BY <2>1, <3>3, <1>4
    <3> QED BY <3>2, <3>3, <3>4, <1>4
  <2>2. CASE i + 1 \notin start + 1 .. n
    <3>1. ~Carries(chunk, chunk.file, i)
      <4>1. ASSUME NEW j \in 1 .. Len(chunk.windows), chunk.windows[j] = Window(chunk.file, i)
            PROVE  FALSE
        <5>1. Window(chunk.file, start + j - 1) = Window(chunk.file, i)
          BY <4>1, <1>5
        <5>2. start + j - 1 = i
          BY <5>1 DEF Window
        <5> QED BY <5>2, <2>2, <1>2, <1>4
      <4> QED BY <4>1 DEF Carries
    <3>2. i + 1 \in 1 .. Len(c.slots) /\ c.slots[i + 1] = Window(chunk.file, i)
      BY <3>1, <1>8, <1>2 DEF Stored
    <3>3. i + 1 \in 1 .. m
      BY <3>2, <1>2, <1>4, <1>6
    <3> QED BY <2>2, <3>2, <3>3, <1>4, <1>6
  <2> QED BY <2>1, <2>2
<1> HIDE DEF slots
<1>9. ASSUME NEW i \in Nat, Stored(c, chunk.file, i) \/ Carries(chunk, chunk.file, i)
      PROVE  Stored(Add(c, chunk), chunk.file, i)
  BY <1>3, <1>7, <1>8, <1>9 DEF Stored
<1> QED BY <1>3, <1>4, <1>7, <1>9

(* All windows stored, and no slot more, is the result of the file.        *)
LEMMA AllStored ==
  ASSUME NEW n \in Nat \ {0}, NEW f, NEW slots \in Seq(Content), Len(slots) <= n,
         \A i \in 0 .. n - 1 : i + 1 <= Len(slots) /\ slots[i + 1] = Window(f, i)
  PROVE  Len(slots) = n /\ \A i \in 1 .. n : slots[i] = Window(f, i - 1)
<1>1. Len(slots) \in Nat
  BY LenProperties
<1>2. n - 1 \in 0 .. n - 1 /\ (n - 1) + 1 = n
  OBVIOUS
<1>3. n <= Len(slots)
  BY <1>2
<1>4. ASSUME NEW i \in 1 .. n PROVE slots[i] = Window(f, i - 1)
  <2>1. i - 1 \in 0 .. n - 1 /\ (i - 1) + 1 = i
    OBVIOUS
  <2> QED BY <2>1
<1> QED BY <1>1, <1>3, <1>4

(* A step that only carries chunks on keeps what was sent accounted for.   *)
LEMMA Transit ==
  ASSUME BatchInv, UNCHANGED <<call, seg, next, collected, results, faults>>,
         faults = {} => \A f \in Files :
           InFlight(f)' = InFlight(f) /\ \A i : Accounted(f, i) => Accounted(f, i)'
  PROVE  CountInv' /\ AccountInv' /\ ResultInv'
<1>1. Files' = Files
  BY DEF Files
<1>2. \A f : /\ Size(f)' = Size(f) /\ ExpectedChunks(f)' = ExpectedChunks(f)
             /\ Sent(f)' = Sent(f) /\ SentUpTo(f)' = SentUpTo(f)
  BY DEF Size, ExpectedChunks, Sent, SentUpTo, W
<1>3. CountInv'
  BY <1>1, <1>2 DEF BatchInv, CountInv
<1>4. AccountInv'
  BY <1>1, <1>2 DEF BatchInv, AccountInv
<1>5. ResultInv'
  BY <1>1, <1>2 DEF BatchInv, ResultInv
<1> QED BY <1>3, <1>4, <1>5

(* A step that changes nothing.                                            *)
LEMMA UnchangedKeeps ==
  ASSUME BatchInv, UNCHANGED vars
  PROVE  BatchInv'
<1>1. (FrontTypes /\ BackTypes /\ SegInv)'
  BY DEF vars, segVars, prepVars, gpuVars, mainVars, BatchInv, FrontTypes, BackTypes, SegInv,
         Files, ChunkSet, Size, W
<1>2. (HoldInv /\ OffInv /\ FaultInv /\ EndInv /\ JoinInv)'
  BY DEF vars, segVars, prepVars, gpuVars, mainVars, BatchInv, HoldInv, OffInv, FaultInv, EndInv,
         JoinInv, Files, GpuGone, PrepsGone, SegGone
<1>3. (CountInv /\ AccountInv /\ ResultInv)'
  <2>1. \A f : InFlight(f)' = InFlight(f) /\ \A i : Accounted(f, i) => Accounted(f, i)'
    BY DEF vars, prepVars, gpuVars, mainVars, InFlight, Accounted, InTransit
  <2> QED BY <2>1, Transit DEF vars, segVars, mainVars
<1> QED BY <1>1, <1>2, <1>3 DEF BatchInv

(* The initial states satisfy the invariant: no thread runs.               *)
LEMMA InitInv == Init => BatchInv
<1> SUFFICES ASSUME Init PROVE BatchInv
  OBVIOUS
<1>0. Len(call.files) \in Nat /\ Files = 1 .. Len(call.files) /\ \A f \in Files : Size(f) \in Nat
  BY CallSizes DEF Init
<1>1. FrontTypes
  BY <1>0, EmptySeq DEF Init, FrontTypes
<1>2. BackTypes
  <2>1. NewCollector \in [received : Nat, slots : Seq(Content)] /\ Len(NewCollector.slots) = 0
    BY EmptySeq DEF NewCollector
  <2> QED BY <1>0, <2>1, EmptySeq DEF Init, BackTypes
<1>3. SegInv /\ HoldInv /\ FaultInv /\ EndInv /\ JoinInv
  BY DEF Init, SegInv, HoldInv, FaultInv, EndInv, JoinInv, GpuGone
<1>4. OffInv
  BY DEF Init, OffInv
<1>5. CountInv /\ AccountInv /\ ResultInv
  BY DEF Init, CountInv, AccountInv, ResultInv
<1> QED BY <1>1, <1>2, <1>3, <1>4, <1>5 DEF BatchInv

(* The call is declined, or the threads are started.                       *)
LEMMA StartKeeps ==
  ASSUME BatchInv, Start
  PROVE  BatchInv'
<1>0. /\ call' = call /\ W' = W /\ Files' = Files /\ ChunkSet' = ChunkSet
      /\ \A f : Size(f)' = Size(f) /\ ExpectedChunks(f)' = ExpectedChunks(f)
  BY DEF Start, prepVars, gpuVars, Files, W, ChunkSet, Size, ExpectedChunks
<1>a. /\ call \in Calls /\ seg = "off" /\ next = [file |-> 1, start |-> 0]
      /\ decoded = <<>> /\ prepared = <<>> /\ embedded = <<>>
      /\ \A f \in Files : collected[f] = NewCollector /\ results[f] = <<>>
      /\ gpu = "pollPrep" /\ \A w \in Preps : prep[w] = "recv"
      /\ outcome \in {"none", "Declined", "Ok"}
  BY DEF Start, BatchInv, OffInv, FrontTypes
<1>b. gpuHolds = Nothing /\ \A w \in Preps : prepHolds[w] = Nothing
  BY <1>a DEF BatchInv, HoldInv
<1>c. /\ seg' \in {"off", "running"} /\ next' = next /\ faults' = faults
      /\ seg' = "running" => \A f \in Files : Size(f) > 0
  <2>1. \A f \in Files : Size(f) \in Nat
    BY <1>a, CallSizes
  <2> QED BY <1>a, <2>1 DEF Start, Size
<1>d. \A s : 0 * W = 0
  BY <1>a, CallSizes
<1>1. FrontTypes'
  BY <1>0 DEF Start, prepVars, gpuVars, BatchInv, FrontTypes
<1>2. BackTypes'
  BY <1>0 DEF Start, prepVars, gpuVars, BatchInv, BackTypes
<1>3. SegInv'
  BY <1>0, <1>a, <1>c, <1>d DEF SegInv
<1>4. HoldInv'
  BY <1>0 DEF Start, prepVars, gpuVars, BatchInv, HoldInv
<1>5. OffInv'
  BY <1>0 DEF Start, prepVars, gpuVars, BatchInv, OffInv
<1>6. FaultInv'
  BY <1>a, <1>c DEF Start, prepVars, gpuVars, BatchInv, FaultInv
<1>7. EndInv'
  BY <1>a, <1>c DEF Start, prepVars, gpuVars, BatchInv, EndInv, GpuGone, PrepsGone, SegGone
<1>8. JoinInv'
  <2>1. main = "start" /\ outcome = "none"
    BY DEF Start, BatchInv, JoinInv
  <2> QED BY <1>a, <2>1 DEF Start, JoinInv
<1>9. CountInv'
  <2> SUFFICES ASSUME seg' = "running", NEW f \in Files
               PROVE  /\ results[f] = <<>>
                      /\ collected[f].received + InFlight(f)' = Sent(f)'
                      /\ collected[f].received < ExpectedChunks(f)
    BY <1>0, <1>c DEF Start, CountInv
  <2>1. Count(<<>>, f) = 0 /\ Held(prepHolds, f) = 0 /\ One(gpuHolds, f) = 0
    BY <1>a, <1>b, NothingOfFile, NothingCounted
  <2>2. InFlight(f)' = 0
    BY <1>a, <2>1 DEF Start, prepVars, gpuVars, InFlight
  <2>3. Sent(f)' = 0
    BY <1>a, <1>c, CallSizes DEF Sent
  <2>4. 0 < ExpectedChunks(f)
    BY <1>a, <1>c, <1>d, ExpectedLast
  <2> QED BY <1>a, <2>2, <2>3, <2>4 DEF NewCollector
<1>10. AccountInv'
  <2>1. ASSUME NEW f \in Files PROVE SentUpTo(f)' = 0
    BY <1>0, <1>a, <1>c, <1>d, CallSizes DEF SentUpTo
  <2> QED BY <1>0, <2>1 DEF AccountInv
<1>11. ResultInv'
  BY <1>0 DEF Start, prepVars, gpuVars, BatchInv, ResultInv
<1> QED BY <1>1, <1>2, <1>3, <1>4, <1>5, <1>6, <1>7, <1>8, <1>9, <1>10, <1>11 DEF
    BatchInv

(* A chunk of the file is sent.                                            *)
LEMMA SegSendKeeps ==
  ASSUME BatchInv, SegSend
  PROVE  BatchInv'
<1>0. /\ call' = call /\ W' = W /\ Files' = Files /\ ChunkSet' = ChunkSet
      /\ \A f : Size(f)' = Size(f) /\ ExpectedChunks(f)' = ExpectedChunks(f)
  BY DEF SegSend, prepVars, gpuVars, mainVars, Files, W, ChunkSet, Size, ExpectedChunks
<1>a. /\ call \in Calls /\ decoded \in Seq(ChunkSet) /\ FrontTypes
      /\ next \in [file : 1 .. Len(call.files) + 1, start : Nat]
  BY DEF BatchInv, FrontTypes
<1>b. /\ W \in Nat \ {0} /\ next.start \in Nat /\ next.start * W \in Nat
      /\ Files = 1 .. Len(call.files) /\ Len(call.files) \in Nat
      /\ \A f \in Files : Size(f) \in Nat
  <2>1. next.start \in Nat /\ W \in Nat
    BY <1>a, CallSizes
  <2> QED BY <1>a, <2>1, CallSizes, Times
<1> DEFINE from == next.start * W
           n == IF Left < W THEN Left ELSE W
<1>c. /\ next.file \in Files /\ from < Size(next.file) /\ seg = "running"
      /\ \A f \in Files : Size(f) > 0
  BY DEF SegSend, BatchInv, SegInv
<1>d. Left = Size(next.file) - from
  BY DEF Left, Size, W
<1>e. /\ n \in Nat /\ n > 0 /\ from + n <= Size(next.file)
      /\ Left <= W => Size(next.file) <= from + W /\ from + n = Size(next.file)
      /\ ~(Left <= W) => n = W /\ from + W < Size(next.file)
  <2>1. Size(next.file) \in Nat /\ from \in Nat /\ W \in Nat /\ W > 0 /\ Left \in Int
    BY <1>b, <1>c, <1>d
  <2> HIDE DEF from
  <2>2. CASE Left < W
    BY <2>1, <2>2, <1>c, <1>d
  <2>3. CASE Left = W
    BY <2>1, <2>3, <1>c, <1>d
  <2>4. CASE Left > W
    BY <2>1, <2>4, <1>c, <1>d
  <2> QED BY <2>1, <2>2, <2>3, <2>4
<1>f. decoded' = Append(decoded, Group(n))
  BY DEF SegSend, W
<1>g. next' = IF Left <= W THEN [file |-> next.file + 1, start |-> 0]
              ELSE [file |-> next.file, start |-> next.start + 1]
  BY <1>a DEF SegSend, W
<1>h. next.file \in Nat /\ 0 * W = 0 /\ (next.start + 1) * W = from + W
  BY <1>b, <1>c, Times
<1> HIDE DEF n, from
<1>i. /\ Group(n) \in ChunkSet /\ Group(n).file = next.file
      /\ \A i \in from .. from + n - 1 : Carries(Group(n), next.file, i)
  BY <1>a, <1>c, <1>e, GroupOfFile DEF from
<1>j. /\ ExpectedChunks(next.file) \in Nat
      /\ Left <= W => ExpectedChunks(next.file) = next.start + 1
  BY <1>a, <1>b, <1>c, <1>e, ExpectedLast DEF from
<1>1. FrontTypes'
  <2>1. decoded' \in Seq(ChunkSet)
    BY <1>a, <1>f, <1>i, AppendProperties
  <2>2. next' \in [file : 1 .. Len(call.files) + 1, start : Nat]
    <3>1. /\ next.file + 1 \in 1 .. Len(call.files) + 1 /\ next.start + 1 \in Nat
          /\ next.file \in 1 .. Len(call.files) + 1
      BY <1>b, <1>c
    <3>2. CASE Left <= W
      BY <3>1, <3>2, <1>g
    <3>3. CASE ~(Left <= W)
      BY <3>1, <3>3, <1>g
    <3> QED BY <3>2, <3>3
  <2> QED BY <1>0, <2>1, <2>2 DEF SegSend, prepVars, gpuVars, mainVars, BatchInv, FrontTypes
<1>2. BackTypes'
  BY <1>0 DEF SegSend, prepVars, gpuVars, mainVars, BatchInv, BackTypes
<1>3. SegInv'
  <2>1. next'.file \in Files => next'.start * W < Size(next'.file)
    <3>1. CASE Left <= W
      <4>1. next'.start = 0
        BY <3>1, <1>g
      <4> QED BY <4>1, <1>c, <1>h
    <3>2. CASE ~(Left <= W)
      <4>1. next'.start = next.start + 1 /\ next'.file = next.file
        BY <3>2, <1>g
      <4>2. next'.start * W = from + W
        BY <4>1, <1>h
      <4> QED BY <3>2, <4>1, <4>2, <1>e
    <3> QED BY <3>1, <3>2
  <2>2. seg' = "running"
    BY <1>c DEF SegSend
  <2> QED BY <1>0, <1>c, <2>1, <2>2 DEF SegInv
<1>4. HoldInv'
  BY <1>0 DEF SegSend, prepVars, gpuVars, mainVars, BatchInv, HoldInv
<1>5. OffInv'
  BY <1>0 DEF SegSend, prepVars, gpuVars, mainVars, BatchInv, OffInv
<1>6. FaultInv'
  BY <1>0 DEF SegSend, prepVars, gpuVars, mainVars, BatchInv, FaultInv
<1>7. EndInv'
  BY <1>0 DEF SegSend, prepVars, gpuVars, mainVars, BatchInv, EndInv, GpuGone,
      PrepsGone, SegGone
<1>8. JoinInv'
  BY <1>0 DEF SegSend, prepVars, gpuVars, mainVars, BatchInv, JoinInv
<1>9. CountInv'
  <2> SUFFICES ASSUME faults = {}, NEW f \in Files
               PROVE  IF results[f] = <<>>
                      THEN /\ collected[f].received + InFlight(f)' = Sent(f)'
                           /\ collected[f].received < ExpectedChunks(f)
                      ELSE f < next'.file /\ InFlight(f)' = 0
    BY <1>0 DEF SegSend, mainVars, CountInv
  <2>1. IF results[f] = <<>>
        THEN /\ collected[f].received + InFlight(f) = Sent(f)
             /\ collected[f].received < ExpectedChunks(f)
        ELSE f < next.file /\ InFlight(f) = 0
    BY <1>c DEF BatchInv, CountInv
  <2>2. Count(decoded, f) \in Nat /\ Count(decoded', f) = Count(decoded, f) + One(Group(n), f)
    BY <1>a, <1>f, <1>i, QueueAppend
  <2>3. InFlight(f) \in Int /\ InFlight(f)' = InFlight(f) + One(Group(n), f)
    <3>1. prepared \in Seq(ChunkSet) /\ embedded \in Seq(ChunkSet)
          /\ prepHolds \in [Preps -> ChunkSet \union {Nothing}]
      BY DEF BatchInv, FrontTypes, BackTypes
    <3>2. /\ Count(prepared, f) \in Nat /\ Count(embedded, f) \in Nat
          /\ Held(prepHolds, f) \in Nat
      BY <3>1, Counted
    <3>3. One(gpuHolds, f) \in Nat
      BY DEF One
    <3>4. InFlight(f)' = Count(decoded', f) + Held(prepHolds, f) + Count(prepared, f)
                           + One(gpuHolds, f) + Count(embedded, f)
      BY DEF SegSend, prepVars, gpuVars, InFlight
    <3>5. One(Group(n), f) \in Nat
      BY DEF One
    <3> QED BY <2>2, <3>2, <3>3, <3>4, <3>5 DEF InFlight
  <2>4. One(Group(n), f) = IF f = next.file THEN 1 ELSE 0
    BY <1>i DEF One
  <2>5. f \in Nat
    BY <1>b
  <2>6. collected[f].received \in Nat
    BY DEF BatchInv, BackTypes
  <2>7. CASE f = next.file
    <3>1. Sent(f) = next.start
      BY <2>7, <1>h DEF Sent
    <3>2. Sent(f)' = next.start + 1
      BY <2>7, <1>0, <1>b, <1>g, <1>h, <1>j DEF Sent
    <3>3. results[f] = <<>>
      BY <2>1, <2>5, <2>7
    <3>4. collected[f].received + (InFlight(f) + 1) = next.start + 1
      <4>1. collected[f].received + InFlight(f) = next.start
        BY <2>1, <3>1, <3>3
      <4>2. collected[f].received \in Int /\ InFlight(f) \in Int
        BY <2>3, <2>6
      <4> QED BY <4>1, <4>2
    <3>5. InFlight(f)' = InFlight(f) + 1
      BY <2>3, <2>4, <2>7
    <3> QED BY <2>1, <3>2, <3>3, <3>4, <3>5
  <2>8. CASE f < next.file
    <3>1. f < next'.file /\ f # next.file
      BY <2>5, <2>8, <1>g, <1>h
    <3>2. Sent(f) = ExpectedChunks(f) /\ Sent(f)' = ExpectedChunks(f)
      BY <3>1, <2>8, <1>0 DEF Sent
    <3> QED BY <2>1, <2>3, <2>4, <3>1, <3>2
  <2>9. CASE f > next.file
    <3>1. f # next.file /\ ~(f < next.file)
      BY <2>5, <2>9, <1>h
    <3>2. Sent(f) = 0
      BY <3>1 DEF Sent
    <3>3. Sent(f)' = 0
      BY <2>5, <2>9, <3>1, <1>g, <1>h DEF Sent
    <3> QED BY <2>1, <2>3, <2>4, <3>1, <3>2, <3>3
  <2> QED BY <2>5, <2>7, <2>8, <2>9, <1>h
<1>10. AccountInv'
  <2> SUFFICES ASSUME faults = {}, NEW f \in Files, results[f] = <<>>,
                      NEW i \in 0 .. Size(f) - 1, i < SentUpTo(f)'
               PROVE  Accounted(f, i)'
    BY <1>0 DEF SegSend, mainVars, AccountInv
  <2>1. f \in Nat /\ i \in Nat
    BY <1>b
  <2>2. \A k : CarriedIn(decoded, f, k) \/ Carries(Group(n), f, k) => CarriedIn(decoded', f, k)
    BY <1>a, <1>f, <1>i, QueueAppend
  <2>3. CASE i < SentUpTo(f)
    <3>1. Accounted(f, i)
      BY <2>3, <1>c DEF BatchInv, AccountInv
    <3> QED BY <2>2, <3>1 DEF SegSend, prepVars, gpuVars, mainVars, Accounted, InTransit
  <2>4. CASE ~(i < SentUpTo(f))
    <3>1. f = next.file /\ SentUpTo(f) = from
      <4>1. f < next.file => f < next'.file
        BY <2>1, <1>g, <1>h
      <4>2. f < next.file => SentUpTo(f) = Size(f) /\ SentUpTo(f)' = Size(f)
        BY <4>1, <1>0 DEF SentUpTo
      <4>3. f > next.file => SentUpTo(f)' = 0
        BY <2>1, <1>0, <1>g, <1>h DEF SentUpTo
      <4>4. f = next.file => SentUpTo(f) = from
        BY <2>1, <1>h DEF SentUpTo, from
      <4> QED BY <2>1, <2>4, <4>2, <4>3, <4>4, <1>h
    <3>2. SentUpTo(f)' = from + n
      <4>1. CASE Left <= W
        <5>1. f < next'.file
          BY <3>1, <4>1, <1>g, <1>h
        <5>2. SentUpTo(f)' = Size(f)
          BY <5>1, <1>0 DEF SentUpTo
        <5> QED BY <5>2, <3>1, <4>1, <1>e
      <4>2. CASE ~(Left <= W)
        <5>1. next'.file = f /\ next'.start * W = from + W
          BY <3>1, <4>2, <1>g, <1>h
        <5>2. SentUpTo(f)' = from + W
          BY <5>1, <2>1, <1>0 DEF SentUpTo
        <5> QED BY <5>2, <4>2, <1>e
      <4> QED BY <4>1, <4>2
    <3>3. from \in Nat
      BY <1>b DEF from
    <3>4. i \in from .. from + n - 1
      BY <2>1, <2>4, <3>1, <3>2, <3>3, <1>e
    <3>5. CarriedIn(decoded', f, i)
      BY <2>2, <3>1, <3>4, <1>i
    <3> QED BY <3>5 DEF Accounted, InTransit
  <2> QED BY <2>3, <2>4
<1>11. ResultInv'
  BY <1>0 DEF SegSend, prepVars, gpuVars, mainVars, BatchInv, ResultInv
<1> QED BY <1>1, <1>2, <1>3, <1>4, <1>5, <1>6, <1>7, <1>8, <1>9, <1>10, <1>11 DEF
    BatchInv

(* All files are segmented.                                                *)
LEMMA SegEndKeeps ==
  ASSUME BatchInv, SegEnd
  PROVE  BatchInv'
<1>0. /\ call' = call /\ W' = W /\ Files' = Files /\ ChunkSet' = ChunkSet
      /\ \A f : Size(f)' = Size(f) /\ ExpectedChunks(f)' = ExpectedChunks(f)
  BY DEF SegEnd, prepVars, gpuVars, mainVars, Files, W, ChunkSet, Size, ExpectedChunks
<1>1. FrontTypes'
  BY <1>0 DEF SegEnd, prepVars, gpuVars, mainVars, BatchInv, FrontTypes
<1>2. BackTypes'
  BY <1>0 DEF SegEnd, prepVars, gpuVars, mainVars, BatchInv, BackTypes
<1>3. SegInv'
  BY <1>0 DEF SegEnd, prepVars, gpuVars, mainVars, BatchInv, SegInv
<1>4. HoldInv'
  BY <1>0 DEF SegEnd, prepVars, gpuVars, mainVars, BatchInv, HoldInv
<1>5. OffInv'
  BY <1>0 DEF SegEnd, prepVars, gpuVars, mainVars, BatchInv, OffInv
<1>6. FaultInv'
  BY <1>0 DEF SegEnd, prepVars, gpuVars, mainVars, BatchInv, FaultInv
<1>7. EndInv'
  BY <1>0 DEF SegEnd, prepVars, gpuVars, mainVars, BatchInv, EndInv, GpuGone,
      PrepsGone, SegGone
<1>8. JoinInv'
  BY <1>0 DEF SegEnd, prepVars, gpuVars, mainVars, BatchInv, JoinInv
<1>9. CountInv'
  BY <1>0 DEF SegEnd, prepVars, gpuVars, mainVars, BatchInv, CountInv, InFlight, Sent
<1>10. AccountInv'
  BY <1>0 DEF SegEnd, prepVars, gpuVars, mainVars, BatchInv, AccountInv, SentUpTo,
      Accounted, InTransit
<1>11. ResultInv'
  BY <1>0 DEF SegEnd, prepVars, gpuVars, mainVars, BatchInv, ResultInv
<1> QED BY <1>1, <1>2, <1>3, <1>4, <1>5, <1>6, <1>7, <1>8, <1>9, <1>10, <1>11 DEF
    BatchInv

(* The stream of a file breaks off.                                        *)
LEMMA SegFailKeeps ==
  ASSUME BatchInv, SegFail
  PROVE  BatchInv'
<1>0. /\ call' = call /\ W' = W /\ Files' = Files /\ ChunkSet' = ChunkSet
      /\ \A f : Size(f)' = Size(f) /\ ExpectedChunks(f)' = ExpectedChunks(f)
  BY DEF SegFail, prepVars, gpuVars, mainVars, Files, W, ChunkSet, Size, ExpectedChunks
<1>a. /\ call \in Calls /\ decoded \in Seq(ChunkSet) /\ FrontTypes
      /\ next \in [file : 1 .. Len(call.files) + 1, start : Nat]
  BY DEF BatchInv, FrontTypes
<1>b. /\ W \in Nat \ {0} /\ next.start \in Nat /\ next.start * W \in Nat
      /\ Files = 1 .. Len(call.files) /\ Len(call.files) \in Nat
      /\ \A f \in Files : Size(f) \in Nat
  <2>1. next.start \in Nat /\ W \in Nat
    BY <1>a, CallSizes
  <2> QED BY <1>a, <2>1, CallSizes, Times
<1>1. FrontTypes'
  <2>1. ASSUME NEW n \in 1 .. call.winCapacity - 1, next.file \in Files, n <= Left,
               decoded' = Append(decoded, Group(n))
        PROVE  decoded' \in Seq(ChunkSet)
    <3>1. next.start * W + n <= Size(next.file) /\ n \in Nat
      BY <2>1, <1>b DEF Left, Size, W
    <3>2. Group(n) \in ChunkSet
      BY <2>1, <3>1, <1>a, GroupOfFile
    <3> QED BY <2>1, <3>2, <1>a, AppendProperties
  <2>2. decoded' \in Seq(ChunkSet)
    BY <2>1, <1>a DEF SegFail
  <2> QED BY <1>0, <2>2 DEF SegFail, prepVars, gpuVars, mainVars, BatchInv, FrontTypes
<1>2. BackTypes'
  BY <1>0 DEF SegFail, prepVars, gpuVars, mainVars, BatchInv, BackTypes
<1>3. SegInv'
  BY <1>0 DEF SegFail, prepVars, gpuVars, mainVars, BatchInv, SegInv
<1>4. HoldInv'
  BY <1>0 DEF SegFail, prepVars, gpuVars, mainVars, BatchInv, HoldInv
<1>5. OffInv'
  BY <1>0 DEF SegFail, prepVars, gpuVars, mainVars, BatchInv, OffInv
<1>6. FaultInv'
  BY <1>0 DEF SegFail, prepVars, gpuVars, mainVars, BatchInv, FaultInv
<1>7. EndInv'
  BY <1>0 DEF SegFail, prepVars, gpuVars, mainVars, BatchInv, EndInv, GpuGone,
      PrepsGone, SegGone
<1>8. JoinInv'
  BY <1>0 DEF SegFail, prepVars, gpuVars, mainVars, BatchInv, JoinInv
<1>9. CountInv'
  BY <1>0 DEF SegFail, prepVars, gpuVars, mainVars, BatchInv, CountInv, InFlight, Sent
<1>10. AccountInv'
  BY <1>0 DEF SegFail, prepVars, gpuVars, mainVars, BatchInv, AccountInv, SentUpTo,
      Accounted, InTransit
<1>11. ResultInv'
  BY <1>0 DEF SegFail, prepVars, gpuVars, mainVars, BatchInv, ResultInv
<1> QED BY <1>1, <1>2, <1>3, <1>4, <1>5, <1>6, <1>7, <1>8, <1>9, <1>10, <1>11 DEF
    BatchInv

(* A preparation worker takes a chunk.                                     *)
LEMMA PrepRecvKeeps ==
  ASSUME BatchInv, NEW w \in Preps, Started, PrepRecv(w)
  PROVE  BatchInv'
<1>0. /\ call' = call /\ W' = W /\ Files' = Files /\ ChunkSet' = ChunkSet
      /\ \A f : Size(f)' = Size(f) /\ ExpectedChunks(f)' = ExpectedChunks(f)
  BY DEF PrepRecv, segVars, gpuVars, mainVars, Files, W, ChunkSet, Size, ExpectedChunks
<1>a. /\ call \in Calls /\ decoded \in Seq(ChunkSet) /\ prepared \in Seq(ChunkSet)
      /\ prep \in [Preps -> {"recv", "prep", "send", "ok", "failed"}]
      /\ prepHolds \in [Preps -> ChunkSet \union {Nothing}]
  BY DEF BatchInv, FrontTypes
<1>b. decoded # <<>> /\ decoded' = Tail(decoded) /\ prepHolds[w] = Nothing
  BY DEF PrepRecv, BatchInv, HoldInv
<1>c. Head(decoded) \in ChunkSet /\ Head(decoded) # Nothing
  BY <1>a, <1>b, HeadTailProperties, ChunkOfFile
<1>d. /\ prep' = [prep EXCEPT ![w] = "prep"]
      /\ prepHolds' = [prepHolds EXCEPT ![w] = Head(decoded)]
  BY DEF PrepRecv
<1>e. prep'[w] = "prep" /\ prepHolds'[w] = Head(decoded)
  BY <1>a, <1>d
<1>f. \A v \in Preps \ {w} : prep'[v] = prep[v] /\ prepHolds'[v] = prepHolds[v]
  BY <1>a, <1>d
<1>1. FrontTypes'
  BY <1>0 DEF PrepRecv, segVars, gpuVars, mainVars, BatchInv, FrontTypes
<1>2. BackTypes'
  BY <1>0 DEF PrepRecv, segVars, gpuVars, mainVars, BatchInv, BackTypes
<1>3. SegInv'
  BY <1>0 DEF PrepRecv, segVars, gpuVars, mainVars, BatchInv, SegInv
<1>4. HoldInv'
  <2>1. gpu' = gpu /\ gpuHolds' = gpuHolds
    BY DEF PrepRecv, gpuVars
  <2>2. \A v \in Preps : prep[v] \in {"prep", "send"} <=> prepHolds[v] # Nothing
    BY DEF BatchInv, HoldInv
  <2>3. \A v \in Preps : prep'[v] \in {"prep", "send"} <=> prepHolds'[v] # Nothing
    BY <2>2, <1>c, <1>e, <1>f
  <2> QED BY <2>1, <2>3 DEF BatchInv, HoldInv
<1>5. OffInv'
  BY <1>0 DEF PrepRecv, segVars, gpuVars, mainVars, Started, BatchInv, OffInv
<1>6. FaultInv'
  BY <1>0 DEF PrepRecv, segVars, gpuVars, mainVars, BatchInv, FaultInv
<1>7. EndInv'
  BY <1>0 DEF PrepRecv, segVars, gpuVars, mainVars, BatchInv, EndInv, GpuGone,
      PrepsGone, SegGone
<1>8. JoinInv'
  BY <1>0 DEF PrepRecv, segVars, gpuVars, mainVars, BatchInv, JoinInv
<1>9. CountInv' /\ AccountInv' /\ ResultInv'
  <2>1. ASSUME NEW f \in Files
        PROVE  InFlight(f)' = InFlight(f) /\ \A i : Accounted(f, i) => Accounted(f, i)'
    <3>1. /\ Count(decoded, f) \in Nat /\ Count(decoded', f) \in Nat
          /\ Count(decoded, f) = One(Head(decoded), f) + Count(decoded', f)
          /\ \A i : CarriedIn(decoded, f, i)
                      => Carries(Head(decoded), f, i) \/ CarriedIn(decoded', f, i)
      BY <1>a, <1>b, QueueHead
    <3>2. One(Nothing, f) = 0 /\ \A i : ~Carries(Nothing, f, i)
      BY <1>a, NothingOfFile
    <3>3. /\ Held(prepHolds, f) \in Nat /\ Held(prepHolds', f) \in Nat
          /\ Held(prepHolds', f) + One(Nothing, f) = Held(prepHolds, f) + One(Head(decoded), f)
      <4>1. ASSUME NEW before, NEW after, before = prepHolds, after = prepHolds'
            PROVE  Held(after, f) + One(before[w], f) = Held(before, f) + One(after[w], f)
        <5>1. \A v \in Preps \ {w} : after[v] = before[v]
          BY <4>1, <1>f
        <5> QED BY <5>1, HandsChange
      <4>2. Held(prepHolds', f) + One(prepHolds[w], f) = Held(prepHolds, f) + One(prepHolds'[w], f)
        BY <4>1
      <4>3. Held(prepHolds, f) \in Nat /\ Held(prepHolds', f) \in Nat
        BY Counted
      <4> QED BY <1>b, <1>e, <4>2, <4>3
    <3>4. One(Head(decoded), f) \in Nat
      BY DEF One
    <3>5. Count(decoded', f) + Held(prepHolds', f) = Count(decoded, f) + Held(prepHolds, f)
      BY <3>1, <3>2, <3>3, <3>4
    <3>6. InFlight(f)' = InFlight(f)
      BY <3>5 DEF PrepRecv, gpuVars, InFlight
    <3>7. ASSUME NEW i, \E v \in Preps : Carries(prepHolds[v], f, i)
          PROVE  \E v \in Preps : Carries(prepHolds'[v], f, i)
      <4>1. PICK v \in Preps : Carries(prepHolds[v], f, i)
        BY <3>7
      <4>2. v # w
        BY <4>1, <3>2, <1>b
      <4> QED BY <4>1, <4>2, <1>f
    <3>8. ASSUME NEW i, Carries(Head(decoded), f, i)
          PROVE  \E v \in Preps : Carries(prepHolds'[v], f, i)
      BY <3>8, <1>e
    <3>9. ASSUME NEW i, Accounted(f, i) PROVE Accounted(f, i)'
      BY <3>1, <3>7, <3>8, <3>9 DEF PrepRecv, gpuVars, mainVars, Accounted, InTransit
    <3> QED BY <3>6, <3>9
  <2> QED BY <2>1, Transit DEF PrepRecv, segVars, mainVars
<1> QED BY <1>1, <1>2, <1>3, <1>4, <1>5, <1>6, <1>7, <1>8, <1>9 DEF BatchInv

(* A preparation worker finds the decoded channel exhausted.               *)
LEMMA PrepEndKeeps ==
  ASSUME BatchInv, NEW w \in Preps, Started, PrepEnd(w)
  PROVE  BatchInv'
<1>0. /\ call' = call /\ W' = W /\ Files' = Files /\ ChunkSet' = ChunkSet
      /\ \A f : Size(f)' = Size(f) /\ ExpectedChunks(f)' = ExpectedChunks(f)
  BY DEF PrepEnd, segVars, gpuVars, mainVars, Files, W, ChunkSet, Size, ExpectedChunks
<1>1. FrontTypes'
  BY <1>0 DEF PrepEnd, segVars, gpuVars, mainVars, BatchInv, FrontTypes
<1>2. BackTypes'
  BY <1>0 DEF PrepEnd, segVars, gpuVars, mainVars, BatchInv, BackTypes
<1>3. SegInv'
  BY <1>0 DEF PrepEnd, segVars, gpuVars, mainVars, BatchInv, SegInv
<1>4. HoldInv'
  BY <1>0 DEF PrepEnd, segVars, gpuVars, mainVars, BatchInv, HoldInv
<1>5. OffInv'
  BY <1>0 DEF PrepEnd, segVars, gpuVars, mainVars, Started, BatchInv, OffInv
<1>6. FaultInv'
  BY <1>0 DEF PrepEnd, segVars, gpuVars, mainVars, BatchInv, FaultInv
<1>7. EndInv'
  BY <1>0 DEF PrepEnd, segVars, gpuVars, mainVars, BatchInv, EndInv, GpuGone,
      PrepsGone, SegGone
<1>8. JoinInv'
  BY <1>0 DEF PrepEnd, segVars, gpuVars, mainVars, BatchInv, JoinInv
<1>9. CountInv'
  BY <1>0 DEF PrepEnd, segVars, gpuVars, mainVars, BatchInv, CountInv, InFlight, Sent
<1>10. AccountInv'
  BY <1>0 DEF PrepEnd, segVars, gpuVars, mainVars, BatchInv, AccountInv, SentUpTo,
      Accounted, InTransit
<1>11. ResultInv'
  BY <1>0 DEF PrepEnd, segVars, gpuVars, mainVars, BatchInv, ResultInv
<1> QED BY <1>1, <1>2, <1>3, <1>4, <1>5, <1>6, <1>7, <1>8, <1>9, <1>10, <1>11 DEF
    BatchInv

(* A chunk is prepared, or its worker fails.                               *)
LEMMA PrepDoneKeeps ==
  ASSUME BatchInv, NEW w \in Preps, Started, PrepDone(w)
  PROVE  BatchInv'
<1>0. /\ call' = call /\ W' = W /\ Files' = Files /\ ChunkSet' = ChunkSet
      /\ \A f : Size(f)' = Size(f) /\ ExpectedChunks(f)' = ExpectedChunks(f)
  BY DEF PrepDone, segVars, gpuVars, mainVars, Files, W, ChunkSet, Size, ExpectedChunks
<1>a. /\ call \in Calls /\ decoded \in Seq(ChunkSet) /\ prepared \in Seq(ChunkSet)
      /\ prep \in [Preps -> {"recv", "prep", "send", "ok", "failed"}]
      /\ prepHolds \in [Preps -> ChunkSet \union {Nothing}]
  BY DEF BatchInv, FrontTypes
<1>b. \/ prep' = [prep EXCEPT ![w] = "send"] /\ prepHolds' = prepHolds /\ faults' = faults
      \/ /\ prep' = [prep EXCEPT ![w] = "failed"] /\ faults' = faults \union {w}
         /\ prepHolds' = [prepHolds EXCEPT ![w] = Nothing]
  BY DEF PrepDone
<1>c. \A v \in Preps \ {w} : prep'[v] = prep[v] /\ prepHolds'[v] = prepHolds[v]
  BY <1>a, <1>b
<1>d. \/ prep'[w] = "send" /\ prepHolds'[w] = prepHolds[w] /\ faults' = faults
      \/ prep'[w] = "failed" /\ prepHolds'[w] = Nothing /\ faults' # {}
  BY <1>a, <1>b
<1>1. FrontTypes'
  BY <1>0 DEF PrepDone, segVars, gpuVars, mainVars, BatchInv, FrontTypes
<1>2. BackTypes'
  BY <1>0 DEF PrepDone, segVars, gpuVars, mainVars, BatchInv, BackTypes
<1>3. SegInv'
  BY <1>0 DEF PrepDone, segVars, gpuVars, mainVars, BatchInv, SegInv
<1>4. HoldInv'
  <2>1. \A v \in Preps : prep[v] \in {"prep", "send"} <=> prepHolds[v] # Nothing
    BY DEF BatchInv, HoldInv
  <2>2. \A v \in Preps : prep'[v] \in {"prep", "send"} <=> prepHolds'[v] # Nothing
    BY <2>1, <1>c, <1>d DEF PrepDone
  <2> QED BY <2>2 DEF PrepDone, gpuVars, BatchInv, HoldInv
<1>5. OffInv'
  BY <1>0 DEF PrepDone, segVars, gpuVars, mainVars, Started, BatchInv, OffInv
<1>6. FaultInv'
  <2>1. prep[w] = "prep" /\ seg' = seg /\ gpu' = gpu /\ outcome' = outcome
    BY DEF PrepDone, segVars, gpuVars, mainVars
  <2>2. CASE prep'[w] = "send" /\ faults' = faults
    <3>1. (\A v \in Preps : prep'[v] # "failed") <=> (\A v \in Preps : prep[v] # "failed")
      BY <2>1, <2>2, <1>c
    <3> QED BY <2>1, <2>2, <3>1 DEF BatchInv, FaultInv
  <2>3. CASE prep'[w] = "failed" /\ faults' # {}
    BY <2>3 DEF FaultInv
  <2> QED BY <2>2, <2>3, <1>d
<1>7. EndInv'
  <2> SUFFICES ASSUME faults' = {} PROVE EndInv'
    BY DEF EndInv
  <2>1. prep'[w] = "send" /\ faults = {}
    BY <1>d
  <2>2. \A v \in Preps : prep'[v] = "ok" => prep[v] = "ok"
    BY <2>1, <1>c
  <2>3. ~GpuGone
    <3>1. ~PrepsGone
      BY DEF PrepDone, PrepsGone
    <3> QED BY <2>1, <3>1 DEF BatchInv, EndInv
  <2>4. gpu' = gpu /\ decoded' = decoded /\ seg' = seg /\ main' = main
    BY DEF PrepDone, segVars, gpuVars, mainVars
  <2> QED BY <2>1, <2>2, <2>3, <2>4 DEF BatchInv, EndInv, GpuGone, SegGone
<1>8. JoinInv'
  BY <1>0 DEF PrepDone, segVars, gpuVars, mainVars, BatchInv, JoinInv
<1>9. CountInv'
  BY <1>0 DEF PrepDone, segVars, gpuVars, mainVars, BatchInv, CountInv, InFlight, Sent
<1>10. AccountInv'
  BY <1>0 DEF PrepDone, segVars, gpuVars, mainVars, BatchInv, AccountInv, SentUpTo,
      Accounted, InTransit
<1>11. ResultInv'
  BY <1>0 DEF PrepDone, segVars, gpuVars, mainVars, BatchInv, ResultInv
<1> QED BY <1>1, <1>2, <1>3, <1>4, <1>5, <1>6, <1>7, <1>8, <1>9, <1>10, <1>11 DEF
    BatchInv

(* A prepared chunk is sent, or its worker stops with the GPU worker.      *)
LEMMA PrepSendKeeps ==
  ASSUME BatchInv, NEW w \in Preps, Started, PrepSend(w)
  PROVE  BatchInv'
<1>0. /\ call' = call /\ W' = W /\ Files' = Files /\ ChunkSet' = ChunkSet
      /\ \A f : Size(f)' = Size(f) /\ ExpectedChunks(f)' = ExpectedChunks(f)
  BY DEF PrepSend, segVars, gpuVars, mainVars, Files, W, ChunkSet, Size, ExpectedChunks
<1>a. /\ call \in Calls /\ decoded \in Seq(ChunkSet) /\ prepared \in Seq(ChunkSet)
      /\ prep \in [Preps -> {"recv", "prep", "send", "ok", "failed"}]
      /\ prepHolds \in [Preps -> ChunkSet \union {Nothing}]
  BY DEF BatchInv, FrontTypes
<1>b. /\ prep' = [prep EXCEPT ![w] = "recv"] \/ prep' = [prep EXCEPT ![w] = "ok"]
      /\ prepHolds' = [prepHolds EXCEPT ![w] = Nothing]
  BY DEF PrepSend
<1>c. prep'[w] \in {"recv", "ok"} /\ prepHolds'[w] = Nothing
  BY <1>a, <1>b
<1>d. \A v \in Preps \ {w} : prep'[v] = prep[v] /\ prepHolds'[v] = prepHolds[v]
  BY <1>a, <1>b
<1>e. prepHolds[w] \in ChunkSet
  BY <1>a DEF PrepSend, BatchInv, HoldInv
<1>f. faults = {} => ~GpuGone
  <2>1. ~PrepsGone
    BY DEF PrepSend, PrepsGone
  <2> QED BY <2>1 DEF BatchInv, EndInv
<1>g. faults = {} => prepared' = Append(prepared, prepHolds[w]) /\ prep'[w] = "recv"
  BY <1>a, <1>f DEF PrepSend
<1>1. FrontTypes'
  <2>1. prep' \in [Preps -> {"recv", "prep", "send", "ok", "failed"}]
    BY <1>a, <1>b
  <2>2. prepHolds' \in [Preps -> ChunkSet \union {Nothing}]
    BY <1>a, <1>b
  <2>3. prepared' \in Seq(ChunkSet)
    <3>1. Append(prepared, prepHolds[w]) \in Seq(ChunkSet)
      BY <1>a, <1>e, AppendProperties
    <3> QED BY <3>1, <1>a DEF PrepSend
  <2> QED BY <1>0, <2>1, <2>2, <2>3 DEF PrepSend, segVars, BatchInv, FrontTypes
<1>2. BackTypes'
  BY <1>0 DEF PrepSend, segVars, gpuVars, mainVars, BatchInv, BackTypes
<1>3. SegInv'
  BY <1>0 DEF PrepSend, segVars, gpuVars, mainVars, BatchInv, SegInv
<1>4. HoldInv'
  <2>1. \A v \in Preps : prep[v] \in {"prep", "send"} <=> prepHolds[v] # Nothing
    BY DEF BatchInv, HoldInv
  <2>2. \A v \in Preps : prep'[v] \in {"prep", "send"} <=> prepHolds'[v] # Nothing
    BY <2>1, <1>c, <1>d
  <2> QED BY <2>2 DEF PrepSend, gpuVars, BatchInv, HoldInv
<1>5. OffInv'
  BY <1>0 DEF PrepSend, segVars, gpuVars, mainVars, Started, BatchInv, OffInv
<1>6. FaultInv'
  <2>1. (\A v \in Preps : prep[v] # "failed") <=> (\A v \in Preps : prep'[v] # "failed")
    BY <1>c, <1>d DEF PrepSend
  <2> QED BY <2>1 DEF PrepSend, segVars, gpuVars, mainVars, BatchInv, FaultInv
<1>7. EndInv'
  <2> SUFFICES ASSUME faults = {} PROVE EndInv'
    BY DEF PrepSend, EndInv
  <2>1. \A v \in Preps : prep'[v] = "ok" => prep[v] = "ok"
    BY <1>d, <1>g
  <2>2. gpu' = gpu /\ decoded' = decoded /\ seg' = seg /\ main' = main
    BY DEF PrepSend, segVars, gpuVars, mainVars
  <2> QED BY <2>1, <2>2, <1>f DEF BatchInv, EndInv, GpuGone, SegGone
<1>8. JoinInv'
  BY <1>0 DEF PrepSend, segVars, gpuVars, mainVars, BatchInv, JoinInv
<1>9. CountInv' /\ AccountInv' /\ ResultInv'
  <2>1. ASSUME faults = {}, NEW f \in Files
        PROVE  InFlight(f)' = InFlight(f) /\ \A i : Accounted(f, i) => Accounted(f, i)'
    <3>1. /\ Count(prepared, f) \in Nat /\ Count(prepared', f) \in Nat
          /\ Count(prepared', f) = Count(prepared, f) + One(prepHolds[w], f)
          /\ \A i : CarriedIn(prepared, f, i) \/ Carries(prepHolds[w], f, i)
                      => CarriedIn(prepared', f, i)
      <4>1. /\ prepared' = Append(prepared, prepHolds[w])
            /\ prepared \in Seq(ChunkSet) /\ prepHolds[w] \in ChunkSet
        BY <2>1, <1>a, <1>e, <1>g
      <4>2. /\ Count(prepared, f) \in Nat /\ Count(prepared', f) \in Nat
            /\ Count(prepared', f) = Count(prepared, f) + One(prepHolds[w], f)
        BY <4>1, QueueAppend
      <4>3. \A i : CarriedIn(prepared, f, i) \/ Carries(prepHolds[w], f, i)
                    => CarriedIn(prepared', f, i)
        BY <4>1, QueueAppend
      <4> QED BY <4>2, <4>3
    <3>2. One(Nothing, f) = 0 /\ \A i : ~Carries(Nothing, f, i)
      BY <1>a, NothingOfFile
    <3>3. /\ Held(prepHolds, f) \in Nat /\ Held(prepHolds', f) \in Nat
          /\ Held(prepHolds', f) + One(prepHolds[w], f) = Held(prepHolds, f) + One(Nothing, f)
      <4>1. ASSUME NEW before, NEW after, before = prepHolds, after = prepHolds'
            PROVE  Held(after, f) + One(before[w], f) = Held(before, f) + One(after[w], f)
        <5>1. \A v \in Preps \ {w} : after[v] = before[v]
          BY <4>1, <1>d
        <5> QED BY <5>1, HandsChange
      <4>2. Held(prepHolds', f) + One(prepHolds[w], f) = Held(prepHolds, f) + One(prepHolds'[w], f)
        BY <4>1
      <4>3. Held(prepHolds, f) \in Nat /\ Held(prepHolds', f) \in Nat
        BY Counted
      <4> QED BY <1>c, <4>2, <4>3
    <3>4. One(prepHolds[w], f) \in Nat
      BY DEF One
    <3>5. Held(prepHolds', f) + Count(prepared', f) = Held(prepHolds, f) + Count(prepared, f)
      BY <3>1, <3>2, <3>3, <3>4
    <3>6. InFlight(f)' = InFlight(f)
      <4>1. /\ Count(decoded, f) \in Nat /\ Count(embedded, f) \in Nat
            /\ One(gpuHolds, f) \in Nat
        BY <1>a, Counted DEF One, BatchInv, BackTypes
      <4>2. InFlight(f)' = Count(decoded, f) + Held(prepHolds', f) + Count(prepared', f)
                             + One(gpuHolds, f) + Count(embedded, f)
        BY DEF PrepSend, gpuVars, InFlight
      <4> QED BY <3>1, <3>3, <3>5, <4>1, <4>2 DEF InFlight
    <3>7. ASSUME NEW i, \E v \in Preps : Carries(prepHolds[v], f, i)
          PROVE  CarriedIn(prepared', f, i) \/ \E v \in Preps : Carries(prepHolds'[v], f, i)
      <4>1. PICK v \in Preps : Carries(prepHolds[v], f, i)
        BY <3>7
      <4>2. v = w => CarriedIn(prepared', f, i)
        BY <4>1, <3>1
      <4>3. v # w => Carries(prepHolds'[v], f, i)
        BY <4>1, <1>d
      <4> QED BY <4>2, <4>3
    <3>8. ASSUME NEW i, Accounted(f, i) PROVE Accounted(f, i)'
      BY <3>1, <3>7, <3>8 DEF PrepSend, gpuVars, mainVars, Accounted, InTransit
    <3> QED BY <3>6, <3>8
  <2> QED BY <2>1, Transit DEF PrepSend, segVars, mainVars
<1> QED BY <1>1, <1>2, <1>3, <1>4, <1>5, <1>6, <1>7, <1>8, <1>9 DEF BatchInv

(* The GPU worker takes a prepared chunk.                                  *)
LEMMA GpuTakePreparedKeeps ==
  ASSUME BatchInv, Started, gpu \in {"pollPrep", "pollDecoded", "select", "drain"},
         GpuTakePrepared, UNCHANGED <<segVars, prepVars, embedded, mainVars, faults>>
  PROVE  BatchInv'
<1>0. /\ call' = call /\ W' = W /\ Files' = Files /\ ChunkSet' = ChunkSet
      /\ \A f : Size(f)' = Size(f) /\ ExpectedChunks(f)' = ExpectedChunks(f)
  BY DEF GpuTakePrepared, segVars, prepVars, mainVars, Files, W, ChunkSet, Size,
      ExpectedChunks
<1>a. /\ call \in Calls /\ decoded \in Seq(ChunkSet) /\ prepared \in Seq(ChunkSet)
      /\ embedded \in Seq(ChunkSet)
      /\ prepHolds \in [Preps -> ChunkSet \union {Nothing}]
      /\ gpuHolds \in ChunkSet \union {Nothing}
  BY DEF BatchInv, FrontTypes, BackTypes
<1>b. /\ prepared # <<>> /\ prepared' = Tail(prepared) /\ gpuHolds' = Head(prepared)
      /\ gpu' = "predict" /\ decoded' = decoded
  BY DEF GpuTakePrepared
<1>c. gpuHolds = Nothing
  BY DEF BatchInv, HoldInv
<1>d. Head(prepared) \in ChunkSet /\ Head(prepared) # Nothing /\ Tail(prepared) \in Seq(ChunkSet)
  BY <1>a, <1>b, HeadTailProperties, ChunkOfFile
<1>1. FrontTypes'
  BY <1>0, <1>b, <1>d DEF segVars, prepVars, BatchInv, FrontTypes
<1>2. BackTypes'
  BY <1>0, <1>b, <1>d DEF mainVars, BatchInv, BackTypes
<1>3. SegInv'
  BY <1>0 DEF GpuTakePrepared, segVars, prepVars, mainVars, BatchInv, SegInv
<1>4. HoldInv'
  BY <1>b, <1>d DEF prepVars, BatchInv, HoldInv
<1>5. OffInv'
  BY <1>0 DEF GpuTakePrepared, segVars, prepVars, mainVars, BatchInv, OffInv
<1>6. FaultInv'
  BY <1>0 DEF GpuTakePrepared, segVars, prepVars, mainVars, BatchInv, FaultInv
<1>7. EndInv'
  BY <1>0 DEF GpuTakePrepared, segVars, prepVars, mainVars, BatchInv, EndInv, GpuGone,
      PrepsGone, SegGone
<1>8. JoinInv'
  BY <1>0 DEF GpuTakePrepared, segVars, prepVars, mainVars, BatchInv, JoinInv
<1>9. CountInv' /\ AccountInv' /\ ResultInv'
  <2>1. ASSUME NEW f \in Files
        PROVE  InFlight(f)' = InFlight(f) /\ \A i : Accounted(f, i) => Accounted(f, i)'
    <3>1. /\ Count(prepared, f) \in Nat /\ Count(prepared', f) \in Nat
          /\ Count(prepared, f) = One(gpuHolds', f) + Count(prepared', f)
          /\ \A i : CarriedIn(prepared, f, i)
                      => Carries(gpuHolds', f, i) \/ CarriedIn(prepared', f, i)
      BY <1>a, <1>b, QueueHead
    <3>2. One(gpuHolds, f) = 0 /\ \A i : ~Carries(gpuHolds, f, i)
      BY <1>a, <1>c, NothingOfFile
    <3>3. /\ One(gpuHolds', f) \in Nat /\ Count(decoded, f) \in Nat
          /\ Count(embedded, f) \in Nat /\ Held(prepHolds, f) \in Nat
      BY <1>a, Counted DEF One
    <3>4. InFlight(f)' = InFlight(f)
      BY <3>1, <3>2, <3>3, <1>b DEF prepVars, InFlight
    <3>5. ASSUME NEW i, Accounted(f, i) PROVE Accounted(f, i)'
      BY <3>1, <3>2, <3>5, <1>b DEF prepVars, mainVars, Accounted, InTransit
    <3> QED BY <3>4, <3>5
  <2> QED BY <2>1, Transit DEF segVars, mainVars
<1> QED BY <1>1, <1>2, <1>3, <1>4, <1>5, <1>6, <1>7, <1>8, <1>9 DEF BatchInv

(* The GPU worker takes a decoded chunk, which it prepares itself.         *)
LEMMA GpuTakeDecodedKeeps ==
  ASSUME BatchInv, Started, gpu \in {"pollPrep", "pollDecoded", "select", "drain"},
         GpuTakeDecoded, UNCHANGED <<segVars, prepVars, embedded, mainVars, faults>>
  PROVE  BatchInv'
<1>0. /\ call' = call /\ W' = W /\ Files' = Files /\ ChunkSet' = ChunkSet
      /\ \A f : Size(f)' = Size(f) /\ ExpectedChunks(f)' = ExpectedChunks(f)
  BY DEF GpuTakeDecoded, segVars, prepVars, mainVars, Files, W, ChunkSet, Size,
      ExpectedChunks
<1>a. /\ call \in Calls /\ decoded \in Seq(ChunkSet) /\ prepared \in Seq(ChunkSet)
      /\ embedded \in Seq(ChunkSet)
      /\ prepHolds \in [Preps -> ChunkSet \union {Nothing}]
      /\ gpuHolds \in ChunkSet \union {Nothing}
  BY DEF BatchInv, FrontTypes, BackTypes
<1>b. /\ decoded # <<>> /\ decoded' = Tail(decoded) /\ gpuHolds' = Head(decoded)
      /\ gpu' = "predict" /\ prepared' = prepared
  BY DEF GpuTakeDecoded
<1>c. gpuHolds = Nothing
  BY DEF BatchInv, HoldInv
<1>d. Head(decoded) \in ChunkSet /\ Head(decoded) # Nothing /\ Tail(decoded) \in Seq(ChunkSet)
  BY <1>a, <1>b, HeadTailProperties, ChunkOfFile
<1>1. FrontTypes'
  BY <1>0, <1>b, <1>d DEF segVars, prepVars, BatchInv, FrontTypes
<1>2. BackTypes'
  BY <1>0, <1>b, <1>d DEF mainVars, BatchInv, BackTypes
<1>3. SegInv'
  BY <1>0 DEF GpuTakeDecoded, segVars, prepVars, mainVars, BatchInv, SegInv
<1>4. HoldInv'
  BY <1>b, <1>d DEF prepVars, BatchInv, HoldInv
<1>5. OffInv'
  BY <1>0 DEF GpuTakeDecoded, segVars, prepVars, mainVars, BatchInv, OffInv
<1>6. FaultInv'
  BY <1>0 DEF GpuTakeDecoded, segVars, prepVars, mainVars, BatchInv, FaultInv
<1>7. EndInv'
  BY <1>0 DEF GpuTakeDecoded, segVars, prepVars, mainVars, BatchInv, EndInv, GpuGone,
      PrepsGone, SegGone
<1>8. JoinInv'
  BY <1>0 DEF GpuTakeDecoded, segVars, prepVars, mainVars, BatchInv, JoinInv
<1>9. CountInv' /\ AccountInv' /\ ResultInv'
  <2>1. ASSUME NEW f \in Files
        PROVE  InFlight(f)' = InFlight(f) /\ \A i : Accounted(f, i) => Accounted(f, i)'
    <3>1. /\ Count(decoded, f) \in Nat /\ Count(decoded', f) \in Nat
          /\ Count(decoded, f) = One(gpuHolds', f) + Count(decoded', f)
          /\ \A i : CarriedIn(decoded, f, i)
                      => Carries(gpuHolds', f, i) \/ CarriedIn(decoded', f, i)
      BY <1>a, <1>b, QueueHead
    <3>2. One(gpuHolds, f) = 0 /\ \A i : ~Carries(gpuHolds, f, i)
      BY <1>a, <1>c, NothingOfFile
    <3>3. /\ One(gpuHolds', f) \in Nat /\ Count(prepared, f) \in Nat
          /\ Count(embedded, f) \in Nat /\ Held(prepHolds, f) \in Nat
      BY <1>a, Counted DEF One
    <3>4. InFlight(f)' = InFlight(f)
      BY <3>1, <3>2, <3>3, <1>b DEF prepVars, InFlight
    <3>5. ASSUME NEW i, Accounted(f, i) PROVE Accounted(f, i)'
      BY <3>1, <3>2, <3>5, <1>b DEF prepVars, mainVars, Accounted, InTransit
    <3> QED BY <3>4, <3>5
  <2> QED BY <2>1, Transit DEF segVars, mainVars
<1> QED BY <1>1, <1>2, <1>3, <1>4, <1>5, <1>6, <1>7, <1>8, <1>9 DEF BatchInv

(* The GPU worker finds nothing and goes on to the next thing it waits     *)
(* for, or stops: with both its inputs at an end.                          *)
LEMMA GpuMoveKeeps ==
  ASSUME BatchInv, Started, gpu \in {"pollPrep", "pollDecoded", "select", "drain"},
         NEW to \in {"pollDecoded", "select", "drain", "ok"}, GpuMove(to),
         to = "ok" => prepared = <<>> /\ PrepsGone,
         UNCHANGED <<segVars, prepVars, embedded, mainVars, faults>>
  PROVE  BatchInv'
<1>0. /\ call' = call /\ W' = W /\ Files' = Files /\ ChunkSet' = ChunkSet
      /\ \A f : Size(f)' = Size(f) /\ ExpectedChunks(f)' = ExpectedChunks(f)
  BY DEF GpuMove, segVars, prepVars, mainVars, Files, W, ChunkSet, Size, ExpectedChunks
<1>1. FrontTypes'
  BY <1>0 DEF GpuMove, segVars, prepVars, mainVars, BatchInv, FrontTypes
<1>2. BackTypes'
  BY <1>0 DEF GpuMove, segVars, prepVars, mainVars, BatchInv, BackTypes
<1>3. SegInv'
  BY <1>0 DEF GpuMove, segVars, prepVars, mainVars, BatchInv, SegInv
<1>4. HoldInv'
  BY <1>0 DEF GpuMove, segVars, prepVars, mainVars, BatchInv, HoldInv
<1>5. OffInv'
  BY DEF Started, segVars, mainVars, BatchInv, OffInv
<1>6. FaultInv'
  BY <1>0 DEF GpuMove, segVars, prepVars, mainVars, BatchInv, FaultInv
<1>7. EndInv'
  BY <1>0 DEF GpuMove, segVars, prepVars, mainVars, BatchInv, EndInv, GpuGone,
      PrepsGone, SegGone
<1>8. JoinInv'
  BY <1>0 DEF GpuMove, segVars, prepVars, mainVars, BatchInv, JoinInv
<1>9. CountInv'
  BY <1>0 DEF GpuMove, segVars, prepVars, mainVars, BatchInv, CountInv, InFlight, Sent
<1>10. AccountInv'
  BY <1>0 DEF GpuMove, segVars, prepVars, mainVars, BatchInv, AccountInv, SentUpTo,
      Accounted, InTransit
<1>11. ResultInv'
  BY <1>0 DEF GpuMove, segVars, prepVars, mainVars, BatchInv, ResultInv
<1> QED BY <1>1, <1>2, <1>3, <1>4, <1>5, <1>6, <1>7, <1>8, <1>9, <1>10, <1>11 DEF
    BatchInv

(* The GPU worker looks for work where its state tells it to.              *)
LEMMA GpuNextPreparedKeeps ==
  ASSUME BatchInv, Started, GpuNextPrepared
  PROVE  BatchInv'
<1>1. /\ gpu \in {"pollPrep", "pollDecoded", "select", "drain"}
      /\ UNCHANGED <<segVars, prepVars, embedded, mainVars, faults>>
      /\ \/ GpuTakePrepared \/ GpuTakeDecoded \/ GpuStop
         \/ \E to \in {"pollDecoded", "select", "drain"} : GpuMove(to)
  BY DEF GpuNextPrepared
<1>2. CASE GpuTakePrepared
  BY <1>1, <1>2, GpuTakePreparedKeeps
<1>3. CASE GpuTakeDecoded
  BY <1>1, <1>3, GpuTakeDecodedKeeps
<1>4. CASE GpuStop
  BY <1>1, <1>4, GpuMoveKeeps DEF GpuStop
<1>5. CASE \E to \in {"pollDecoded", "select", "drain"} : GpuMove(to)
  BY <1>1, <1>5, GpuMoveKeeps
<1> QED BY <1>1, <1>2, <1>3, <1>4, <1>5

(* A prediction, which may fail.                                           *)
LEMMA GpuPredictKeeps ==
  ASSUME BatchInv, Started, GpuPredict
  PROVE  BatchInv'
<1>0. /\ call' = call /\ W' = W /\ Files' = Files /\ ChunkSet' = ChunkSet
      /\ \A f : Size(f)' = Size(f) /\ ExpectedChunks(f)' = ExpectedChunks(f)
  BY DEF GpuPredict, segVars, prepVars, mainVars, Files, W, ChunkSet, Size,
      ExpectedChunks
<1>1. FrontTypes'
  BY <1>0, EmptySeq DEF GpuPredict, segVars, prepVars, mainVars, BatchInv, FrontTypes
<1>2. BackTypes'
  BY <1>0 DEF GpuPredict, segVars, prepVars, mainVars, BatchInv, BackTypes
<1>3. SegInv'
  BY <1>0 DEF GpuPredict, segVars, prepVars, mainVars, BatchInv, SegInv
<1>4. HoldInv'
  BY <1>0 DEF GpuPredict, segVars, prepVars, mainVars, BatchInv, HoldInv
<1>5. OffInv'
  BY <1>0 DEF GpuPredict, segVars, prepVars, mainVars, Started, BatchInv, OffInv
<1>6. FaultInv'
  BY <1>0 DEF GpuPredict, segVars, prepVars, mainVars, BatchInv, FaultInv
<1>7. EndInv'
  BY <1>0 DEF GpuPredict, segVars, prepVars, mainVars, BatchInv, EndInv, GpuGone,
      PrepsGone, SegGone
<1>8. JoinInv'
  BY <1>0 DEF GpuPredict, segVars, prepVars, mainVars, BatchInv, JoinInv
<1>9. CountInv'
  BY <1>0 DEF GpuPredict, segVars, prepVars, mainVars, BatchInv, CountInv, InFlight,
      Sent
<1>10. AccountInv'
  BY <1>0 DEF GpuPredict, segVars, prepVars, mainVars, BatchInv, AccountInv, SentUpTo,
      Accounted, InTransit
<1>11. ResultInv'
  BY <1>0 DEF GpuPredict, segVars, prepVars, mainVars, BatchInv, ResultInv
<1> QED BY <1>1, <1>2, <1>3, <1>4, <1>5, <1>6, <1>7, <1>8, <1>9, <1>10, <1>11 DEF
    BatchInv

(* An embedded chunk is sent.                                              *)
LEMMA GpuSendKeeps ==
  ASSUME BatchInv, Started, GpuSend
  PROVE  BatchInv'
<1>0. /\ call' = call /\ W' = W /\ Files' = Files /\ ChunkSet' = ChunkSet
      /\ \A f : Size(f)' = Size(f) /\ ExpectedChunks(f)' = ExpectedChunks(f)
  BY DEF GpuSend, segVars, prepVars, mainVars, Files, W, ChunkSet, Size, ExpectedChunks
<1>a. /\ call \in Calls /\ decoded \in Seq(ChunkSet) /\ prepared \in Seq(ChunkSet)
      /\ embedded \in Seq(ChunkSet)
      /\ prepHolds \in [Preps -> ChunkSet \union {Nothing}]
      /\ gpuHolds \in ChunkSet \union {Nothing}
  BY DEF BatchInv, FrontTypes, BackTypes
<1>b. embedded' = Append(embedded, gpuHolds) /\ gpuHolds' = Nothing
  BY DEF GpuSend
<1>c. gpuHolds \in ChunkSet
  BY <1>a DEF GpuSend, BatchInv, HoldInv
<1>1. FrontTypes'
  BY <1>0 DEF GpuSend, segVars, prepVars, mainVars, BatchInv, FrontTypes
<1>2. BackTypes'
  <2>1. embedded' \in Seq(ChunkSet)
    BY <1>a, <1>b, <1>c, AppendProperties
  <2> QED BY <1>0, <2>1 DEF GpuSend, segVars, prepVars, mainVars, BatchInv, BackTypes
<1>3. SegInv'
  BY <1>0 DEF GpuSend, segVars, prepVars, mainVars, BatchInv, SegInv
<1>4. HoldInv'
  BY <1>0 DEF GpuSend, segVars, prepVars, mainVars, BatchInv, HoldInv
<1>5. OffInv'
  BY <1>0 DEF GpuSend, segVars, prepVars, mainVars, Started, BatchInv, OffInv
<1>6. FaultInv'
  BY <1>0 DEF GpuSend, segVars, prepVars, mainVars, BatchInv, FaultInv
<1>7. EndInv'
  BY <1>0 DEF GpuSend, segVars, prepVars, mainVars, BatchInv, EndInv, GpuGone,
      PrepsGone, SegGone
<1>8. JoinInv'
  BY <1>0 DEF GpuSend, segVars, prepVars, mainVars, BatchInv, JoinInv
<1>9. CountInv' /\ AccountInv' /\ ResultInv'
  <2>1. ASSUME NEW f \in Files
        PROVE  InFlight(f)' = InFlight(f) /\ \A i : Accounted(f, i) => Accounted(f, i)'
    <3>1. /\ Count(embedded, f) \in Nat /\ Count(embedded', f) \in Nat
          /\ Count(embedded', f) = Count(embedded, f) + One(gpuHolds, f)
          /\ \A i : CarriedIn(embedded, f, i) \/ Carries(gpuHolds, f, i)
                      => CarriedIn(embedded', f, i)
      <4>1. /\ embedded' = Append(embedded, gpuHolds)
            /\ embedded \in Seq(ChunkSet) /\ gpuHolds \in ChunkSet
        BY <1>a, <1>b, <1>c
      <4>2. /\ Count(embedded, f) \in Nat /\ Count(embedded', f) \in Nat
            /\ Count(embedded', f) = Count(embedded, f) + One(gpuHolds, f)
        BY <4>1, QueueAppend
      <4>3. \A i : CarriedIn(embedded, f, i) \/ Carries(gpuHolds, f, i)
                    => CarriedIn(embedded', f, i)
        BY <4>1, QueueAppend
      <4> QED BY <4>2, <4>3
    <3>2. One(gpuHolds', f) = 0
      BY <1>a, <1>b, NothingOfFile
    <3>3. /\ One(gpuHolds, f) \in Nat /\ Count(decoded, f) \in Nat
          /\ Count(prepared, f) \in Nat /\ Held(prepHolds, f) \in Nat
      BY <1>a, Counted DEF One
    <3>4. InFlight(f)' = InFlight(f)
      BY <3>1, <3>2, <3>3 DEF GpuSend, prepVars, InFlight
    <3>5. ASSUME NEW i, Accounted(f, i) PROVE Accounted(f, i)'
      BY <3>1, <3>5 DEF GpuSend, prepVars, mainVars, Accounted, InTransit
    <3> QED BY <3>4, <3>5
  <2> QED BY <2>1, Transit DEF GpuSend, segVars, mainVars
<1> QED BY <1>1, <1>2, <1>3, <1>4, <1>5, <1>6, <1>7, <1>8, <1>9 DEF BatchInv

(* A chunk reaches the collector of its file.                              *)
LEMMA CollectKeeps ==
  ASSUME BatchInv, Collect
  PROVE  BatchInv'
<1>0. /\ call' = call /\ W' = W /\ Files' = Files /\ ChunkSet' = ChunkSet
      /\ \A f : Size(f)' = Size(f) /\ ExpectedChunks(f)' = ExpectedChunks(f)
  BY DEF Collect, segVars, prepVars, gpuVars, Files, W, ChunkSet, Size, ExpectedChunks
<1> PICK chunk, f, c :
       chunk = Head(embedded) /\ f = chunk.file /\ c = Add(collected[f], chunk)
  OBVIOUS
<1>a. /\ call \in Calls /\ decoded \in Seq(ChunkSet) /\ prepared \in Seq(ChunkSet)
      /\ embedded \in Seq(ChunkSet)
      /\ next \in [file : 1 .. Len(call.files) + 1, start : Nat]
      /\ prepHolds \in [Preps -> ChunkSet \union {Nothing}]
      /\ collected \in [Files -> [received : Nat, slots : Seq(Content)]]
      /\ \A g \in Files : Len(collected[g].slots) <= Size(g)
      /\ results \in [Files -> Seq(Content)]
  BY DEF BatchInv, FrontTypes, BackTypes
<1>b. embedded # <<>> /\ embedded' = Tail(embedded) /\ main = "collect"
  BY DEF Collect
<1>c. chunk \in ChunkSet /\ f \in Files /\ embedded' \in Seq(ChunkSet)
  BY <1>a, <1>b, HeadTailProperties, ChunkOfFile
<1>d. /\ c \in [received : Nat, slots : Seq(Content)] /\ Len(c.slots) <= Size(f)
      /\ c.received = collected[f].received + 1
      /\ \A i \in Nat : Stored(collected[f], f, i) \/ Carries(chunk, f, i) => Stored(c, f, i)
  BY <1>a, <1>c, AddStores
<1>e. \/ /\ c.received >= ExpectedChunks(f)
         /\ results' = [results EXCEPT ![f] = c.slots]
         /\ collected' = [collected EXCEPT ![f] = NewCollector]
      \/ /\ ~(c.received >= ExpectedChunks(f))
         /\ collected' = [collected EXCEPT ![f] = c] /\ results' = results
  BY DEF Collect
<1>f. \A g \in Files \ {f} : collected'[g] = collected[g] /\ results'[g] = results[g]
  BY <1>a, <1>e
<1>g. \/ /\ c.received >= ExpectedChunks(f)
         /\ results'[f] = c.slots /\ collected'[f] = NewCollector
      \/ /\ ~(c.received >= ExpectedChunks(f))
         /\ collected'[f] = c /\ results'[f] = results[f]
  BY <1>a, <1>c, <1>e
<1>h. seg # "off" /\ seg' = seg /\ next' = next /\ faults' = faults
  BY <1>b DEF Collect, segVars, BatchInv, OffInv
<1>o. /\ Size(f) \in Nat \ {0} /\ 0 * W = 0 /\ f \in Nat
      /\ next.file \in Nat /\ next.start \in Nat
      /\ ExpectedChunks(f) \in Nat /\ ExpectedChunks(f) > 0
  <2>1. Len(call.files) \in Nat /\ Files = 1 .. Len(call.files) /\ W \in Nat
    BY <1>a, CallSizes
  <2>2. Size(f) \in Nat /\ Size(f) > 0
    BY <1>a, <1>c, <1>h, CallSizes DEF BatchInv, SegInv
  <2>3. 0 * W = 0 /\ f \in Nat /\ next.file \in Nat /\ next.start \in Nat
    BY <2>1, <1>a, <1>c
  <2>4. ExpectedChunks(f) \in Nat /\ ExpectedChunks(f) > 0
    BY <2>2, <2>3, <1>a, <1>c, ExpectedLast
  <2> QED BY <2>2, <2>3, <2>4
<1>i. ASSUME NEW g \in Files
      PROVE  /\ InFlight(g) \in Nat /\ InFlight(g)' \in Nat
             /\ InFlight(g) = One(chunk, g) + InFlight(g)'
             /\ \A i : Accounted(g, i) => Stored(collected[g], g, i) \/ Carries(chunk, g, i)
                                           \/ InTransit(g, i)'
             /\ InFlight(g)' = 0 => \A i : ~InTransit(g, i)'
  <2>1. /\ Count(embedded, g) \in Nat /\ Count(embedded', g) \in Nat
        /\ Count(embedded, g) = One(chunk, g) + Count(embedded', g)
        /\ \A i : CarriedIn(embedded, g, i)
                    => Carries(chunk, g, i) \/ CarriedIn(embedded', g, i)
    <3>1. embedded \in Seq(ChunkSet) /\ embedded # <<>>
      BY <1>a, <1>b
    <3>2. /\ Count(embedded, g) \in Nat /\ Count(Tail(embedded), g) \in Nat
          /\ Count(embedded, g) = One(Head(embedded), g) + Count(Tail(embedded), g)
          /\ \A i : CarriedIn(embedded, g, i)
                      => Carries(Head(embedded), g, i) \/ CarriedIn(Tail(embedded), g, i)
      BY <3>1, QueueHead
    <3> QED BY <3>2, <1>b
  <2>2. /\ Count(decoded, g) \in Nat /\ Count(prepared, g) \in Nat
        /\ Held(prepHolds, g) \in Nat /\ One(gpuHolds, g) \in Nat /\ One(chunk, g) \in Nat
    BY <1>a, Counted DEF One
  <2>3. /\ InFlight(g) = Count(decoded, g) + Held(prepHolds, g) + Count(prepared, g)
                           + One(gpuHolds, g) + Count(embedded, g)
        /\ InFlight(g)' = Count(decoded, g) + Held(prepHolds, g) + Count(prepared, g)
                            + One(gpuHolds, g) + Count(embedded', g)
    BY DEF Collect, prepVars, gpuVars, InFlight
  <2>4. \A i : InTransit(g, i)' <=>
          \/ CarriedIn(decoded, g, i) \/ (\E w \in Preps : Carries(prepHolds[w], g, i))
          \/ CarriedIn(prepared, g, i) \/ Carries(gpuHolds, g, i)
          \/ CarriedIn(embedded', g, i)
    BY DEF Collect, prepVars, gpuVars, InTransit
  <2>5. \A i : Accounted(g, i) => Stored(collected[g], g, i) \/ Carries(chunk, g, i)
                                   \/ InTransit(g, i)'
    BY <2>1, <2>4 DEF Accounted, InTransit
  <2>6. ASSUME InFlight(g)' = 0, NEW i PROVE ~InTransit(g, i)'
    <3>1. /\ Count(decoded, g) = 0 /\ Held(prepHolds, g) = 0 /\ Count(prepared, g) = 0
          /\ One(gpuHolds, g) = 0 /\ Count(embedded', g) = 0
      <4>1. ASSUME NEW a \in Nat, NEW b \in Nat, NEW d \in Nat, NEW e \in Nat, NEW h \in Nat,
                   a + b + d + e + h = 0
            PROVE  a = 0 /\ b = 0 /\ d = 0 /\ e = 0 /\ h = 0
        BY <4>1
      <4>2. Count(decoded, g) + Held(prepHolds, g) + Count(prepared, g)
              + One(gpuHolds, g) + Count(embedded', g) = 0
        BY <2>3, <2>6
      <4> QED BY <4>1, <4>2, <2>1, <2>2
    <3>2. ~CarriedIn(decoded, g, i) /\ ~CarriedIn(prepared, g, i) /\ ~CarriedIn(embedded', g, i)
      BY <3>1, <1>a, <1>c, CountedOut
    <3>3. \A w \in Preps : ~Carries(prepHolds[w], g, i)
      BY <3>1, <1>a, HeldOut
    <3>4. ~Carries(gpuHolds, g, i)
      BY <3>1 DEF One, Carries
    <3> QED BY <3>2, <3>3, <3>4, <2>4
  <2> QED BY <2>1, <2>2, <2>3, <2>5, <2>6
<1>j. faults = {} => \A g \in Files :
        IF results[g] = <<>>
        THEN /\ collected[g].received + InFlight(g) = Sent(g)
             /\ collected[g].received < ExpectedChunks(g)
        ELSE g < next.file /\ InFlight(g) = 0
  BY <1>h DEF BatchInv, CountInv
<1>k. faults = {} => results[f] = <<>>
  <2>1. One(chunk, f) = 1
    BY DEF One
  <2>2. InFlight(f) # 0
    BY <2>1, <1>c, <1>i
  <2> QED BY <2>2, <1>c, <1>j
<1>l. ASSUME faults = {}, c.received >= ExpectedChunks(f)
      PROVE  f < next.file /\ InFlight(f)' = 0
  <2>1. One(chunk, f) = 1
    BY DEF One
  <2>2. c.received + InFlight(f)' = Sent(f) /\ c.received \in Nat
    <3>1. collected[f].received + InFlight(f) = Sent(f) /\ collected[f].received \in Nat
      BY <1>l, <1>a, <1>c, <1>j, <1>k
    <3>2. InFlight(f) = 1 + InFlight(f)' /\ InFlight(f)' \in Nat
      BY <2>1, <1>c, <1>i
    <3> QED BY <3>1, <3>2, <1>d
  <2>3. next.file \in Nat /\ next.start \in Nat /\ f \in Nat
    BY <1>o
  <2>4. ExpectedChunks(f) \in Nat /\ ExpectedChunks(f) > 0
    BY <1>o
  <2>5. f = next.file => next.start < ExpectedChunks(f)
    <3>1. f = next.file => next.start * W < Size(f)
      BY <1>c, <1>h DEF BatchInv, SegInv
    <3> QED BY <3>1, <2>3, <1>a, <1>c, ExpectedLast
  <2>6. f = next.file => Sent(f) = next.start
    BY <2>3 DEF Sent
  <2>7. f > next.file => Sent(f) = 0
    BY <2>3 DEF Sent
  <2>8. f < next.file => Sent(f) = ExpectedChunks(f)
    BY DEF Sent
  <2>9. InFlight(f)' \in Nat
    BY <1>c, <1>i
  <2>10. f < next.file
    BY <1>l, <2>2, <2>3, <2>4, <2>5, <2>6, <2>7, <2>9
  <2> QED BY <1>l, <2>2, <2>4, <2>8, <2>9, <2>10
<1>m. ASSUME faults = {}, NEW g \in Files, results[g] = <<>>,
             NEW i \in 0 .. Size(g) - 1, i < SentUpTo(g)
      PROVE  Stored(collected[g], g, i) \/ Carries(chunk, g, i) \/ InTransit(g, i)'
  <2>1. Accounted(g, i)
    BY <1>m, <1>h DEF BatchInv, AccountInv
  <2> QED BY <2>1, <1>i
<1>n. ASSUME faults = {}, c.received >= ExpectedChunks(f)
      PROVE  c.slots = [i \in 1 .. Size(f) |-> Window(f, i - 1)] /\ c.slots # <<>>
  <2>1. Size(f) \in Nat \ {0}
    BY <1>o
  <2>2. ASSUME NEW i \in 0 .. Size(f) - 1 PROVE Stored(c, f, i)
    <3>1. i \in Nat /\ i < SentUpTo(f)
      BY <2>1, <1>l, <1>n DEF SentUpTo
    <3>2. ~InTransit(f, i)'
      BY <1>c, <1>i, <1>l, <1>n
    <3>3. Stored(collected[f], f, i) \/ Carries(chunk, f, i)
      BY <3>1, <3>2, <1>c, <1>k, <1>m, <1>n
    <3> QED BY <3>1, <3>3, <1>d
  <2>3. c.slots = [i \in 1 .. Size(f) |-> Window(f, i - 1)]
    <3>1. PICK n : n = Size(f)
      OBVIOUS
    <3>2. n \in Nat \ {0} /\ c.slots \in Seq(Content) /\ Len(c.slots) <= n
      BY <2>1, <3>1, <1>d
    <3>3. \A i \in 0 .. n - 1 : i + 1 <= Len(c.slots) /\ c.slots[i + 1] = Window(f, i)
      BY <2>2, <3>1 DEF Stored
    <3>4. Len(c.slots) = n /\ \A i \in 1 .. n : c.slots[i] = Window(f, i - 1)
      BY <3>2, <3>3, AllStored
    <3>5. c.slots = [i \in 1 .. Len(c.slots) |-> c.slots[i]]
      BY <3>2, LenProperties
    <3> QED BY <3>1, <3>4, <3>5
  <2>4. 1 \in DOMAIN c.slots
    BY <2>1, <2>3
  <2> QED BY <2>3, <2>4
<1>1. FrontTypes'
  BY <1>0 DEF Collect, segVars, prepVars, gpuVars, BatchInv, FrontTypes
<1>2. BackTypes'
  <2>1. NewCollector \in [received : Nat, slots : Seq(Content)] /\ Len(NewCollector.slots) = 0
    BY EmptySeq DEF NewCollector
  <2>2. \A g \in Files : Size(g) \in Nat
    BY <1>a, CallSizes
  <2>3. collected' \in [Files -> [received : Nat, slots : Seq(Content)]]
    BY <2>1, <1>a, <1>d, <1>e
  <2>4. \A g \in Files : Len(collected'[g].slots) <= Size(g)
    <3>1. ASSUME NEW g \in Files, g # f PROVE Len(collected'[g].slots) <= Size(g)
      BY <3>1, <1>a, <1>f
    <3>2. Len(collected'[f].slots) <= Size(f)
      BY <2>1, <2>2, <1>c, <1>d, <1>g
    <3> QED BY <3>1, <3>2
  <2>5. results' \in [Files -> Seq(Content)]
    BY <1>a, <1>d, <1>e
  <2> QED BY <1>0, <1>c, <2>3, <2>4, <2>5 DEF Collect, gpuVars, BatchInv, BackTypes
<1>3. SegInv'
  BY <1>0 DEF Collect, segVars, prepVars, gpuVars, BatchInv, SegInv
<1>4. HoldInv'
  BY <1>0 DEF Collect, segVars, prepVars, gpuVars, BatchInv, HoldInv
<1>5. OffInv'
  BY <1>b, <1>h DEF Collect, OffInv
<1>6. FaultInv'
  BY <1>0 DEF Collect, segVars, prepVars, gpuVars, BatchInv, FaultInv
<1>7. EndInv'
  BY <1>0 DEF Collect, segVars, prepVars, gpuVars, BatchInv, EndInv, GpuGone,
      PrepsGone, SegGone
<1>8. JoinInv'
  BY <1>0 DEF Collect, segVars, prepVars, gpuVars, BatchInv, JoinInv
<1>9. CountInv'
  <2> SUFFICES ASSUME faults = {}, NEW g \in Files
               PROVE  IF results'[g] = <<>>
                      THEN /\ collected'[g].received + InFlight(g)' = Sent(g)
                           /\ collected'[g].received < ExpectedChunks(g)
                      ELSE g < next.file /\ InFlight(g)' = 0
    BY <1>0, <1>h DEF CountInv, Sent
  <2>1. CASE g # f
    <3>1. One(chunk, g) = 0
      BY <2>1 DEF One
    <3>2. InFlight(g)' = InFlight(g)
      BY <3>1, <1>i
    <3> QED BY <2>1, <3>2, <1>f, <1>j
  <2>2. CASE g = f /\ c.received >= ExpectedChunks(f)
    <3>1. results'[f] # <<>>
      BY <2>2, <1>d, <1>g, <1>n
    <3> QED BY <2>2, <3>1, <1>l
  <2>3. CASE g = f /\ ~(c.received >= ExpectedChunks(f))
    <3>1. collected'[f] = c /\ results'[f] = <<>>
      BY <2>3, <1>g, <1>k
    <3>2. One(chunk, f) = 1
      BY DEF One
    <3>3. collected[f].received + InFlight(f) = Sent(f) /\ collected[f].received \in Nat
      BY <1>a, <1>c, <1>j, <1>k
    <3>4. c.received + InFlight(f)' = Sent(f)
      <4>1. InFlight(f) = 1 + InFlight(f)' /\ InFlight(f)' \in Nat
        BY <3>2, <1>c, <1>i
      <4> QED BY <3>3, <4>1, <1>d
    <3>5. c.received < ExpectedChunks(f)
      <4>1. collected[f].received + 1 \in Nat /\ ExpectedChunks(f) \in Nat
        BY <3>3, <1>o
      <4> QED BY <2>3, <4>1, <1>d
    <3> QED BY <2>3, <3>1, <3>4, <3>5
  <2> QED BY <2>1, <2>2, <2>3
<1>10. AccountInv'
  <2> SUFFICES ASSUME faults = {}, NEW g \in Files, results'[g] = <<>>,
                      NEW i \in 0 .. Size(g) - 1, i < SentUpTo(g)
               PROVE  InTransit(g, i)' \/ Stored(collected'[g], g, i)
    BY <1>0, <1>h DEF AccountInv, SentUpTo, Accounted, InTransit
  <2>1. i \in Nat
    BY <1>a, CallSizes
  <2>2. CASE g # f
    <3>1. ~Carries(chunk, g, i)
      BY <2>2 DEF Carries
    <3> QED BY <2>2, <3>1, <1>f, <1>m
  <2>3. CASE g = f
    <3>1. collected'[f] = c /\ results[f] = <<>>
      BY <2>3, <1>g, <1>k, <1>n
    <3> QED BY <2>1, <2>3, <3>1, <1>d, <1>m
  <2> QED BY <2>2, <2>3
<1>11. ResultInv'
  <2> SUFFICES ASSUME faults = {}, NEW g \in Files, results'[g] # <<>>
               PROVE  results'[g] = [i \in 1 .. Size(g) |-> Window(g, i - 1)]
    BY <1>0, <1>h DEF ResultInv
  <2>1. CASE g # f
    BY <2>1, <1>f DEF BatchInv, ResultInv
  <2>2. CASE g = f
    BY <2>2, <1>g, <1>k, <1>n
  <2> QED BY <2>1, <2>2
<1> QED BY <1>1, <1>2, <1>3, <1>4, <1>5, <1>6, <1>7, <1>8, <1>9, <1>10, <1>11 DEF
    BatchInv

(* A prediction is rejected.                                               *)
LEMMA CollectFailKeeps ==
  ASSUME BatchInv, CollectFail
  PROVE  BatchInv'
<1>0. /\ call' = call /\ W' = W /\ Files' = Files /\ ChunkSet' = ChunkSet
      /\ \A f : Size(f)' = Size(f) /\ ExpectedChunks(f)' = ExpectedChunks(f)
  BY DEF CollectFail, segVars, prepVars, gpuVars, Leave, Files, W, ChunkSet, Size,
      ExpectedChunks
<1>1. FrontTypes'
  BY <1>0 DEF CollectFail, segVars, prepVars, gpuVars, Leave, BatchInv, FrontTypes
<1>2. BackTypes'
  BY <1>0 DEF CollectFail, segVars, prepVars, gpuVars, Leave, BatchInv, BackTypes
<1>3. SegInv'
  BY <1>0 DEF CollectFail, segVars, prepVars, gpuVars, Leave, BatchInv, SegInv
<1>4. HoldInv'
  BY <1>0 DEF CollectFail, segVars, prepVars, gpuVars, Leave, BatchInv, HoldInv
<1>5. OffInv'
  BY <1>0 DEF CollectFail, segVars, prepVars, gpuVars, Leave, BatchInv, OffInv
<1>6. FaultInv'
  BY <1>0 DEF CollectFail, segVars, prepVars, gpuVars, Leave, BatchInv, FaultInv
<1>7. EndInv'
  BY <1>0 DEF CollectFail, segVars, prepVars, gpuVars, Leave, BatchInv, EndInv,
      GpuGone, PrepsGone, SegGone
<1>8. JoinInv'
  BY <1>0 DEF CollectFail, segVars, prepVars, gpuVars, Leave, BatchInv, JoinInv
<1>9. CountInv'
  BY <1>0 DEF CollectFail, segVars, prepVars, gpuVars, Leave, BatchInv, CountInv,
      InFlight, Sent
<1>10. AccountInv'
  BY <1>0 DEF CollectFail, segVars, prepVars, gpuVars, Leave, BatchInv, AccountInv,
      SentUpTo, Accounted, InTransit
<1>11. ResultInv'
  BY <1>0 DEF CollectFail, segVars, prepVars, gpuVars, Leave, BatchInv, ResultInv
<1> QED BY <1>1, <1>2, <1>3, <1>4, <1>5, <1>6, <1>7, <1>8, <1>9, <1>10, <1>11 DEF
    BatchInv

(* The embedded channel is exhausted.                                      *)
LEMMA CollectEndKeeps ==
  ASSUME BatchInv, CollectEnd
  PROVE  BatchInv'
<1>0. /\ call' = call /\ W' = W /\ Files' = Files /\ ChunkSet' = ChunkSet
      /\ \A f : Size(f)' = Size(f) /\ ExpectedChunks(f)' = ExpectedChunks(f)
  BY DEF CollectEnd, segVars, prepVars, gpuVars, Files, W, ChunkSet, Size,
      ExpectedChunks
<1>1. FrontTypes'
  BY <1>0 DEF CollectEnd, segVars, prepVars, gpuVars, BatchInv, FrontTypes
<1>2. BackTypes'
  BY <1>0 DEF CollectEnd, segVars, prepVars, gpuVars, BatchInv, BackTypes
<1>3. SegInv'
  BY <1>0 DEF CollectEnd, segVars, prepVars, gpuVars, BatchInv, SegInv
<1>4. HoldInv'
  BY <1>0 DEF CollectEnd, segVars, prepVars, gpuVars, BatchInv, HoldInv
<1>5. OffInv'
  BY <1>0 DEF CollectEnd, segVars, prepVars, gpuVars, BatchInv, OffInv
<1>6. FaultInv'
  BY <1>0 DEF CollectEnd, segVars, prepVars, gpuVars, BatchInv, FaultInv
<1>7. EndInv'
  BY <1>0 DEF CollectEnd, segVars, prepVars, gpuVars, BatchInv, EndInv, GpuGone,
      PrepsGone, SegGone
<1>8. JoinInv'
  BY <1>0 DEF CollectEnd, segVars, prepVars, gpuVars, BatchInv, JoinInv
<1>9. CountInv'
  BY <1>0 DEF CollectEnd, segVars, prepVars, gpuVars, BatchInv, CountInv, InFlight,
      Sent
<1>10. AccountInv'
  BY <1>0 DEF CollectEnd, segVars, prepVars, gpuVars, BatchInv, AccountInv, SentUpTo,
      Accounted, InTransit
<1>11. ResultInv'
  BY <1>0 DEF CollectEnd, segVars, prepVars, gpuVars, BatchInv, ResultInv
<1> QED BY <1>1, <1>2, <1>3, <1>4, <1>5, <1>6, <1>7, <1>8, <1>9, <1>10, <1>11 DEF
    BatchInv

(* A thread is joined.                                                     *)
LEMMA JoinKeeps ==
  ASSUME BatchInv, Join
  PROVE  BatchInv'
<1>0. /\ call' = call /\ W' = W /\ Files' = Files /\ ChunkSet' = ChunkSet
      /\ \A f : Size(f)' = Size(f) /\ ExpectedChunks(f)' = ExpectedChunks(f)
  BY DEF Join, segVars, prepVars, gpuVars, Leave, Files, W, ChunkSet, Size,
      ExpectedChunks
<1>a. /\ seg \in {"off", "running", "ok", "failed"}
      /\ gpu \in {"pollPrep", "pollDecoded", "select", "drain", "predict", "send", "ok", "failed"}
      /\ prep \in [Preps -> {"recv", "prep", "send", "ok", "failed"}]
  BY DEF BatchInv, FrontTypes, BackTypes
<1>b. /\ outcome = "none" /\ main \in {"joinSeg", "joinGpu", "joinPreps"}
      /\ main \in {"joinGpu", "joinPreps"} => seg = "ok"
      /\ main = "joinPreps" => gpu = "ok"
  BY DEF Join, BatchInv, JoinInv
<1>1. FrontTypes'
  BY <1>0 DEF Join, segVars, prepVars, gpuVars, Leave, BatchInv, FrontTypes
<1>2. BackTypes'
  BY <1>0 DEF Join, segVars, prepVars, gpuVars, Leave, BatchInv, BackTypes
<1>3. SegInv'
  BY <1>0 DEF Join, segVars, prepVars, gpuVars, Leave, BatchInv, SegInv
<1>4. HoldInv'
  BY <1>0 DEF Join, segVars, prepVars, gpuVars, Leave, BatchInv, HoldInv
<1>5. OffInv'
  BY <1>0 DEF Join, segVars, prepVars, gpuVars, Leave, BatchInv, OffInv
<1>6. FaultInv'
  <2>1. UNCHANGED <<seg, gpu, prep, faults>>
    BY DEF Join, segVars, prepVars, gpuVars
  <2>2. outcome' = "Err" =>
          seg = "failed" \/ gpu = "failed" \/ \E w \in Preps : prep[w] = "failed"
    BY <1>b DEF Join, Leave
  <2> QED BY <2>1, <2>2, <1>b DEF BatchInv, FaultInv
<1>7. EndInv'
  BY <1>0 DEF Join, segVars, prepVars, gpuVars, Leave, BatchInv, EndInv, GpuGone,
      PrepsGone, SegGone
<1>8. JoinInv'
  <2>1. UNCHANGED <<seg, gpu, prep>>
    BY DEF Join, segVars, prepVars, gpuVars
  <2>2. CASE main = "joinSeg"
    BY <2>1, <2>2, <1>a, <1>b DEF Join, Leave, SegGone, JoinInv
  <2>3. CASE main = "joinGpu"
    BY <2>1, <2>3, <1>a, <1>b DEF Join, Leave, GpuGone, JoinInv
  <2>4. CASE main = "joinPreps"
    <3>1. PrepsGone /\ main' = "leave"
          /\ outcome' = IF \E w \in Preps : prep[w] = "failed" THEN "Err" ELSE "Ok"
      BY <2>4 DEF Join, Leave
    <3>2. outcome' = "Ok" => \A w \in Preps : prep[w] = "ok"
      BY <3>1, <1>a DEF PrepsGone
    <3> QED BY <2>1, <2>4, <3>1, <3>2, <1>b DEF JoinInv
  <2> QED BY <2>2, <2>3, <2>4, <1>b
<1>9. CountInv'
  BY <1>0 DEF Join, segVars, prepVars, gpuVars, Leave, BatchInv, CountInv, InFlight,
      Sent
<1>10. AccountInv'
  BY <1>0 DEF Join, segVars, prepVars, gpuVars, Leave, BatchInv, AccountInv, SentUpTo,
      Accounted, InTransit
<1>11. ResultInv'
  BY <1>0 DEF Join, segVars, prepVars, gpuVars, Leave, BatchInv, ResultInv
<1> QED BY <1>1, <1>2, <1>3, <1>4, <1>5, <1>6, <1>7, <1>8, <1>9, <1>10, <1>11 DEF
    BatchInv

(* The scope ends.                                                         *)
LEMMA ReturnKeeps ==
  ASSUME BatchInv, Return
  PROVE  BatchInv'
<1>0. /\ call' = call /\ W' = W /\ Files' = Files /\ ChunkSet' = ChunkSet
      /\ \A f : Size(f)' = Size(f) /\ ExpectedChunks(f)' = ExpectedChunks(f)
  BY DEF Return, segVars, prepVars, gpuVars, Files, W, ChunkSet, Size, ExpectedChunks
<1>1. FrontTypes'
  BY <1>0 DEF Return, segVars, prepVars, gpuVars, BatchInv, FrontTypes
<1>2. BackTypes'
  BY <1>0 DEF Return, segVars, prepVars, gpuVars, BatchInv, BackTypes
<1>3. SegInv'
  BY <1>0 DEF Return, segVars, prepVars, gpuVars, BatchInv, SegInv
<1>4. HoldInv'
  BY <1>0 DEF Return, segVars, prepVars, gpuVars, BatchInv, HoldInv
<1>5. OffInv'
  BY <1>0 DEF Return, segVars, prepVars, gpuVars, BatchInv, OffInv
<1>6. FaultInv'
  BY <1>0 DEF Return, segVars, prepVars, gpuVars, BatchInv, FaultInv
<1>7. EndInv'
  BY <1>0 DEF Return, segVars, prepVars, gpuVars, BatchInv, EndInv, GpuGone, PrepsGone,
      SegGone
<1>8. JoinInv'
  BY <1>0 DEF Return, segVars, prepVars, gpuVars, BatchInv, JoinInv
<1>9. CountInv'
  BY <1>0 DEF Return, segVars, prepVars, gpuVars, BatchInv, CountInv, InFlight, Sent
<1>10. AccountInv'
  BY <1>0 DEF Return, segVars, prepVars, gpuVars, BatchInv, AccountInv, SentUpTo,
      Accounted, InTransit
<1>11. ResultInv'
  BY <1>0 DEF Return, segVars, prepVars, gpuVars, BatchInv, ResultInv
<1> QED BY <1>1, <1>2, <1>3, <1>4, <1>5, <1>6, <1>7, <1>8, <1>9, <1>10, <1>11 DEF
    BatchInv

(* The invariant holds throughout.                                         *)
LEMMA Invariance == Spec => []BatchInv
<1>1. ASSUME BatchInv, [Next]_vars PROVE BatchInv'
  <2>1. CASE SegSend
    BY <1>1, <2>1, SegSendKeeps
  <2>2. CASE SegEnd
    BY <1>1, <2>2, SegEndKeeps
  <2>3. CASE SegFail
    BY <1>1, <2>3, SegFailKeeps
  <2>4. ASSUME NEW w \in Preps, PrepNext(w) PROVE BatchInv'
    BY <1>1, <2>4, PrepRecvKeeps, PrepEndKeeps, PrepDoneKeeps, PrepSendKeeps DEF PrepNext
  <2>5. CASE GpuNext
    BY <1>1, <2>5, GpuNextPreparedKeeps, GpuPredictKeeps, GpuSendKeeps DEF GpuNext
  <2>6. CASE Start \/ Collect \/ CollectFail
    BY <1>1, <2>6, StartKeeps, CollectKeeps, CollectFailKeeps
  <2>7. CASE CollectEnd \/ Join \/ Return
    BY <1>1, <2>7, CollectEndKeeps, JoinKeeps, ReturnKeeps
  <2>8. CASE UNCHANGED vars
    BY <1>1, <2>8, UnchangedKeeps
  <2> QED BY <1>1, <2>1, <2>2, <2>3, <2>4, <2>5, <2>6, <2>7, <2>8
         DEF Next, SegNext, MainNext, Returned
<1> QED BY <1>1, InitInv, PTL DEF Spec

(* The outcome tells of every failure and of no other, and a call that     *)
(* succeeds gives each file its own windows, all of them, in order, for    *)
(* any files, capacities and workers.                                      *)
THEOREM BatchOutcomeTruthful == Spec => []OutcomeTruthful
<1>1. ASSUME BatchInv PROVE OutcomeTruthful
  <2>1. outcome = "Err" => faults # {}
    BY <1>1 DEF BatchInv, FaultInv
  <2>2. seg = "off" => faults = {}
    BY <1>1 DEF BatchInv, FaultInv, OffInv
  <2>3. outcome = "Ok" => faults = {}
    <3>1. outcome = "Ok" /\ seg # "off" =>
            seg = "ok" /\ gpu = "ok" /\ \A w \in Preps : prep[w] = "ok"
      BY <1>1 DEF BatchInv, JoinInv
    <3> QED BY <2>2, <3>1, <1>1 DEF BatchInv, FaultInv
  <2>4. outcome = "Declined" => faults = {}
    BY <2>2, <1>1 DEF BatchInv, JoinInv
  <2>5. main \in {"leave", "returned"} => outcome \in {"Declined", "Ok", "Err"}
    BY <1>1 DEF BatchInv, JoinInv, BackTypes
  <2>6. ASSUME outcome = "Ok", NEW f \in Files
        PROVE  results[f] = [i \in 1 .. Size(f) |-> Window(f, i - 1)]
    <3>1. seg # "off" /\ faults = {}
      BY <1>1, <2>3, <2>6 DEF BatchInv, OffInv
    <3>2. seg = "ok" /\ gpu = "ok" /\ (\A w \in Preps : prep[w] = "ok") /\ main # "collect"
      BY <1>1, <2>6, <3>1 DEF BatchInv, JoinInv
    <3>3. main # "start"
      BY <1>1, <3>1 DEF BatchInv, OffInv
    <3>4. decoded = <<>> /\ prepared = <<>> /\ embedded = <<>>
      BY <1>1, <3>1, <3>2, <3>3, PrepsAssumption DEF BatchInv, EndInv, GpuGone
    <3>5. gpuHolds = Nothing /\ \A w \in Preps : prepHolds[w] = Nothing
      BY <1>1, <3>2 DEF BatchInv, HoldInv
    <3>6. call \in Calls /\ next.file \in 1 .. Len(call.files) + 1
      BY <1>1 DEF BatchInv, FrontTypes
    <3>7. InFlight(f) = 0
      <4>1. Count(<<>>, f) = 0 /\ Held(prepHolds, f) = 0 /\ One(gpuHolds, f) = 0
        BY <3>5, <3>6, NothingOfFile, NothingCounted
      <4> QED BY <4>1, <3>4 DEF InFlight
    <3>8. f < next.file
      <4>1. next.file \notin Files
        BY <1>1, <3>2 DEF BatchInv, SegInv
      <4> QED BY <4>1, <3>6, CallSizes
    <3>9. Sent(f) = ExpectedChunks(f)
      BY <3>8 DEF Sent
    <3>10. results[f] # <<>>
      <4>1. collected[f].received \in Nat
        BY <1>1 DEF BatchInv, BackTypes
      <4>2. results[f] = <<>> =>
              /\ collected[f].received + InFlight(f) = Sent(f)
              /\ collected[f].received < ExpectedChunks(f)
        BY <1>1, <3>1 DEF BatchInv, CountInv
      <4> QED BY <3>7, <3>9, <4>1, <4>2
    <3> QED BY <1>1, <3>1, <3>10 DEF BatchInv, ResultInv
  <2> QED BY <2>1, <2>2, <2>3, <2>4, <2>5, <2>6 DEF OutcomeTruthful, Size
<1> QED BY <1>1, Invariance, PTL
=============================================================================
