-------------------------- MODULE AlgorithmProofs --------------------------
(***************************************************************************)
(* Theorems about the program's sequential algorithms, for every input:    *)
(* how the samples of a file are cut into windows and the windows into     *)
(* tasks, what the duration filter makes of a speaker's scores, which      *)
(* speakers a frame gets, and which turns they make; and what the loops    *)
(* that extract embeddings hand to the model, batch after batch.  The      *)
(* facts about sequences and about sums are shared by the other proof      *)
(* modules.                                                                *)
(***************************************************************************)
EXTENDS SegmentationSetup, Reconstruction, Clustering, ChunkPreparation,
        SequenceTheorems, FiniteSetTheorems, WellFoundedInduction, TLAPS

(* Integer division leaves a remainder below the divisor.                  *)
LEMMA DivBounds ==
  ASSUME NEW x \in Nat, NEW b \in Nat \ {0}
  PROVE  /\ x \div b \in Nat
         /\ (x \div b) * b <= x
         /\ x < (x \div b) * b + b
<1>1. x \div b \in Nat
  BY SMT
<1>2. (x \div b) * b <= x
  BY SMT
<1>3. x < (x \div b) * b + b
  BY SMT
<1> QED BY <1>1, <1>2, <1>3

LEMMA TimesMonotone ==
  ASSUME NEW a \in Nat, NEW b \in Nat, NEW c \in Nat, a <= b
  PROVE  a * c <= b * c
  BY SMT

LEMMA Distribute ==
  ASSUME NEW a \in Int, NEW c \in Nat
  PROVE  a * c \in Int /\ (a + 1) * c = a * c + c /\ (a - 1) * c = a * c - c
  BY SMT

(* div_ceil: the batches of that many reach `total`, one fewer do not.     *)
LEMMA CeilDivBounds ==
  ASSUME NEW total \in Nat, NEW size \in Nat \ {0}
  PROVE  /\ CeilDiv(total, size) \in Nat
         /\ total <= CeilDiv(total, size) * size
         /\ CeilDiv(total, size) * size < total + size
         /\ CeilDiv(total, size) = 0 <=> total = 0
  <1> DEFINE x == total + size - 1
             n == x \div size
  <1>1. x \in Nat /\ n \in Nat /\ n * size <= x /\ x < n * size + size
    BY DivBounds
  <1>2. n * size \in Nat
    BY <1>1
  <1> HIDE DEF n
  <1>3. total <= n * size /\ n * size < total + size
    BY <1>1, <1>2
  <1>4. n = 0 => n * size = 0
    OBVIOUS
  <1>5. n # 0 => n * size >= size
    BY <1>1, TimesMonotone
  <1>6. n = 0 <=> total = 0
    BY <1>3, <1>4, <1>5, <1>2
  <1>7. CeilDiv(total, size) = n
    BY DEF CeilDiv, n
  <1> QED
    BY <1>1, <1>3, <1>6, <1>7

(* Batches of one size starting at `from` cover from .. total - 1 with     *)
(* consecutive non-empty ranges.                                           *)
LEMMA Batches ==
  ASSUME NEW total \in Nat, NEW size \in Nat \ {0}, NEW from \in 0 .. total,
         NEW i \in 0 .. CeilDiv(total - from, size) - 1
  PROVE  LET n == CeilDiv(total - from, size)
             task(j) == Task(from + j * size, size, total)
         IN  /\ NonEmpty(task(i), total)
             /\ i = n - 1 => task(i).end = total
             /\ i < n - 1 => task(i).end = task(i + 1).start
  <1> DEFINE n == CeilDiv(total - from, size)
  <1>1. /\ n \in Nat /\ total - from <= n * size /\ n * size < total - from + size
    BY CeilDivBounds
  <1> HIDE DEF n
  <1>2. i \in Nat /\ i + 1 <= n
    BY <1>1 DEF n
  <1>3. i * size \in Nat /\ (i + 1) * size = i * size + size
    BY <1>2, Distribute
  <1>4. (i + 1) * size <= n * size
    BY <1>1, <1>2, TimesMonotone
  <1>5. n * size \in Nat
    BY <1>1
  <1>6. i * size < total - from
    BY <1>1, <1>3, <1>4, <1>5
  <1>7. i < n - 1 => (i + 1) * size < total - from
    <2>1. ASSUME i + 1 <= n - 1
          PROVE  (i + 1) * size < total - from
      <3>1. (i + 1) * size <= (n - 1) * size
        BY <1>1, <1>2, <2>1, TimesMonotone
      <3>2. (n - 1) * size = n * size - size
        BY <1>1, Distribute
      <3> QED
        BY <3>1, <3>2, <1>1, <1>3, <1>5
    <2> QED
      BY <2>1, <1>1, <1>2
  <1>8. i = n - 1 => i * size + size >= total - from
    BY <1>1, <1>2, <1>3
  <1> QED
    BY <1>1, <1>2, <1>3, <1>6, <1>7, <1>8 DEF Task, Least, n, NonEmpty

(* Every window of a file is in exactly one task, for every number of      *)
(* windows and every batch size.                                           *)
THEOREM UniformPartition ==
  ASSUME NEW total \in Nat, NEW size \in Nat \ {0}
  PROVE  Partitions(UniformTasks(total, size), CeilDiv(total, size), total)
  <1> DEFINE n == CeilDiv(total, size)
             tasks == UniformTasks(total, size)
  <1>1. n \in Nat /\ (n = 0 <=> total = 0)
    BY CeilDivBounds
  <1>2. DOMAIN tasks = 0 .. n - 1
    BY DEF UniformTasks
  <1>3. \A i \in 0 .. n - 1 : tasks[i] = Task(0 + i * size, size, total)
    BY <1>1, Distribute DEF UniformTasks
  <1>4. n = CeilDiv(total - 0, size)
    OBVIOUS
  <1>5. \A i \in 0 .. n - 1 :
          /\ NonEmpty(tasks[i], total)
          /\ i = n - 1 => tasks[i].end = total
          /\ i < n - 1 => tasks[i].end = tasks[i + 1].start
    <2> TAKE i \in 0 .. n - 1
    <2>0. 0 \in 0 .. total /\ i \in 0 .. CeilDiv(total - 0, size) - 1
      BY <1>4
    <2> DEFINE c == CeilDiv(total - 0, size)
    <2>1. /\ NonEmpty(Task(0 + i * size, size, total), total)
          /\ i = c - 1 => Task(0 + i * size, size, total).end = total
          /\ i < c - 1 => Task(0 + i * size, size, total).end
                            = Task(0 + (i + 1) * size, size, total).start
      BY <2>0, Batches, Zenon
    <2>2. c = n
      BY <1>4
    <2> HIDE DEF c, n, tasks
    <2>3. i < n - 1 => i + 1 \in 0 .. n - 1
      BY <1>1
    <2> QED
      BY <1>3, <2>1, <2>2, <2>3
  <1>6. n > 0 => tasks[0].start = 0
    <2>1. Task(0 + 0 * size, size, total).start = 0
      BY DEF Task
    <2> HIDE DEF n, tasks
    <2>2. n > 0 => 0 \in 0 .. n - 1
      BY <1>1
    <2> QED
      BY <1>3, <2>1, <2>2
  <1> HIDE DEF n, tasks
  <1>7. \A i \in 1 .. n - 1 : tasks[i].start = tasks[i - 1].end
    <2> TAKE i \in 1 .. n - 1
    <2>1. i - 1 \in 0 .. n - 1 /\ i - 1 < n - 1 /\ (i - 1) + 1 = i
      BY <1>1
    <2> QED
      BY <1>5, <2>1
  <1>8. n > 0 => n - 1 \in 0 .. n - 1
    BY <1>1
  <1>9. Partitions(tasks, n, total)
    BY <1>1, <1>2, <1>5, <1>6, <1>7, <1>8 DEF Partitions
  <1> QED
    BY <1>9 DEF n, tasks

(* The small batches of a warm start end where the large ones begin.       *)
LEMMA SmallBatches ==
  ASSUME NEW total \in Nat, NEW warm \in Nat, NEW small \in Nat \ {0}
  PROVE  LET n == SmallTasks(total, warm, small)
             from == LargeFrom(total, warm, small)
             task(j) == Task(j * small, small, total)
         IN  /\ n \in Nat
             /\ from \in 0 .. total
             /\ n = 0 => from = 0
             /\ total = 0 => n = 0
             /\ \A i \in 0 .. n - 1 :
                  /\ NonEmpty(task(i), total)
                  /\ i = n - 1 => task(i).end = from
                  /\ i < n - 1 => task(i).end = task(i + 1).start
  <1> DEFINE warmEnd == Least(total, warm)
             n == CeilDiv(warmEnd, small)
             from == Least(n * small, total)
             task(j) == Task(j * small, small, total)
  <1>1. warmEnd \in Nat /\ warmEnd <= total
    BY DEF Least
  <1> HIDE DEF warmEnd
  <1>2. /\ n \in Nat /\ warmEnd <= n * small /\ n * small < warmEnd + small
        /\ n = 0 <=> warmEnd = 0
    BY <1>1, CeilDivBounds
  <1> HIDE DEF n
  <1>3. n * small \in Nat /\ from \in 0 .. total
    BY <1>2 DEF Least
  <1>4. n = 0 => from = 0
    BY <1>2 DEF Least
  <1>5. \A i \in 0 .. n - 1 :
          /\ NonEmpty(task(i), total)
          /\ i = n - 1 => task(i).end = from
          /\ i < n - 1 => task(i).end = task(i + 1).start
    <2> TAKE i \in 0 .. n - 1
    <2>1. i \in Nat /\ i + 1 <= n
      BY <1>2
    <2>2. i * small \in Nat /\ (i + 1) * small = i * small + small
      BY <2>1, Distribute
    <2>3. (i + 1) * small <= n * small
      BY <1>2, <2>1, TimesMonotone
    <2>4. i * small < warmEnd
      BY <1>1, <1>2, <1>3, <2>2, <2>3
    <2>5. i < n - 1 => (i + 1) * small < warmEnd
      <3>1. ASSUME i + 1 <= n - 1
            PROVE  (i + 1) * small < warmEnd
        <4>1. (i + 1) * small <= (n - 1) * small
          BY <1>2, <2>1, <3>1, TimesMonotone
        <4>2. (n - 1) * small = n * small - small
          BY <1>2, Distribute
        <4> QED
          BY <4>1, <4>2, <1>1, <1>2, <1>3, <2>2
      <3> QED
        BY <3>1, <1>2, <2>1
    <2>6. i = n - 1 => i * small + small = n * small
      BY <1>2, <2>1, <2>2
    <2> QED
      BY <1>1, <1>2, <1>3, <2>1, <2>2, <2>4, <2>5, <2>6 DEF Task, Least, NonEmpty
  <1> QED
    BY <1>1, <1>2, <1>3, <1>4, <1>5 DEF SmallTasks, LargeFrom, warmEnd, n

(* The same for a warm start, whatever its threshold and batch sizes.      *)
THEOREM WarmStartPartition ==
  ASSUME NEW total \in Nat, NEW warm \in Nat,
         NEW small \in Nat \ {0}, NEW large \in Nat \ {0}
  PROVE  Partitions(WarmStartTasks(total, warm, small, large),
                    SmallTasks(total, warm, small)
                      + CeilDiv(total - LargeFrom(total, warm, small), large),
                    total)
  <1> DEFINE n == SmallTasks(total, warm, small)
             from == LargeFrom(total, warm, small)
             m == CeilDiv(total - from, large)
             first(i) == Task(i * small, small, total)
             later(i) == Task(from + i * large, large, total)
             tasks == WarmStartTasks(total, warm, small, large)
  <1>1. /\ n \in Nat
        /\ from \in 0 .. total
        /\ n = 0 => from = 0
        /\ total = 0 => n = 0
        /\ \A i \in 0 .. n - 1 :
             /\ NonEmpty(first(i), total)
             /\ i = n - 1 => first(i).end = from
             /\ i < n - 1 => first(i).end = first(i + 1).start
    BY SmallBatches
  <1>2. m \in Nat /\ (m = 0 <=> total = from)
    <2>1. total - from \in Nat
      BY <1>1
    <2>2. m \in Nat /\ (m = 0 <=> total - from = 0)
      BY <2>1, CeilDivBounds
    <2> HIDE DEF m, from
    <2> QED
      BY <1>1, <2>2
  <1>3. \A i \in 0 .. m - 1 :
          /\ NonEmpty(later(i), total)
          /\ i = m - 1 => later(i).end = total
          /\ i < m - 1 => later(i).end = later(i + 1).start
    BY <1>1, Batches
  <1>4. later(0).start = from
    BY <1>1 DEF Task
  <1>5. n > 0 => first(0).start = 0
    BY DEF Task
  <1>6. DOMAIN tasks = 0 .. n + m - 1
    BY DEF WarmStartTasks
  <1>7. \A i \in 0 .. n + m - 1 : tasks[i] = IF i < n THEN first(i) ELSE later(i - n)
    BY DEF WarmStartTasks
  <1> HIDE DEF n, from, m, first, later, tasks
  <1>8. \A i \in 0 .. n + m - 1 : NonEmpty(tasks[i], total)
    <2> TAKE i \in 0 .. n + m - 1
    <2>1. CASE i < n
      BY <1>1, <1>2, <1>7, <2>1
    <2>2. CASE i >= n
      <3>1. i - n \in 0 .. m - 1 /\ tasks[i] = later(i - n)
        BY <1>1, <1>2, <1>7, <2>2
      <3> QED
        BY <1>3, <3>1
    <2> QED
      BY <1>1, <1>2, <2>1, <2>2
  <1>9. \A i \in 1 .. n + m - 1 : tasks[i].start = tasks[i - 1].end
    <2> TAKE i \in 1 .. n + m - 1
    <2>1. i \in 0 .. n + m - 1 /\ i - 1 \in 0 .. n + m - 1
      BY <1>1, <1>2
    <2>2. CASE i < n
      <3>1. i - 1 \in 0 .. n - 1 /\ i - 1 < n - 1 /\ (i - 1) + 1 = i /\ i - 1 < n
        BY <1>1, <2>2
      <3> QED
        BY <1>1, <1>7, <2>1, <2>2, <3>1
    <2>3. CASE i = n
      <3>1. i - 1 \in 0 .. n - 1 /\ i - 1 = n - 1 /\ ~(i < n) /\ i - 1 < n /\ i - n = 0
        BY <1>1, <2>3
      <3> QED
        BY <1>1, <1>4, <1>7, <2>1, <3>1
    <2>4. CASE i > n
      <3>1. /\ (i - 1) - n \in 0 .. m - 1 /\ (i - 1) - n < m - 1
            /\ ((i - 1) - n) + 1 = i - n
            /\ ~(i < n) /\ ~(i - 1 < n)
        BY <1>1, <1>2, <2>4
      <3> QED
        BY <1>3, <1>7, <2>1, <3>1
    <2> QED
      BY <1>1, <1>2, <2>2, <2>3, <2>4
  <1>10. n + m > 0 => tasks[0].start = 0 /\ tasks[n + m - 1].end = total
    <2> HAVE n + m > 0
    <2>1. 0 \in 0 .. n + m - 1 /\ n + m - 1 \in 0 .. n + m - 1
      BY <1>1, <1>2
    <2>2. tasks[0].start = 0
      <3>1. CASE n = 0
        BY <1>1, <1>4, <1>7, <2>1, <3>1
      <3>2. CASE n > 0
        BY <1>5, <1>7, <2>1, <3>2
      <3> QED
        BY <1>1, <3>1, <3>2
    <2>3. tasks[n + m - 1].end = total
      <3>1. CASE m = 0
        <4>1. n + m - 1 = n - 1 /\ n - 1 \in 0 .. n - 1 /\ n - 1 < n
          BY <1>1, <3>1, <2>1
        <4> QED
          BY <1>1, <1>2, <1>7, <2>1, <3>1, <4>1
      <3>2. CASE m > 0
        <4>1. ~(n + m - 1 < n) /\ (n + m - 1) - n = m - 1 /\ m - 1 \in 0 .. m - 1
          BY <1>1, <1>2, <3>2
        <4> QED
          BY <1>3, <1>7, <2>1, <4>1
      <3> QED
        BY <1>2, <3>1, <3>2
    <2> QED
      BY <2>2, <2>3
  <1>11. total = 0 <=> n + m = 0
    <2>1. total = 0 => from = 0 /\ n = 0 /\ m = 0
      BY <1>1, <1>2
    <2>2. n + m = 0 => n = 0 /\ m = 0 /\ from = 0
      BY <1>1, <1>2
    <2> QED
      BY <1>2, <2>1, <2>2
  <1>12. Partitions(tasks, n + m, total)
    <2> DEFINE k == n + m
    <2>0. k - 1 = n + m - 1 /\ k \in Nat
      BY <1>1, <1>2
    <2>1. DOMAIN tasks = 0 .. k - 1
      BY <1>6, <2>0
    <2>2. total = 0 <=> k = 0
      BY <1>11
    <2>3. k > 0 => tasks[0].start = 0 /\ tasks[k - 1].end = total
      BY <1>10, <2>0
    <2>4. \A i \in 0 .. k - 1 : NonEmpty(tasks[i], total)
      BY <1>8, <2>0
    <2>5. \A i \in 1 .. k - 1 : tasks[i].start = tasks[i - 1].end
      BY <1>9, <2>0
    <2> HIDE DEF k
    <2>6. Partitions(tasks, k, total)
      BY <2>1, <2>2, <2>3, <2>4, <2>5 DEF Partitions
    <2> QED
      BY <2>6 DEF k
  <1> QED
    BY <1>12 DEF n, from, m, tasks

(* The ranges of the single-window executor are batches of RangeSize, and  *)
(* there are never more of them than workers, although single.rs asks for  *)
(* both: the minimum with num_workers changes nothing.                     *)
LEMMA RangesFit ==
  ASSUME NEW total \in Nat \ {0}, NEW workers \in Nat \ {0}
  PROVE  /\ RangeSize(total, workers) \in Nat \ {0}
         /\ RangeCount(total, workers) = CeilDiv(total, RangeSize(total, workers))
  <1> DEFINE size == CeilDiv(total, workers)
             m == CeilDiv(total, size)
  <1>1. size \in Nat \ {0} /\ total <= size * workers
    BY CeilDivBounds
  <1> HIDE DEF size
  <1>2. m \in Nat /\ m * size < total + size
    BY <1>1, CeilDivBounds
  <1> HIDE DEF m
  <1>3. size * workers = workers * size /\ workers * size \in Nat /\ m * size \in Nat
    BY <1>1, <1>2
  <1>4. m <= workers
    <2>1. ASSUME workers + 1 <= m
          PROVE  FALSE
      <3>1. (workers + 1) * size <= m * size
        BY <1>1, <1>2, <2>1, TimesMonotone
      <3>2. (workers + 1) * size = workers * size + size
        BY <1>1, Distribute
      <3> QED
        BY <1>1, <1>2, <1>3, <3>1, <3>2
    <2> QED
      BY <1>2, <2>1
  <1> QED
    BY <1>1, <1>2, <1>4 DEF RangeSize, RangeCount, Least, size, m

(* Every window has exactly one worker, for every number of windows and of *)
(* workers.                                                                *)
THEOREM RangesPartition ==
  ASSUME NEW total \in Nat \ {0}, NEW workers \in Nat \ {0}
  PROVE  Partitions(WorkerRanges(total, workers), RangeCount(total, workers), total)
  <1>1. WorkerRanges(total, workers) = UniformTasks(total, RangeSize(total, workers))
    BY RangesFit DEF WorkerRanges, UniformTasks
  <1> QED
    BY <1>1, RangesFit, UniformPartition

-----------------------------------------------------------------------------
LEMMA AppendFacts ==
  ASSUME NEW S, NEW q \in Seq(S), NEW x \in S
  PROVE  /\ Append(q, x) \in Seq(S)
         /\ Len(Append(q, x)) = Len(q) + 1
         /\ \A i \in 1 .. Len(q) : Append(q, x)[i] = q[i]
         /\ Append(q, x)[Len(q) + 1] = x
  BY AppendProperties

LEMMA TailFacts ==
  ASSUME NEW S, NEW q \in Seq(S), q # <<>>
  PROVE  /\ Len(q) \in Nat /\ Len(q) >= 1
         /\ Head(q) \in S
         /\ Head(q) = q[1]
         /\ Tail(q) \in Seq(S)
         /\ Len(Tail(q)) = Len(q) - 1
         /\ \A i \in 1 .. Len(q) - 1 : Tail(q)[i] = q[i + 1]
  BY HeadTailProperties, EmptySeq

LEMMA EmptyFacts ==
  ASSUME NEW S
  PROVE  <<>> \in Seq(S) /\ Len(<<>>) = 0
  BY EmptySeq
-----------------------------------------------------------------------------
(* Induction over the natural numbers, stated with a set so that the       *)
(* provers can use it: a set of numbers has a least element, because among *)
(* the intervals 0 .. k there is a smallest one.                           *)
LEMMA LeastElement ==
  ASSUME NEW T \in SUBSET Nat, T # {}
  PROVE  \E x \in T : \A y \in T : x <= y
  <1>1. PICK n \in T : TRUE
    OBVIOUS
  <1> DEFINE S == 0 .. n
             F == {U \in SUBSET S : \E k \in T : U = 0 .. k}
  <1>2. IsWellFoundedOn(StrictSubsetOrdering(S), FiniteSubsetsOf(S))
    BY FS_StrictSubsetOrderingWellFounded
  <1>3. F \subseteq FiniteSubsetsOf(S) /\ F # {}
    <2>1. IsFiniteSet(S)
      BY FS_Interval
    <2>2. FiniteSubsetsOf(S) = SUBSET S
      BY <2>1, FS_FiniteSubsetsOfFinite
    <2> QED
      BY <2>2
  <1>4. PICK U \in F : \A V \in F : ~(<<V, U>> \in StrictSubsetOrdering(S))
    <2> HIDE DEF S, F
    <2> QED
      BY <1>2, <1>3, WFMin
  <1>5. PICK x \in T : U = 0 .. x
    OBVIOUS
  <1>6. ASSUME NEW y \in T, y < x PROVE FALSE
    <2>1. 0 .. y \in F /\ 0 .. y \subseteq U /\ 0 .. y # U
      BY <1>5, <1>6
    <2>2. <<0 .. y, U>> \in StrictSubsetOrdering(S)
      BY <2>1 DEF StrictSubsetOrdering
    <2> QED
      BY <1>4, <2>1, <2>2
  <1> QED
    BY <1>6

LEMMA NatSetInduction ==
  ASSUME NEW S, 0 \in S, \A n \in Nat : n \in S => n + 1 \in S
  PROVE  Nat \subseteq S
  <1> SUFFICES ASSUME Nat \ S # {} PROVE FALSE
    OBVIOUS
  <1>1. PICK x \in Nat \ S : \A y \in Nat \ S : x <= y
    BY LeastElement
  <1>2. x # 0 /\ x - 1 \in Nat
    BY <1>1
  <1>3. x - 1 \in S
    BY <1>1, <1>2
  <1> QED
    BY <1>2, <1>3
-----------------------------------------------------------------------------
(* The ceiling is the only number of batches that is just enough.          *)
LEMMA CeilDivUnique ==
  ASSUME NEW x \in Nat, NEW b \in Nat \ {0}, NEW n \in Nat, x <= n * b, n * b < x + b
  PROVE  CeilDiv(x, b) = n
  <1>1. PICK m \in Nat : m = CeilDiv(x, b)
    BY CeilDivBounds
  <1>2. x <= m * b /\ m * b < x + b
    BY <1>1, CeilDivBounds
  <1>3. /\ m * b \in Nat /\ (m + 1) * b = m * b + b
        /\ n * b \in Nat /\ (n + 1) * b = n * b + b
    BY Distribute
  <1>4. ASSUME m + 1 <= n PROVE FALSE
    <2>1. (m + 1) * b <= n * b
      BY <1>4, TimesMonotone
    <2> QED
      BY <1>2, <1>3, <2>1
  <1>5. ASSUME n + 1 <= m PROVE FALSE
    <2>1. (n + 1) * b <= m * b
      BY <1>5, TimesMonotone
    <2> QED
      BY <1>2, <1>3, <2>1
  <1>6. m = n
    BY <1>4, <1>5
  <1> QED
    BY <1>1, <1>6

(* One batch, then the batches of the rest.                                *)
LEMMA CeilDivStep ==
  ASSUME NEW x \in Nat \ {0}, NEW b \in Nat \ {0}, NEW y \in Nat,
         y = IF x <= b THEN 0 ELSE x - b
  PROVE  CeilDiv(y, b) \in Nat /\ CeilDiv(x, b) = CeilDiv(y, b) + 1
  <1>1. PICK m \in Nat : m = CeilDiv(y, b)
    BY CeilDivBounds
  <1>2. y <= m * b /\ m * b < y + b /\ (m = 0 <=> y = 0)
    BY <1>1, CeilDivBounds
  <1>3. m * b \in Nat /\ (m + 1) * b = m * b + b /\ (m = 0 => m * b = 0)
    BY Distribute
  <1>4. x <= (m + 1) * b /\ (m + 1) * b < x + b
    BY <1>2, <1>3
  <1>5. m + 1 \in Nat
    OBVIOUS
  <1>6. CeilDiv(x, b) = m + 1
    BY <1>4, <1>5, CeilDivUnique
  <1> QED
    BY <1>1, <1>6

(* A concatenation, element by element.                                    *)
IsConcat(a, b, m, n) ==
  /\ Len(a \o b) = m + n
  /\ a \o b = [i \in 1 .. m + n |-> IF i <= m THEN a[i] ELSE b[i - m]]

LEMMA ConcatFunction ==
  ASSUME NEW S, NEW a \in Seq(S), NEW b \in Seq(S), NEW m \in Nat, NEW n \in Nat,
         Len(a) = m, Len(b) = n
  PROVE  a \o b \in Seq(S) /\ IsConcat(a, b, m, n)
  <1>1. a \o b \in Seq(S)
    BY ConcatProperties
  <1>2. Len(a \o b) = Len(a) + Len(b)
    BY ConcatProperties
  <1>3. \A i \in 1 .. Len(a) + Len(b) :
          (a \o b)[i] = IF i <= Len(a) THEN a[i] ELSE b[i - Len(a)]
    BY ConcatProperties
  <1>4. PICK c : c = a \o b
    OBVIOUS
  <1>5. c \in Seq(S) /\ Len(c) = m + n
    BY <1>1, <1>2, <1>4
  <1>6. \A i \in 1 .. m + n : c[i] = IF i <= m THEN a[i] ELSE b[i - m]
    BY <1>3, <1>4
  <1>7. c = [i \in 1 .. m + n |-> c[i]]
    BY <1>5
  <1>8. c = [i \in 1 .. m + n |-> IF i <= m THEN a[i] ELSE b[i - m]]
    BY <1>6, <1>7
  <1> QED
    BY <1>4, <1>5, <1>8 DEF IsConcat

Associates(a, b, c) == (a \o b) \o c = a \o (b \o c)

LEMMA ListsAssociate ==
  ASSUME NEW S, NEW a \in Seq(S), NEW b \in Seq(S), NEW c \in Seq(S)
  PROVE  Associates(a, b, c)
  BY ConcatAssociative DEF Associates

LEMMA SameElements ==
  ASSUME NEW S, NEW a \in Seq(S), NEW b \in Seq(S), NEW n \in Nat,
         Len(a) = n, Len(b) = n, \A i \in 1 .. n : a[i] = b[i]
  PROVE  a = b
  OBVIOUS

(* Consecutive tasks of one size.                                          *)
TaskSet == [start : Int, end : Int]

Stretch(first, count, size, total) ==
  [i \in 1 .. count |-> Task(first + (i - 1) * size, size, total)]

LEMMA TaskType ==
  ASSUME NEW first \in Int, NEW size \in Int, NEW total \in Int
  PROVE  Task(first, size, total) \in TaskSet
  BY DEF Task, TaskSet, Least

IsStretch(list, first, count, size, total) ==
  /\ list \in Seq(TaskSet) /\ Len(list) = count
  /\ \A i \in 1 .. count : list[i] = Task(first + (i - 1) * size, size, total)

LEMMA StretchFacts ==
  ASSUME NEW first \in Int, NEW count \in Nat, NEW size \in Nat, NEW total \in Int
  PROVE  IsStretch(Stretch(first, count, size, total), first, count, size, total)
  <1>1. \A i \in 1 .. count : Task(first + (i - 1) * size, size, total) \in TaskSet
    <2> TAKE i \in 1 .. count
    <2>1. PICK k \in Nat : k = i - 1
      OBVIOUS
    <2>2. first + k * size \in Int
      OBVIOUS
    <2> QED
      BY <2>1, <2>2, TaskType
  <1>2. Stretch(first, count, size, total) \in [1 .. count -> TaskSet]
    BY <1>1 DEF Stretch
  <1>3. \A i \in 1 .. count :
          Stretch(first, count, size, total)[i] = Task(first + (i - 1) * size, size, total)
    BY DEF Stretch
  <1>4. /\ Stretch(first, count, size, total) \in Seq(TaskSet)
        /\ Len(Stretch(first, count, size, total)) = count
    BY <1>2
  <1> QED
    BY <1>3, <1>4 DEF IsStretch

LEMMA StretchEmpty ==
  ASSUME NEW first, NEW size, NEW total
  PROVE  Stretch(first, 0, size, total) = <<>>
  BY DEF Stretch

(* One task, then the others.                                              *)
Joins(first, more, next, count, size, total) ==
  Stretch(first, more, size, total) =
    <<Task(first, size, total)>> \o Stretch(next, count, size, total)

LEMMA StretchGrows ==
  ASSUME NEW first \in Int, NEW count \in Nat, NEW size \in Nat, NEW total \in Int,
         NEW more \in Nat, more = count + 1, NEW next \in Int, next = first + size
  PROVE  Joins(first, more, next, count, size, total)
  <1> DEFINE head == <<Task(first, size, total)>>
             rest == Stretch(next, count, size, total)
             all == Stretch(first, more, size, total)
  <1>1. head \in Seq(TaskSet) /\ Len(head) = 1 /\ head[1] = Task(first, size, total)
    BY TaskType
  <1>3. /\ rest \in Seq(TaskSet) /\ Len(rest) = count
        /\ \A i \in 1 .. count : rest[i] = Task(next + (i - 1) * size, size, total)
    <2>1. IsStretch(rest, next, count, size, total)
      BY StretchFacts
    <2> HIDE DEF rest
    <2> QED
      BY <2>1 DEF IsStretch
  <1>4. /\ all \in Seq(TaskSet) /\ Len(all) = count + 1
        /\ \A i \in 1 .. count + 1 : all[i] = Task(first + (i - 1) * size, size, total)
    <2>1. IsStretch(all, first, more, size, total)
      BY StretchFacts
    <2> HIDE DEF all
    <2> QED
      BY <2>1 DEF IsStretch
  <1> HIDE DEF head, rest, all
  <1>5. /\ head \o rest \in Seq(TaskSet) /\ Len(head \o rest) = 1 + count
        /\ \A i \in 1 .. 1 + count :
             (head \o rest)[i] = IF i <= 1 THEN head[i] ELSE rest[i - 1]
    <2>0. PICK P : P = TaskSet
      OBVIOUS
    <2>4. PICK l \in Nat : l = 1
      OBVIOUS
    <2>5. head \in Seq(P) /\ rest \in Seq(P) /\ Len(head) = l /\ Len(rest) = count
      BY <1>1, <1>3, <2>0, <2>4
    <2>6. IsConcat(head, rest, l, count)
      BY <2>5, ConcatFunction
    <2>7. head \o rest = [i \in 1 .. l + count |-> IF i <= l THEN head[i] ELSE rest[i - l]]
      BY <2>6 DEF IsConcat
    <2>1. head \o rest \in Seq(TaskSet)
      BY <1>1, <1>3, ConcatFunction
    <2>2. Len(head \o rest) = 1 + count
      BY <2>4, <2>6 DEF IsConcat
    <2>3. \A i \in 1 .. 1 + count :
             (head \o rest)[i] = IF i <= 1 THEN head[i] ELSE rest[i - 1]
      BY <2>4, <2>7
    <2> QED
      BY <2>1, <2>2, <2>3
  <1>6. \A i \in 1 .. count + 1 : all[i] = (head \o rest)[i]
    <2> TAKE i \in 1 .. count + 1
    <2>1. CASE i = 1
      <3>1. first + (1 - 1) * size = first
        OBVIOUS
      <3> QED
        <4>1. 1 \in 1 .. count + 1 /\ 1 \in 1 .. 1 + count
          OBVIOUS
        <4>2. all[1] = Task(first + (1 - 1) * size, size, total)
          BY <1>4, <4>1
        <4>3. (head \o rest)[1] = head[1]
          BY <1>5, <4>1
        <4> QED
          BY <1>1, <2>1, <3>1, <4>2, <4>3
    <2>2. CASE i # 1
      <3>1. i - 1 \in 1 .. count /\ i \in 1 .. 1 + count /\ ~(i <= 1)
        BY <2>2
      <3>2. PICK k \in Nat : k = i - 1
        BY <3>1
      <3>3. first + k * size = next + (k - 1) * size
        BY <3>2, Distribute
      <3>4. rest[k] = Task(next + (k - 1) * size, size, total)
        BY <1>3, <3>1, <3>2
      <3>5. all[i] = Task(first + k * size, size, total)
        BY <1>4, <3>2
      <3>6. (head \o rest)[i] = rest[k]
        BY <1>5, <3>1, <3>2
      <3> QED
        BY <3>3, <3>4, <3>5, <3>6
    <2> QED
      BY <2>1, <2>2
  <1>7. all = head \o rest
    <2>1. count + 1 \in Nat /\ Len(all) = count + 1 /\ Len(head \o rest) = count + 1
      BY <1>4, <1>5
    <2> QED
      BY <1>4, <1>5, <1>6, <2>1, SameElements
  <1> QED
    BY <1>7 DEF Joins, head, rest, all
-----------------------------------------------------------------------------
(* The tasks from window s on: small ones until `warm`, then large ones.   *)
SmallLeft(s, warm, small) == CeilDiv(IF s < warm THEN warm - s ELSE 0, small)

LargeAt(s, total, warm, small) == Least(s + SmallLeft(s, warm, small) * small, total)

TasksFrom(s, total, warm, small, large) ==
  Stretch(s, SmallLeft(s, warm, small), small, total)
    \o Stretch(LargeAt(s, total, warm, small),
               CeilDiv(total - LargeAt(s, total, warm, small), large), large, total)

(* n small tasks from s to f, then m large ones.                           *)
Splits(s, total, warm, small, large, n, m, f) ==
  /\ n = SmallLeft(s, warm, small)
  /\ f = Least(s + n * small, total) /\ f <= total
  /\ m = CeilDiv(total - f, large) /\ (m = 0 <=> total = f)
  /\ TasksFrom(s, total, warm, small, large) =
       Stretch(s, n, small, total) \o Stretch(f, m, large, total)

LEMMA TasksFromFacts ==
  ASSUME NEW total \in Nat, NEW warm \in 0 .. total,
         NEW small \in Nat \ {0}, NEW large \in Nat \ {0}, NEW s \in 0 .. total
  PROVE  \E n, m, f \in Nat : Splits(s, total, warm, small, large, n, m, f)
  <1>1. PICK x \in Nat : x = IF s < warm THEN warm - s ELSE 0
    OBVIOUS
  <1>2. PICK n \in Nat : n = CeilDiv(x, small)
    BY CeilDivBounds
  <1>3. n = SmallLeft(s, warm, small)
    BY <1>1, <1>2 DEF SmallLeft
  <1>4. PICK f \in Nat : f = Least(s + n * small, total) /\ f <= total
    <2>1. n * small \in Nat
      OBVIOUS
    <2> QED
      BY <2>1 DEF Least
  <1>5. f = LargeAt(s, total, warm, small)
    BY <1>3, <1>4 DEF LargeAt
  <1>6. total - f \in Nat
    BY <1>4
  <1>7. PICK m \in Nat : m = CeilDiv(total - f, large) /\ (m = 0 <=> total - f = 0)
    BY <1>6, CeilDivBounds
  <1>8. TasksFrom(s, total, warm, small, large) =
          Stretch(s, n, small, total) \o Stretch(f, m, large, total)
    BY <1>3, <1>5, <1>7 DEF TasksFrom
  <1>9. m = 0 <=> total = f
    BY <1>4, <1>7
  <1>10. Splits(s, total, warm, small, large, n, m, f)
    BY <1>3, <1>4, <1>7, <1>8, <1>9 DEF Splits
  <1> QED
    BY <1>10

LEMMA TasksFromEnd ==
  ASSUME NEW total \in Nat, NEW warm \in 0 .. total,
         NEW small \in Nat \ {0}, NEW large \in Nat \ {0}
  PROVE  TasksFrom(total, total, warm, small, large) = <<>>
  <1>1. PICK n, m, f \in Nat : Splits(total, total, warm, small, large, n, m, f)
    <2>1. total \in 0 .. total
      OBVIOUS
    <2> QED
      BY <2>1, TasksFromFacts, Zenon
  <1>s. /\ n = SmallLeft(total, warm, small)
        /\ f = Least(total + n * small, total)
        /\ m = 0 <=> total = f
        /\ TasksFrom(total, total, warm, small, large) =
             Stretch(total, n, small, total) \o Stretch(f, m, large, total)
    BY <1>1 DEF Splits
  <1>2. n = 0
    <2>1. SmallLeft(total, warm, small) = CeilDiv(0, small)
      BY DEF SmallLeft
    <2> QED
      BY <1>s, <2>1, CeilDivBounds
  <1>3. f = total /\ m = 0
    <2>1. total + 0 * small = total
      OBVIOUS
    <2> QED
      BY <1>s, <1>2, <2>1 DEF Least
  <1>4. <<>> \o <<>> = <<>>
    OBVIOUS
  <1> QED
    BY <1>s, <1>2, <1>3, <1>4, StretchEmpty

(* One task, then those that start where it ends.                          *)
TaskThen(s, task, e, total, warm, small, large) ==
  TasksFrom(s, total, warm, small, large) =
    <<task>> \o TasksFrom(e, total, warm, small, large)

LEMMA TasksFromSmall ==
  ASSUME NEW total \in Nat, NEW warm \in 0 .. total,
         NEW small \in Nat \ {0}, NEW large \in Nat \ {0}, NEW s \in 0 .. total - 1, s < warm,
         NEW e \in 0 .. total, e = Least(s + small, total)
  PROVE  TaskThen(s, Task(s, small, total), e, total, warm, small, large)
  <1>t. /\ s \in 0 .. total /\ s \in Int /\ e \in Int /\ total \in Int
        /\ small \in Nat /\ large \in Nat /\ s + small \in Int
    OBVIOUS
  <1>1. PICK n, m, f \in Nat : Splits(s, total, warm, small, large, n, m, f)
    BY <1>t, TasksFromFacts, Zenon
  <1>2. PICK n2, m2, f2 \in Nat : Splits(e, total, warm, small, large, n2, m2, f2)
    BY <1>t, TasksFromFacts, Zenon
  <1>s. /\ n = SmallLeft(s, warm, small)
        /\ f = Least(s + n * small, total)
        /\ m = CeilDiv(total - f, large)
        /\ TasksFrom(s, total, warm, small, large) =
             Stretch(s, n, small, total) \o Stretch(f, m, large, total)
    BY <1>1 DEF Splits
  <1>e. /\ n2 = SmallLeft(e, warm, small)
        /\ f2 = Least(e + n2 * small, total)
        /\ m2 = CeilDiv(total - f2, large)
        /\ TasksFrom(e, total, warm, small, large) =
             Stretch(e, n2, small, total) \o Stretch(f2, m2, large, total)
    BY <1>2 DEF Splits
  <1>3. PICK x \in Nat \ {0} : x = warm - s
    OBVIOUS
  <1>4. PICK y \in Nat : y = IF e < warm THEN warm - e ELSE 0
    OBVIOUS
  <1>5. y = IF x <= small THEN 0 ELSE x - small
    BY <1>3, <1>4 DEF Least
  <1>6. n = CeilDiv(x, small) /\ n2 = CeilDiv(y, small)
    BY <1>s, <1>e, <1>3, <1>4 DEF SmallLeft
  <1>7. n = n2 + 1
    BY <1>5, <1>6, CeilDivStep
  <1>8. n2 * small \in Nat /\ n * small = n2 * small + small
    BY <1>7, Distribute
  <1>9. f = f2
    <2>1. PICK p \in Nat : p = n2 * small
      BY <1>8
    <2>2. n * small = p + small
      BY <1>8, <2>1
    <2>3. f = Least(s + (p + small), total)
      BY <1>s, <2>2
    <2>4. f2 = Least(e + p, total)
      BY <1>e, <2>1
    <2> QED
      BY <2>3, <2>4 DEF Least
  <1>10. m = m2
    BY <1>s, <1>e, <1>9
  <1>11. Stretch(s + small, n2, small, total) = Stretch(e, n2, small, total)
    <2>1. CASE n2 = 0
      BY <2>1, StretchEmpty
    <2>2. CASE n2 # 0
      <3>1. y # 0
        BY <1>6, <2>2, CeilDivBounds
      <3>2. e = s + small
        BY <1>4, <3>1 DEF Least
      <3> QED
        BY <3>2
    <2> QED
      BY <2>1, <2>2
  <1>12. Stretch(s, n, small, total) =
           <<Task(s, small, total)>> \o Stretch(e, n2, small, total)
    <2>0. PICK next \in Int : next = s + small
      BY <1>t
    <2>1. Joins(s, n, next, n2, small, total)
      BY <1>t, <1>7, <2>0, StretchGrows
    <2> QED
      BY <1>11, <2>0, <2>1 DEF Joins
  <1> DEFINE t == <<Task(s, small, total)>>
             a == Stretch(e, n2, small, total)
             b == Stretch(f, m, large, total)
  <1>13. t \in Seq(TaskSet) /\ a \in Seq(TaskSet) /\ b \in Seq(TaskSet)
    <2>1. Task(s, small, total) \in TaskSet
      BY <1>t, TaskType
    <2>2. a \in Seq(TaskSet)
      <3>1. IsStretch(a, e, n2, small, total)
        BY <1>t, StretchFacts
      <3> HIDE DEF a
      <3> QED
        BY <3>1 DEF IsStretch
    <2>3. b \in Seq(TaskSet)
      <3>1. f \in Int
        OBVIOUS
      <3>2. IsStretch(b, f, m, large, total)
        BY <1>t, <3>1, StretchFacts
      <3> HIDE DEF b
      <3> QED
        BY <3>2 DEF IsStretch
    <2> QED
      BY <2>1, <2>2, <2>3
  <1> HIDE DEF TaskThen, t, a, b
  <1>14. (t \o a) \o b = t \o (a \o b)
    <2>1. Associates(t, a, b)
      BY <1>13, ListsAssociate
    <2> QED
      BY <2>1 DEF Associates
  <1> QED
    BY <1>s, <1>e, <1>9, <1>10, <1>12, <1>14 DEF TaskThen, t, a, b

LEMMA TasksFromLarge ==
  ASSUME NEW total \in Nat, NEW warm \in 0 .. total,
         NEW small \in Nat \ {0}, NEW large \in Nat \ {0}, NEW s \in 0 .. total - 1, ~(s < warm),
         NEW e \in 0 .. total, e = Least(s + large, total)
  PROVE  TaskThen(s, Task(s, large, total), e, total, warm, small, large)
  <1>0. CeilDiv(0, small) = 0
    BY CeilDivBounds
  <1>t. /\ s \in 0 .. total /\ s \in Int /\ e \in Int /\ total \in Int
        /\ small \in Nat /\ large \in Nat /\ s + large \in Int
    OBVIOUS
  <1>1. PICK n, m, f \in Nat : Splits(s, total, warm, small, large, n, m, f)
    BY <1>t, TasksFromFacts, Zenon
  <1>2. PICK n2, m2, f2 \in Nat : Splits(e, total, warm, small, large, n2, m2, f2)
    BY <1>t, TasksFromFacts, Zenon
  <1>s. /\ n = SmallLeft(s, warm, small)
        /\ f = Least(s + n * small, total)
        /\ m = CeilDiv(total - f, large)
        /\ TasksFrom(s, total, warm, small, large) =
             Stretch(s, n, small, total) \o Stretch(f, m, large, total)
    BY <1>1 DEF Splits
  <1>e. /\ n2 = SmallLeft(e, warm, small)
        /\ f2 = Least(e + n2 * small, total)
        /\ m2 = CeilDiv(total - f2, large)
        /\ TasksFrom(e, total, warm, small, large) =
             Stretch(e, n2, small, total) \o Stretch(f2, m2, large, total)
    BY <1>2 DEF Splits
  <1>3. ~(e < warm)
    BY DEF Least
  <1>4. n = 0 /\ n2 = 0
    BY <1>0, <1>s, <1>e, <1>3 DEF SmallLeft
  <1>5. 0 * small = 0
    OBVIOUS
  <1>6. f = s /\ f2 = e
    <2>1. n * small = 0 /\ n2 * small = 0
      BY <1>4, <1>5
    <2>2. f = Least(s, total) /\ f2 = Least(e, total)
      <3>1. s + 0 = s /\ e + 0 = e
        OBVIOUS
      <3> QED
        BY <1>s, <1>e, <2>1, <3>1
    <2> QED
      BY <2>2 DEF Least
  <1>7. PICK x \in Nat \ {0} : x = total - s
    OBVIOUS
  <1>8. PICK y \in Nat : y = total - e
    OBVIOUS
  <1>9. y = IF x <= large THEN 0 ELSE x - large
    BY <1>7, <1>8 DEF Least
  <1>10. m = CeilDiv(x, large) /\ m2 = CeilDiv(y, large)
    BY <1>s, <1>e, <1>6, <1>7, <1>8
  <1>11. m = m2 + 1
    BY <1>9, <1>10, CeilDivStep
  <1>12. Stretch(s + large, m2, large, total) = Stretch(e, m2, large, total)
    <2>1. CASE m2 = 0
      BY <2>1, StretchEmpty
    <2>2. CASE m2 # 0
      <3>1. y # 0
        BY <1>10, <2>2, CeilDivBounds
      <3>2. e = s + large
        BY <1>8, <3>1 DEF Least
      <3> QED
        BY <3>2
    <2> QED
      BY <2>1, <2>2
  <1>13. Stretch(s, m, large, total) =
           <<Task(s, large, total)>> \o Stretch(e, m2, large, total)
    <2>0. PICK next \in Int : next = s + large
      BY <1>t
    <2>1. Joins(s, m, next, m2, large, total)
      BY <1>t, <1>11, <2>0, StretchGrows
    <2> QED
      BY <1>12, <2>0, <2>1 DEF Joins
  <1> DEFINE a == Stretch(s, m, large, total)
             b == Stretch(e, m2, large, total)
  <1>14. a \in Seq(TaskSet) /\ b \in Seq(TaskSet)
    <2>1. IsStretch(a, s, m, large, total)
      BY <1>t, StretchFacts
    <2>2. IsStretch(b, e, m2, large, total)
      BY <1>t, StretchFacts
    <2> HIDE DEF a, b
    <2> QED
      BY <2>1, <2>2 DEF IsStretch
  <1> HIDE DEF a, b
  <1>15. <<>> \o a = a /\ <<>> \o b = b
    BY <1>14, ConcatEmptySeq
  <1>16. TasksFrom(s, total, warm, small, large) = a
    BY <1>s, <1>4, <1>6, <1>15, StretchEmpty DEF a
  <1>17. TasksFrom(e, total, warm, small, large) = b
    BY <1>e, <1>4, <1>6, <1>15, StretchEmpty DEF b
  <1> QED
    BY <1>13, <1>16, <1>17 DEF TaskThen, a, b
-----------------------------------------------------------------------------
LEMMA TasksFromStep ==
  ASSUME NEW total \in Nat, NEW warm \in 0 .. total,
         NEW small \in Nat \ {0}, NEW large \in Nat \ {0}, NEW s \in 0 .. total - 1,
         NEW task, task = Task(s, IF s < warm THEN small ELSE large, total)
  PROVE  /\ task.end \in s + 1 .. total
         /\ TaskThen(s, task, task.end, total, warm, small, large)
  <1>1. CASE s < warm
    <2>1. task.end \in s + 1 .. total /\ task.end = Least(s + small, total)
      BY <1>1 DEF Task, Least
    <2>2. PICK e \in 0 .. total : e = task.end
      BY <2>1
    <2>3. TaskThen(s, Task(s, small, total), e, total, warm, small, large)
      BY <1>1, <2>1, <2>2, TasksFromSmall
    <2> QED
      BY <1>1, <2>1, <2>2, <2>3
  <1>2. CASE ~(s < warm)
    <2>1. task.end \in s + 1 .. total /\ task.end = Least(s + large, total)
      BY <1>2 DEF Task, Least
    <2>2. PICK e \in 0 .. total : e = task.end
      BY <2>1
    <2>3. TaskThen(s, Task(s, large, total), e, total, warm, small, large)
      BY <1>2, <2>1, <2>2, TasksFromLarge
    <2> QED
      BY <1>2, <2>1, <2>2, <2>3
  <1> QED
    BY <1>1, <1>2

(* What the planner's loop computes.                                       *)
LEMMA BuildTasksIs ==
  ASSUME NEW total \in Nat, NEW plan, NEW warm \in 0 .. total,
         plan.small \in Nat \ {0}, plan.large \in Nat \ {0},
         warm = IF plan.warmStart THEN Least(total, plan.warm) ELSE 0
  PROVE  BuildTasks(total, plan) = TasksFrom(0, total, warm, plan.small, plan.large)
  <1> DEFINE task(s) == Task(s, IF s < warm THEN plan.small ELSE plan.large, total)
             from == CHOOSE f : f = [s \in 0 .. total |->
                       IF s >= total THEN <<>> ELSE <<task(s)>> \o f[task(s).end]]
             tasks(s) == TasksFrom(s, total, warm, plan.small, plan.large)
             all == [s \in 0 .. total |-> tasks(s)]
  <1>1. BuildTasks(total, plan) = from[0]
    BY DEF BuildTasks
  <1>2. ASSUME NEW s \in 0 .. total, ~(s >= total)
        PROVE  task(s).end \in s + 1 .. total /\ tasks(s) = <<task(s)>> \o tasks(task(s).end)
    <2>1. s \in 0 .. total - 1
      BY <1>2
    <2>2. PICK small \in Nat \ {0} : small = plan.small
      OBVIOUS
    <2>3. PICK large \in Nat \ {0} : large = plan.large
      OBVIOUS
    <2>4. PICK t : t = Task(s, IF s < warm THEN small ELSE large, total)
      OBVIOUS
    <2>5. t.end \in s + 1 .. total
      BY <2>1, <2>4, TasksFromStep
    <2>6. TaskThen(s, t, t.end, total, warm, small, large)
      BY <2>1, <2>4, TasksFromStep
    <2> QED
      BY <2>2, <2>3, <2>4, <2>5, <2>6 DEF TaskThen
  <1>3. tasks(total) = <<>>
    BY TasksFromEnd
  <1> HIDE DEF task, tasks
  <1>4. all = [s \in 0 .. total |-> IF s >= total THEN <<>> ELSE <<task(s)>> \o all[task(s).end]]
    <2>1. \A s \in 0 .. total :
            tasks(s) = IF s >= total THEN <<>> ELSE <<task(s)>> \o all[task(s).end]
      <3> TAKE s \in 0 .. total
      <3>1. CASE s >= total
        <4>1. s = total
          BY <3>1
        <4> QED
          BY <1>3, <3>1, <4>1
      <3>2. CASE ~(s >= total)
        <4>0. PICK e \in s + 1 .. total : e = task(s).end
          BY <1>2, <3>2
        <4>1. e \in 0 .. total
          BY <4>0
        <4>2. all[task(s).end] = tasks(task(s).end)
          BY <4>0, <4>1
        <4> QED
          BY <1>2, <3>2, <4>2
      <3> QED
        BY <3>1, <3>2
    <2> QED
      BY <2>1
  <1>5. from = [s \in 0 .. total |-> IF s >= total THEN <<>> ELSE <<task(s)>> \o from[task(s).end]]
    <2> HIDE DEF all
    <2> QED
      BY <1>4
  <1> HIDE DEF from, all
  <1> DEFINE S == {k \in Nat : \A s \in 0 .. total : total - s <= k => from[s] = tasks(s)}
  <1>6. 0 \in S
    <2> SUFFICES ASSUME NEW s \in 0 .. total, total - s <= 0 PROVE from[s] = tasks(s)
      OBVIOUS
    <2>1. s = total
      OBVIOUS
    <2> QED
      BY <1>3, <1>5, <2>1
  <1>7. \A k \in Nat : k \in S => k + 1 \in S
    <2> SUFFICES ASSUME NEW k \in Nat, k \in S, NEW s \in 0 .. total, total - s <= k + 1
                 PROVE  from[s] = tasks(s)
      OBVIOUS
    <2>1. CASE s >= total
      <3>1. s = total
        BY <2>1
      <3> QED
        BY <1>3, <1>5, <2>1, <3>1
    <2>2. CASE ~(s >= total)
      <3>1. PICK e \in s + 1 .. total : e = task(s).end
        BY <1>2, <2>2
      <3>2. e \in 0 .. total /\ total - e <= k
        BY <3>1
      <3>3. from[e] = tasks(e)
        BY <3>2
      <3>4. from[s] = <<task(s)>> \o from[e]
        BY <1>5, <2>2, <3>1
      <3>5. tasks(s) = <<task(s)>> \o tasks(e)
        BY <1>2, <2>2, <3>1
      <3> QED
        BY <3>3, <3>4, <3>5
    <2> QED
      BY <2>1, <2>2
  <1>8. total \in S
    <2> HIDE DEF S
    <2> QED
      BY <1>6, <1>7, NatSetInduction
  <1>9. from[0] = tasks(0)
    BY <1>8
  <1> QED
    BY <1>1, <1>9 DEF tasks

(* The loops of the planner cut the windows into consecutive ranges of the *)
(* sizes of its closed form, for every number of windows, threshold and    *)
(* batch sizes (BatchTaskPlanner::build).                                  *)
THEOREM BuildFollowsPlan ==
  ASSUME NEW total \in Nat, NEW plan, plan.warmStart \in BOOLEAN, plan.warm \in Nat,
         plan.small \in Nat \ {0}, plan.large \in Nat \ {0}
  PROVE  FollowsPlan(BuildTasks(total, plan), total, plan)
  <1> DEFINE list == BuildTasks(total, plan)
             tasks == [i \in 0 .. Len(list) - 1 |-> list[i + 1]]
             closed == IF plan.warmStart
                       THEN WarmStartTasks(total, plan.warm, plan.small, plan.large)
                       ELSE UniformTasks(total, plan.large)
  <1>1. PICK small \in Nat \ {0} : small = plan.small
    OBVIOUS
  <1>2. PICK large \in Nat \ {0} : large = plan.large
    OBVIOUS
  <1>3. PICK warm \in 0 .. total : warm = IF plan.warmStart THEN Least(total, plan.warm) ELSE 0
    BY DEF Least
  <1>4. PICK n, m, f \in Nat : Splits(0, total, warm, small, large, n, m, f)
    <2>1. 0 \in 0 .. total
      OBVIOUS
    <2> QED
      BY <2>1, TasksFromFacts, Zenon
  <1>5. /\ n = CeilDiv(warm, small)
        /\ f = Least(n * small, total)
        /\ m = CeilDiv(total - f, large)
    <2>1. n = CeilDiv(IF 0 < warm THEN warm - 0 ELSE 0, small)
      BY <1>4 DEF Splits, SmallLeft
    <2>2. (IF 0 < warm THEN warm - 0 ELSE 0) = warm
      OBVIOUS
    <2>3. n * small \in Nat /\ 0 + n * small = n * small
      OBVIOUS
    <2> QED
      BY <1>4, <2>1, <2>2, <2>3 DEF Splits
  <1>6. list = Stretch(0, n, small, total) \o Stretch(f, m, large, total)
    <2>1. list = TasksFrom(0, total, warm, plan.small, plan.large)
      BY <1>3, BuildTasksIs
    <2> QED
      BY <1>1, <1>2, <1>4, <2>1 DEF Splits
  <1> HIDE DEF list
  <1>7. /\ Len(list) = n + m
        /\ list = [i \in 1 .. n + m |-> IF i <= n THEN Stretch(0, n, small, total)[i]
                                        ELSE Stretch(f, m, large, total)[i - n]]
    <2> DEFINE a == Stretch(0, n, small, total)
               b == Stretch(f, m, large, total)
    <2>0. 0 \in Int /\ f \in Int /\ small \in Nat /\ large \in Nat /\ total \in Int
      OBVIOUS
    <2>1. IsStretch(a, 0, n, small, total)
      BY <2>0, StretchFacts
    <2>2. IsStretch(b, f, m, large, total)
      BY <2>0, StretchFacts
    <2> HIDE DEF a, b
    <2>3. a \in Seq(TaskSet) /\ Len(a) = n
      BY <2>1 DEF IsStretch
    <2>4. b \in Seq(TaskSet) /\ Len(b) = m
      BY <2>2 DEF IsStretch
    <2>5. PICK P : a \in Seq(P) /\ b \in Seq(P)
      BY <2>3, <2>4
    <2>6. IsConcat(a, b, n, m)
      BY <2>3, <2>4, <2>5, ConcatFunction
    <2> QED
      BY <1>6, <2>6 DEF IsConcat, a, b
  <1>8. tasks = [i \in 0 .. n + m - 1 |-> IF i < n THEN Task(i * small, small, total)
                                           ELSE Task(f + (i - n) * large, large, total)]
    <2>1. \A i \in 0 .. n + m - 1 :
            list[i + 1] = IF i < n THEN Task(i * small, small, total)
                          ELSE Task(f + (i - n) * large, large, total)
      <3> TAKE i \in 0 .. n + m - 1
      <3>1. i + 1 \in 1 .. n + m /\ (i + 1) - 1 = i
        OBVIOUS
      <3>2. CASE i < n
        <4>1. i + 1 <= n /\ i + 1 \in 1 .. n
          BY <3>2
        <4>2. list[i + 1] = Stretch(0, n, small, total)[i + 1]
          BY <1>7, <3>1, <4>1
        <4>3. Stretch(0, n, small, total)[i + 1] = Task(0 + i * small, small, total)
          BY <3>1, <4>1 DEF Stretch
        <4>4. 0 + i * small = i * small
          OBVIOUS
        <4> QED
          BY <3>2, <4>2, <4>3, <4>4
      <3>3. CASE ~(i < n)
        <4>1. PICK k \in 1 .. m : k = (i + 1) - n
          BY <3>3
        <4>2. list[i + 1] = Stretch(f, m, large, total)[k]
          BY <1>7, <3>1, <3>3, <4>1
        <4>3. Stretch(f, m, large, total)[k] = Task(f + (k - 1) * large, large, total)
          BY <4>1 DEF Stretch
        <4>4. k - 1 = i - n
          BY <4>1
        <4> QED
          BY <3>3, <4>2, <4>3, <4>4
      <3> QED
        BY <3>2, <3>3
    <2>2. Len(list) - 1 = n + m - 1
      BY <1>7
    <2> QED
      BY <2>1, <2>2
  <1> HIDE DEF tasks
  <1>9. Partitions(closed, n + m, total) /\ tasks = closed
    <2>1. CASE plan.warmStart
      <3>1. PICK w \in Nat : w = plan.warm
        OBVIOUS
      <3>2. warm = Least(total, w)
        BY <1>3, <2>1, <3>1
      <3>3. n = SmallTasks(total, w, small) /\ f = LargeFrom(total, w, small)
        BY <1>5, <3>2 DEF SmallTasks, LargeFrom
      <3>4. closed = WarmStartTasks(total, w, small, large)
        BY <1>1, <1>2, <2>1, <3>1
      <3>5. m = CeilDiv(total - LargeFrom(total, w, small), large)
        BY <1>5, <3>3
      <3>6. Partitions(WarmStartTasks(total, w, small, large), n + m, total)
        BY <3>3, <3>5, WarmStartPartition
      <3>7. tasks = WarmStartTasks(total, w, small, large)
        BY <1>8, <3>3, <3>5 DEF WarmStartTasks
      <3> QED
        BY <3>4, <3>6, <3>7
    <2>2. CASE ~plan.warmStart
      <3>1. n = 0
        BY <1>3, <1>5, <2>2, CeilDivBounds
      <3>2. f = 0
        <4>1. 0 * small = 0
          OBVIOUS
        <4> QED
          BY <1>5, <3>1, <4>1 DEF Least
      <3>3. m = CeilDiv(total, large)
        <4>1. total - 0 = total
          OBVIOUS
        <4> QED
          BY <1>5, <3>2, <4>1
      <3>4. closed = UniformTasks(total, large)
        BY <1>2, <2>2
      <3>5. Partitions(UniformTasks(total, large), m, total)
        BY <3>3, UniformPartition
      <3>6. tasks = UniformTasks(total, large)
        <4>1. n + m - 1 = m - 1 /\ n + m = m
          BY <3>1
        <4>2. \A i \in 0 .. m - 1 : ~(i < n) /\ f + (i - n) * large = i * large
          BY <3>1, <3>2
        <4>3. tasks = [i \in 0 .. m - 1 |-> Task(i * large, large, total)]
          BY <1>8, <4>1, <4>2
        <4> QED
          BY <3>3, <4>3 DEF UniformTasks
      <3> QED
        BY <3>1, <3>4, <3>5, <3>6
    <2> QED
      BY <2>1, <2>2
  <1> QED
    BY <1>7, <1>9 DEF FollowsPlan, list, tasks
-----------------------------------------------------------------------------
(* Consecutive offsets, a step apart.                                      *)
Offsets(first, count, step) == [i \in 1 .. count |-> first + (i - 1) * step]

LEMMA OffsetsFacts ==
  ASSUME NEW first \in Int, NEW count \in Nat, NEW step \in Nat
  PROVE  /\ Offsets(first, count, step) \in Seq(Int)
         /\ Len(Offsets(first, count, step)) = count
         /\ \A i \in 1 .. count : Offsets(first, count, step)[i] = first + (i - 1) * step
  <1>1. \A i \in 1 .. count : first + (i - 1) * step \in Int
    OBVIOUS
  <1>2. Offsets(first, count, step) \in [1 .. count -> Int]
    BY <1>1 DEF Offsets
  <1>3. \A i \in 1 .. count : Offsets(first, count, step)[i] = first + (i - 1) * step
    BY DEF Offsets
  <1> QED
    BY <1>2, <1>3

OffsetThen(first, more, next, count, step) ==
  Offsets(first, more, step) = <<first>> \o Offsets(next, count, step)

LEMMA OffsetsGrow ==
  ASSUME NEW first \in Int, NEW count \in Nat, NEW step \in Nat,
         NEW more \in Nat, more = count + 1, NEW next \in Int, next = first + step
  PROVE  OffsetThen(first, more, next, count, step)
  <1> DEFINE head == <<first>>
             rest == Offsets(next, count, step)
             all == Offsets(first, more, step)
  <1>1. head \in Seq(Int) /\ Len(head) = 1 /\ head[1] = first
    OBVIOUS
  <1>2. rest \in Seq(Int) /\ Len(rest) = count
    <2>1. rest \in Seq(Int)
      BY OffsetsFacts
    <2>2. Len(rest) = count
      BY OffsetsFacts
    <2> QED
      BY <2>1, <2>2
  <1>3. \A i \in 1 .. count : rest[i] = next + (i - 1) * step
    BY DEF Offsets
  <1>4. all = [i \in 1 .. more |-> first + (i - 1) * step]
    BY DEF Offsets
  <1> HIDE DEF head, rest, all
  <1>5. PICK l \in Nat : l = 1
    OBVIOUS
  <1>6. IsConcat(head, rest, l, count)
    <2>1. PICK P : head \in Seq(P) /\ rest \in Seq(P)
      BY <1>1, <1>2
    <2> QED
      BY <1>1, <1>2, <1>5, <2>1, ConcatFunction
  <1>7. head \o rest = [i \in 1 .. more |-> IF i <= 1 THEN head[i] ELSE rest[i - 1]]
    <2>1. head \o rest = [i \in 1 .. l + count |-> IF i <= l THEN head[i] ELSE rest[i - l]]
      BY <1>6 DEF IsConcat
    <2>2. l + count = more
      BY <1>5
    <2> QED
      BY <1>5, <2>1, <2>2
  <1>8. \A i \in 1 .. more :
          first + (i - 1) * step = IF i <= 1 THEN head[i] ELSE rest[i - 1]
    <2> TAKE i \in 1 .. more
    <2>1. CASE i = 1
      <3>1. first + (1 - 1) * step = first
        OBVIOUS
      <3> QED
        BY <1>1, <2>1, <3>1
    <2>2. CASE i # 1
      <3>1. PICK k \in 1 .. count : k = i - 1
        BY <2>2
      <3>2. rest[k] = next + (k - 1) * step
        BY <1>3
      <3>3. first + k * step = next + (k - 1) * step
        BY Distribute
      <3>4. ~(i <= 1)
        BY <2>2
      <3> QED
        BY <3>1, <3>2, <3>3, <3>4
    <2> QED
      BY <2>1, <2>2
  <1>9. all = head \o rest
    BY <1>4, <1>7, <1>8
  <1> QED
    BY <1>9 DEF OffsetThen, head, rest, all

(* How many full windows start at o or later.                              *)
FullFrom(o, len, window, step) ==
  CeilDiv(IF o + window <= len THEN len - window - o + 1 ELSE 0, step)

LEMMA FullFromNone ==
  ASSUME NEW len \in Nat, NEW window \in Nat \ {0}, NEW step \in Nat \ {0}, NEW o \in Nat,
         o + window > len
  PROVE  FullFrom(o, len, window, step) = 0
  <1>1. FullFrom(o, len, window, step) = CeilDiv(0, step)
    BY DEF FullFrom
  <1> QED
    BY <1>1, CeilDivBounds

LEMMA FullFromType ==
  ASSUME NEW len \in Nat, NEW window \in Nat \ {0}, NEW step \in Nat \ {0}, NEW o \in Nat
  PROVE  FullFrom(o, len, window, step) \in Nat
  <1>1. PICK x \in Nat : x = IF o + window <= len THEN len - window - o + 1 ELSE 0
    <2>1. o + window <= len => len - window - o + 1 \in Nat
      OBVIOUS
    <2>2. (IF o + window <= len THEN len - window - o + 1 ELSE 0) \in Nat
      BY <2>1
    <2> QED
      BY <2>2
  <1>2. CeilDiv(x, step) \in Nat
    BY CeilDivBounds
  <1> QED
    BY <1>1, <1>2 DEF FullFrom

(* What the loop over the full windows computes.                           *)
LEMMA FullWindowsIs ==
  ASSUME NEW len \in Nat, NEW spec, NEW window \in Nat \ {0}, NEW step \in Nat \ {0},
         window = spec.window, step = spec.step
  PROVE  FullWindows(len, spec) = Offsets(0, FullFrom(0, len, window, step), step)
  <1> DEFINE body(f) == [o \in 0 .. len + step |->
                           IF o + window > len THEN <<>> ELSE <<o>> \o f[o + step]]
             from == CHOOSE f : f = body(f)
             starts(o) == Offsets(o, FullFrom(o, len, window, step), step)
             all == [o \in 0 .. len + step |-> starts(o)]
  <1>1. FullWindows(len, spec) = from[0]
    BY DEF FullWindows
  <1>2. \A o \in 0 .. len + step : o + window > len => starts(o) = <<>>
    <2> TAKE o \in 0 .. len + step
    <2>1. PICK p \in Nat : p = o
      OBVIOUS
    <2>2. ASSUME p + window > len PROVE FullFrom(p, len, window, step) = 0
      BY <2>2, FullFromNone
    <2> QED
      BY <2>1, <2>2 DEF Offsets
  <1>3. \A o \in 0 .. len + step : ~(o + window > len) =>
          o + step \in 0 .. len + step /\ starts(o) = <<o>> \o starts(o + step)
    <2> SUFFICES ASSUME NEW o \in 0 .. len + step, ~(o + window > len)
                 PROVE  o + step \in 0 .. len + step /\ starts(o) = <<o>> \o starts(o + step)
      OBVIOUS
    <2>1. PICK next \in Nat : next = o + step
      OBVIOUS
    <2>2. PICK c \in Nat : c = FullFrom(next, len, window, step)
      BY FullFromType
    <2>3. PICK p \in Nat : p = o
      OBVIOUS
    <2>4. PICK d \in Nat : d = FullFrom(p, len, window, step)
      BY FullFromType
    <2>5. d = c + 1
      <3>1. PICK x \in Nat \ {0} : x = len - window - o + 1
        OBVIOUS
      <3>2. PICK y \in Nat : y = IF x <= step THEN 0 ELSE x - step
        OBVIOUS
      <3>3. d = CeilDiv(x, step)
        BY <2>3, <2>4, <3>1 DEF FullFrom
      <3>4. c = CeilDiv(y, step)
        <4>1. (IF next + window <= len THEN len - window - next + 1 ELSE 0) = y
          BY <2>1, <3>1, <3>2
        <4> QED
          BY <2>2, <4>1 DEF FullFrom
      <3>5. CeilDiv(x, step) = CeilDiv(y, step) + 1
        BY <3>2, CeilDivStep
      <3> QED
        BY <3>3, <3>4, <3>5
    <2>6. p \in Int /\ next \in Int /\ step \in Nat /\ next = p + step
      BY <2>1, <2>3
    <2>7. OffsetThen(p, d, next, c, step)
      BY <2>5, <2>6, OffsetsGrow
    <2>8. starts(o) = <<o>> \o starts(o + step)
      BY <2>1, <2>2, <2>3, <2>4, <2>7 DEF OffsetThen
    <2>9. o + step \in 0 .. len + step
      BY <2>1
    <2> HIDE DEF starts
    <2> QED
      BY <2>8, <2>9
  <1> HIDE DEF starts
  <1>4. all = body(all)
    <2>1. \A o \in 0 .. len + step :
            starts(o) = IF o + window > len THEN <<>> ELSE <<o>> \o all[o + step]
      <3> TAKE o \in 0 .. len + step
      <3>1. CASE o + window > len
        BY <1>2, <3>1
      <3>2. CASE ~(o + window > len)
        <4>1. o + step \in 0 .. len + step
          BY <3>2
        <4>2. all[o + step] = starts(o + step)
          BY <4>1
        <4> QED
          BY <1>3, <3>2, <4>2
      <3> QED
        BY <3>1, <3>2
    <2> QED
      BY <2>1
  <1>5. from = body(from)
    <2> HIDE DEF all
    <2> QED
      BY <1>4
  <1> HIDE DEF from, all
  <1> DEFINE S == {k \in Nat : \A o \in 0 .. len + step : len - o <= k => from[o] = starts(o)}
  <1>6. \A o \in 0 .. len + step :
          from[o] = IF o + window > len THEN <<>> ELSE <<o>> \o from[o + step]
    BY <1>5
  <1>7. 0 \in S
    <2> SUFFICES ASSUME NEW o \in 0 .. len + step, len - o <= 0 PROVE from[o] = starts(o)
      OBVIOUS
    <2>1. o + window > len
      OBVIOUS
    <2> QED
      BY <1>2, <1>6, <2>1
  <1>8. \A k \in Nat : k \in S => k + 1 \in S
    <2> SUFFICES ASSUME NEW k \in Nat, k \in S, NEW o \in 0 .. len + step, len - o <= k + 1
                 PROVE  from[o] = starts(o)
      OBVIOUS
    <2>1. CASE o + window > len
      BY <1>2, <1>6, <2>1
    <2>2. CASE ~(o + window > len)
      <3>1. PICK e \in 0 .. len + step : e = o + step
        BY <2>2
      <3>2. len - e <= k
        BY <3>1
      <3>3. from[e] = starts(e)
        BY <3>2
      <3>4. from[o] = <<o>> \o from[e]
        BY <1>6, <2>2, <3>1
      <3>5. starts(o) = <<o>> \o starts(e)
        BY <1>3, <2>2, <3>1
      <3> QED
        BY <3>3, <3>4, <3>5
    <2> QED
      BY <2>1, <2>2
  <1>9. len \in S
    <2> HIDE DEF S
    <2> QED
      BY <1>7, <1>8, NatSetInduction
  <1>10. from[0] = starts(0)
    <2>1. 0 \in 0 .. len + step /\ len - 0 <= len
      OBVIOUS
    <2> QED
      BY <1>9, <2>1
  <1> QED
    BY <1>1, <1>10 DEF starts
-----------------------------------------------------------------------------
(* No sample below the end of the last step is outside the full windows.   *)
LEMMA OffsetsCover ==
  ASSUME NEW n \in Nat, NEW window \in Nat \ {0}, NEW step \in Nat \ {0}, step <= window,
         NEW s \in Nat, s < n * step
  PROVE  \E i \in 1 .. n : s \in 0 + (i - 1) * step .. 0 + (i - 1) * step + window - 1
  <1>1. PICK k \in Nat : k = s \div step
    BY DivBounds
  <1>2. k * step <= s /\ s < k * step + step
    BY <1>1, DivBounds
  <1>3. k * step \in Nat /\ n * step \in Nat
    OBVIOUS
  <1>4. k + 1 <= n
    <2>1. ASSUME n <= k PROVE FALSE
      <3>1. n * step <= k * step
        BY <2>1, TimesMonotone
      <3> QED
        BY <1>2, <1>3, <3>1
    <2> QED
      BY <2>1
  <1>5. PICK i \in 1 .. n : i = k + 1
    BY <1>4
  <1>6. 0 + (i - 1) * step = k * step
    <2>1. i - 1 = k
      BY <1>5
    <2> QED
      BY <1>3, <2>1
  <1>7. PICK p \in Nat : p = 0 + (i - 1) * step /\ p = k * step
    BY <1>3, <1>6
  <1>8. s \in p .. p + window - 1
    BY <1>2, <1>7
  <1> QED
    BY <1>7, <1>8

(* As many windows are collected as callers count, and together they hold  *)
(* every sample of the file, unless the step skips some: for every length, *)
(* window and step (SegmentationWindows::collect,                          *)
(* segmentation_window_count).                                             *)
THEOREM CollectCoversAudio ==
  ASSUME NEW len \in Nat, NEW spec, spec.window \in Nat \ {0}, spec.step \in Nat \ {0}
  PROVE  CoversAudio(Collect(len, spec), len, spec)
  <1>1. PICK window \in Nat \ {0} : window = spec.window
    OBVIOUS
  <1>2. PICK step \in Nat \ {0} : step = spec.step
    OBVIOUS
  <1>3. PICK n \in Nat : n = FullFrom(0, len, window, step)
    <2>1. 0 \in Nat
      OBVIOUS
    <2> QED
      BY <2>1, FullFromType
  <1>4. PICK offsets : offsets = Offsets(0, n, step)
    OBVIOUS
  <1>5. FullWindows(len, spec) = offsets
    BY <1>1, <1>2, <1>3, <1>4, FullWindowsIs
  <1>6. Len(offsets) = n /\ DOMAIN offsets = 1 .. n
        /\ \A i \in 1 .. n : offsets[i] = 0 + (i - 1) * step
    <2>1. step \in Nat /\ 0 \in Int
      OBVIOUS
    <2>2. Len(Offsets(0, n, step)) = n
      BY <2>1, OffsetsFacts
    <2> QED
      BY <1>4, <2>2 DEF Offsets
  <1>7. PICK next \in Nat : next = n * step
    OBVIOUS
  <1>8. Collect(len, spec) =
          IF len > 0 /\ len < window THEN [offsets |-> <<>>, padded |-> len]
          ELSE [offsets |-> offsets,
                padded |-> IF next < len /\ len > window THEN len - next ELSE 0]
    BY <1>1, <1>2, <1>5, <1>6, <1>7 DEF Collect
  <1>9. n = CeilDiv(IF 0 + window <= len THEN len - window - 0 + 1 ELSE 0, step)
    BY <1>3 DEF FullFrom
  <1>10. SegmentationWindowCount(len, spec) =
           IF len = 0 THEN 0
           ELSE IF len <= window THEN 1
           ELSE ((len - window) \div step + 1)
                  + IF ((len - window) \div step + 1) * step < len THEN 1 ELSE 0
    BY <1>1, <1>2 DEF SegmentationWindowCount
  <1>11. PICK c : c = Collect(len, spec)
    OBVIOUS
  <1>12. ASSUME c.offsets = offsets, step <= window, NEW s \in 0 .. len - 1, s < next
         PROVE  \E i \in DOMAIN c.offsets : s \in c.offsets[i] .. c.offsets[i] + window - 1
    <2>1. PICK i \in 1 .. n : s \in 0 + (i - 1) * step .. 0 + (i - 1) * step + window - 1
      <3>1. s \in Nat /\ s < n * step
        BY <1>7, <1>12
      <3> QED
        BY <1>12, <3>1, OffsetsCover
    <2> QED
      BY <1>6, <1>12, <2>1
  <1>13. CASE len = 0
    <2>1. n = 0
      <3>1. n = CeilDiv(0, step)
        BY <1>9, <1>13
      <3> QED
        BY <3>1, CeilDivBounds
    <2>2. c.padded = 0 /\ c.offsets = offsets
      BY <1>8, <1>11, <1>13
    <2>3. TotalWindows(c) = 0
      BY <1>6, <2>1, <2>2 DEF TotalWindows
    <2>4. \A s \in 0 .. len - 1 : FALSE
      BY <1>13
    <2> QED
      BY <1>1, <1>2, <1>10, <1>11, <1>13, <2>2, <2>3, <2>4 DEF CoversAudio
  <1>14. CASE len > 0 /\ len < window
    <2>1. c.padded = len /\ c.offsets = <<>>
      BY <1>8, <1>11, <1>14
    <2>2. TotalWindows(c) = 1
      BY <1>14, <2>1 DEF TotalWindows
    <2>3. \A s \in 0 .. len - 1 : s >= len - c.padded
      BY <2>1
    <2> QED
      BY <1>1, <1>2, <1>10, <1>11, <1>14, <2>1, <2>2, <2>3 DEF CoversAudio
  <1>15. CASE len = window
    <2>1. n = 1
      <3>1. (IF 0 + window <= len THEN len - window - 0 + 1 ELSE 0) = 1
        BY <1>15
      <3>2. n = CeilDiv(1, step)
        BY <1>9, <3>1
      <3>3. PICK x \in Nat \ {0} : x = 1
        OBVIOUS
      <3>4. PICK y \in Nat : y = 0
        OBVIOUS
      <3>5. CeilDiv(x, step) = CeilDiv(y, step) + 1
        BY <3>3, <3>4, CeilDivStep
      <3>6. CeilDiv(y, step) = 0
        BY <3>4, CeilDivBounds
      <3> QED
        BY <3>2, <3>3, <3>5, <3>6
    <2>2. c.padded = 0 /\ c.offsets = offsets
      BY <1>8, <1>11, <1>15
    <2>3. TotalWindows(c) = 1
      BY <1>6, <2>1, <2>2 DEF TotalWindows
    <2>4. \A s \in 0 .. len - 1 :
            \E i \in DOMAIN c.offsets : s \in c.offsets[i] .. c.offsets[i] + window - 1
      <3> TAKE s \in 0 .. len - 1
      <3>1. 1 \in DOMAIN c.offsets
        BY <1>6, <2>1, <2>2
      <3>2. c.offsets[1] = 0
        <4>1. 0 + (1 - 1) * step = 0
          OBVIOUS
        <4> QED
          BY <1>6, <2>1, <2>2, <4>1
      <3>3. s \in c.offsets[1] .. c.offsets[1] + window - 1
        BY <1>15, <3>2
      <3> QED
        BY <3>1, <3>3
    <2> QED
      BY <1>1, <1>2, <1>10, <1>11, <1>15, <2>2, <2>3, <2>4 DEF CoversAudio
  <1>16. CASE len > window
    <2>1. PICK d \in Nat : d = len - window
      BY <1>16
    <2>2. PICK q \in Nat : q = d \div step
      BY DivBounds
    <2>3. q * step <= d /\ d < q * step + step
      BY <2>2, DivBounds
    <2>4. q * step \in Nat /\ (q + 1) * step = q * step + step
      BY Distribute
    <2>5. n = q + 1
      <3>1. PICK x \in Nat : x = d + 1
        OBVIOUS
      <3>2. n = CeilDiv(x, step)
        <4>1. (IF 0 + window <= len THEN len - window - 0 + 1 ELSE 0) = x
          BY <1>16, <2>1, <3>1
        <4> QED
          BY <1>9, <4>1
      <3>3. PICK m \in Nat : m = q + 1
        OBVIOUS
      <3>4. m * step = q * step + step
        BY <2>4, <3>3
      <3>5. x <= m * step /\ m * step < x + step
        BY <2>3, <2>4, <3>1, <3>4
      <3>6. CeilDiv(x, step) = m
        BY <3>5, CeilDivUnique
      <3> QED
        BY <3>2, <3>3, <3>6
    <2>6. d < next
      BY <1>7, <2>3, <2>4, <2>5
    <2>7. /\ c.offsets = offsets
          /\ c.padded = IF next < len THEN len - next ELSE 0
      BY <1>8, <1>11, <1>16
    <2>8. TotalWindows(c) = n + IF next < len THEN 1 ELSE 0
      BY <1>6, <2>7 DEF TotalWindows
    <2>9. SegmentationWindowCount(len, spec) = n + IF next < len THEN 1 ELSE 0
      <3>1. (len - window) \div step + 1 = n
        BY <2>1, <2>2, <2>5
      <3> QED
        BY <1>7, <1>10, <1>16, <3>1
    <2>10. c.padded <= window
      BY <2>1, <2>6, <2>7
    <2>11. ASSUME step <= window
           PROVE  \A s \in 0 .. len - 1 :
                    \/ s >= len - c.padded
                    \/ \E i \in DOMAIN c.offsets :
                         s \in c.offsets[i] .. c.offsets[i] + window - 1
      <3> TAKE s \in 0 .. len - 1
      <3>1. CASE s < next
        BY <1>12, <2>7, <2>11, <3>1
      <3>2. CASE ~(s < next)
        BY <2>7, <3>2
      <3> QED
        BY <3>1, <3>2
    <2> QED
      BY <1>1, <1>2, <1>11, <2>8, <2>9, <2>10, <2>11 DEF CoversAudio
  <1> QED
    BY <1>13, <1>14, <1>15, <1>16

-----------------------------------------------------------------------------
(* A run holds the frames x .. y - 1 of an activity of n frames.           *)
IsRun(active, target, n, x, y) ==
  /\ x \in 0 .. n - 1 /\ y \in 1 .. n /\ x < y
  /\ \A f \in x .. y - 1 : active[f] = target
  /\ x > 0 => active[x - 1] # target
  /\ y < n => active[y] # target

LEMMA FramesCount ==
  ASSUME NEW n \in Nat, NEW S, NEW a \in [0 .. n - 1 -> S]
  PROVE  FramesOf(a) = n
  <1>1. DOMAIN a = 0 .. n - 1
    OBVIOUS
  <1>2. Cardinality(0 .. n - 1) = n
    <2>1. Cardinality(0 .. n - 1) = IF 0 > n - 1 THEN 0 ELSE (n - 1) - 0 + 1
      BY FS_Interval
    <2> QED
      BY <2>1
  <1> QED
    BY <1>1, <1>2 DEF FramesOf

RunsAre(active, target, n) ==
  \A r : r \in FindRuns(active, target) <=>
           \E x, y \in Nat : r = <<x, y>> /\ IsRun(active, target, n, x, y)

LEMMA RunsFound ==
  ASSUME NEW n \in Nat, NEW a \in [0 .. n - 1 -> BOOLEAN], NEW t \in BOOLEAN
  PROVE  RunsAre(a, t, n)
  <1>1. FramesOf(a) = n
    BY FramesCount
  <1>2. FindRuns(a, t) =
          {run \in {<<x, y>> : x \in Upto(n), y \in 1 .. n} :
             /\ run[1] < run[2] /\ \A f \in Frames(run) : a[f] = t
             /\ run[1] > 0 => a[run[1] - 1] # t
             /\ run[2] < n => a[run[2]] # t}
    BY <1>1 DEF FindRuns
  <1>3. ASSUME NEW r \in FindRuns(a, t)
        PROVE  \E x, y \in Nat : r = <<x, y>> /\ IsRun(a, t, n, x, y)
    <2>1. PICK x \in Upto(n), y \in 1 .. n : r = <<x, y>>
      BY <1>2, <1>3
    <2>2. /\ r[1] < r[2] /\ \A f \in Frames(r) : a[f] = t
          /\ r[1] > 0 => a[r[1] - 1] # t
          /\ r[2] < n => a[r[2]] # t
      BY <1>2, <1>3
    <2>3. r[1] = x /\ r[2] = y /\ x \in 0 .. n - 1
      BY <2>1 DEF Upto
    <2>4. IsRun(a, t, n, x, y)
      BY <2>2, <2>3 DEF IsRun, Frames
    <2> QED
      BY <2>1, <2>3, <2>4
  <1>4. ASSUME NEW x \in Nat, NEW y \in Nat, IsRun(a, t, n, x, y)
        PROVE  <<x, y>> \in FindRuns(a, t)
    <2>1. PICK r : r = <<x, y>>
      OBVIOUS
    <2>2. r[1] = x /\ r[2] = y
      BY <2>1
    <2>3. r \in {<<p, q>> : p \in Upto(n), q \in 1 .. n}
      BY <1>4, <2>1 DEF IsRun, Upto
    <2>4. /\ r[1] < r[2] /\ \A f \in Frames(r) : a[f] = t
          /\ r[1] > 0 => a[r[1] - 1] # t
          /\ r[2] < n => a[r[2]] # t
      BY <1>4, <2>2 DEF IsRun, Frames
    <2> QED
      BY <1>2, <2>1, <2>3, <2>4
  <1> QED
    BY <1>3, <1>4 DEF RunsAre

(* Every frame lies in a run of its value, and only in one.                *)
InRun(active, target, n, f) ==
  \E x, y \in Nat : IsRun(active, target, n, x, y) /\ f \in x .. y - 1

LEMMA RunAround ==
  ASSUME NEW n \in Nat, NEW a \in [0 .. n - 1 -> BOOLEAN], NEW t \in BOOLEAN,
         NEW f \in 0 .. n - 1, a[f] = t
  PROVE  InRun(a, t, n, f)
  <1> DEFINE lows == {x \in 0 .. f : \A g \in x .. f : a[g] = t}
             highs == {y \in f + 1 .. n : y < n => a[y] # t}
  <1>1. lows \in SUBSET Nat /\ lows # {}
    <2>1. f \in lows /\ lows \subseteq 0 .. f
      OBVIOUS
    <2> HIDE DEF lows
    <2> QED
      BY <2>1
  <1>2. highs \in SUBSET Nat /\ highs # {}
    <2>1. n \in highs /\ highs \subseteq f + 1 .. n
      OBVIOUS
    <2> HIDE DEF highs
    <2> QED
      BY <2>1
  <1>3. PICK x \in lows : \A z \in lows : x <= z
    <2> HIDE DEF lows
    <2> QED
      BY <1>1, LeastElement
  <1>4. PICK y \in highs : \A z \in highs : y <= z
    <2> HIDE DEF highs
    <2> QED
      BY <1>2, LeastElement
  <1>5. x \in 0 .. f /\ y \in f + 1 .. n /\ (y < n => a[y] # t) /\ \A g \in x .. f : a[g] = t
    OBVIOUS
  <1>6. \A g \in x .. y - 1 : a[g] = t
    <2> TAKE g \in x .. y - 1
    <2>1. CASE g <= f
      BY <1>5, <2>1
    <2>2. CASE g > f
      <3>1. g \notin highs
        BY <1>4, <1>5
      <3> QED
        BY <1>5, <2>2, <3>1
    <2> QED
      BY <1>5, <2>1, <2>2
  <1>7. x > 0 => a[x - 1] # t
    <2>1. ASSUME x > 0, a[x - 1] = t PROVE FALSE
      <3>1. x - 1 \in lows
        BY <1>5, <2>1
      <3> QED
        BY <1>3, <1>5, <3>1
    <2> QED
      BY <2>1
  <1>8. IsRun(a, t, n, x, y)
    BY <1>5, <1>6, <1>7 DEF IsRun
  <1>9. x \in Nat /\ y \in Nat /\ f \in x .. y - 1
    BY <1>5
  <1> QED
    BY <1>8, <1>9 DEF InRun

SameRun(x, y, p, q) == x = p /\ y = q

LEMMA RunsDisjoint ==
  ASSUME NEW n \in Nat, NEW a, NEW t,
         NEW x \in Nat, NEW y \in Nat, IsRun(a, t, n, x, y),
         NEW p \in Nat, NEW q \in Nat, IsRun(a, t, n, p, q),
         NEW f \in x .. y - 1, f \in p .. q - 1
  PROVE  SameRun(x, y, p, q)
  <1>1. ~(x < p)
    <2> SUFFICES ASSUME x < p PROVE FALSE
      OBVIOUS
    <2>1. p - 1 \in x .. y - 1
      OBVIOUS
    <2> QED
      BY <2>1 DEF IsRun
  <1>2. ~(p < x)
    <2> SUFFICES ASSUME p < x PROVE FALSE
      OBVIOUS
    <2>1. x - 1 \in p .. q - 1
      OBVIOUS
    <2> QED
      BY <2>1 DEF IsRun
  <1>3. ~(y < q)
    <2> SUFFICES ASSUME y < q PROVE FALSE
      OBVIOUS
    <2>1. y \in p .. q - 1 /\ y < n
      BY DEF IsRun
    <2> QED
      BY <2>1 DEF IsRun
  <1>4. ~(q < y)
    <2> SUFFICES ASSUME q < y PROVE FALSE
      OBVIOUS
    <2>1. q \in x .. y - 1 /\ q < n
      BY DEF IsRun
    <2> QED
      BY <2>1 DEF IsRun
  <1> QED
    BY <1>1, <1>2, <1>3, <1>4 DEF SameRun

(* What is filled is inside a run of the set.                              *)
Hit(runs, f) == \E x, y \in Nat : <<x, y>> \in runs /\ f \in x .. y - 1

Fills(filled, active, runs, value, n) ==
  /\ filled \in [0 .. n - 1 -> BOOLEAN]
  /\ \A f \in 0 .. n - 1 : Hit(runs, f) => filled[f] = value
  /\ \A f \in 0 .. n - 1 : ~Hit(runs, f) => filled[f] = active[f]

LEMMA FillFacts ==
  ASSUME NEW n \in Nat, NEW a \in [0 .. n - 1 -> BOOLEAN], NEW v \in BOOLEAN,
         NEW R \in SUBSET (Nat \X Nat)
  PROVE  Fills(FillRuns(a, R, v), a, R, v, n)
  <1>1. ASSUME NEW f PROVE (\E r \in R : f \in Frames(r)) <=> Hit(R, f)
    <2>1. ASSUME NEW r \in R, f \in Frames(r) PROVE Hit(R, f)
      <3>1. PICK x \in Nat, y \in Nat : r = <<x, y>>
        BY <2>1
      <3>2. f \in x .. y - 1
        BY <2>1, <3>1 DEF Frames
      <3> QED
        BY <2>1, <3>1, <3>2 DEF Hit
    <2>2. ASSUME NEW x \in Nat, NEW y \in Nat, <<x, y>> \in R, f \in x .. y - 1
          PROVE  \E r \in R : f \in Frames(r)
      <3>1. f \in Frames(<<x, y>>)
        BY <2>2 DEF Frames
      <3> QED
        BY <2>2, <3>1
    <2> QED
      BY <2>1, <2>2 DEF Hit
  <1>2. FillRuns(a, R, v) = [f \in 0 .. n - 1 |-> IF Hit(R, f) THEN v ELSE a[f]]
    <2>1. DOMAIN a = 0 .. n - 1
      OBVIOUS
    <2> QED
      BY <1>1, <2>1, Zenon DEF FillRuns
  <1> QED
    BY <1>2 DEF Fills

(* The runs of a value, as a set of pairs of numbers.                      *)
LEMMA RunPairs ==
  ASSUME NEW n \in Nat, NEW a \in [0 .. n - 1 -> BOOLEAN], NEW t \in BOOLEAN
  PROVE  FindRuns(a, t) \in SUBSET (Nat \X Nat)
  <1>1. RunsAre(a, t, n)
    BY RunsFound
  <1>2. ASSUME NEW r \in FindRuns(a, t) PROVE r \in Nat \X Nat
    <2>1. PICK x, y \in Nat : r = <<x, y>>
      BY <1>1, <1>2 DEF RunsAre
    <2> QED
      BY <2>1
  <1> QED
    BY <1>2

LEMMA PairIsRun ==
  ASSUME NEW n \in Nat, NEW a \in [0 .. n - 1 -> BOOLEAN], NEW t \in BOOLEAN,
         NEW x \in Nat, NEW y \in Nat
  PROVE  <<x, y>> \in FindRuns(a, t) <=> IsRun(a, t, n, x, y)
  <1>1. RunsAre(a, t, n)
    BY RunsFound
  <1>2. ASSUME <<x, y>> \in FindRuns(a, t) PROVE IsRun(a, t, n, x, y)
    <2>1. PICK p, q \in Nat : <<x, y>> = <<p, q>> /\ IsRun(a, t, n, p, q)
      BY <1>1, <1>2 DEF RunsAre
    <2>2. x = p /\ y = q
      BY <2>1
    <2> QED
      BY <2>1, <2>2
  <1>3. ASSUME IsRun(a, t, n, x, y) PROVE <<x, y>> \in FindRuns(a, t)
    BY <1>1, <1>3 DEF RunsAre
  <1> QED
    BY <1>2, <1>3
-----------------------------------------------------------------------------
(* Regions that are too short are dropped; what is left are the others.    *)
LongRun(active, n, least, f) ==
  \E x, y \in Nat : IsRun(active, TRUE, n, x, y) /\ y - x >= least /\ f \in x .. y - 1

LEMMA KeptFacts ==
  ASSUME NEW n \in Nat, NEW a \in [0 .. n - 1 -> BOOLEAN], NEW least \in Nat
  PROVE  /\ RemoveShortOn(a, least) \in [0 .. n - 1 -> BOOLEAN]
         /\ \A f \in 0 .. n - 1 : RemoveShortOn(a, least)[f] <=> LongRun(a, n, least, f)
         /\ \A f \in 0 .. n - 1 : RemoveShortOn(a, least)[f] => a[f]
  <1> DEFINE R == {r \in FindRuns(a, TRUE) : r[2] - r[1] < least}
             kept == RemoveShortOn(a, least)
  <1>1. R \in SUBSET (Nat \X Nat)
    BY RunPairs
  <1>2. /\ kept \in [0 .. n - 1 -> BOOLEAN]
        /\ \A f \in 0 .. n - 1 : Hit(R, f) => kept[f] = FALSE
        /\ \A f \in 0 .. n - 1 : ~Hit(R, f) => kept[f] = a[f]
    <2>1. kept = FillRuns(a, R, FALSE)
      BY Zenon DEF RemoveShortOn
    <2> HIDE DEF R, kept
    <2>2. Fills(FillRuns(a, R, FALSE), a, R, FALSE, n)
      BY <1>1, FillFacts
    <2> QED
      BY <2>1, <2>2 DEF Fills
  <1>3. ASSUME NEW x \in Nat, NEW y \in Nat
        PROVE  <<x, y>> \in R <=> IsRun(a, TRUE, n, x, y) /\ y - x < least
    <2>1. PICK r : r = <<x, y>>
      OBVIOUS
    <2>2. r[1] = x /\ r[2] = y
      BY <2>1
    <2>3. r \in FindRuns(a, TRUE) <=> IsRun(a, TRUE, n, x, y)
      BY <2>1, PairIsRun
    <2> QED
      BY <2>1, <2>2, <2>3
  <1> HIDE DEF R, kept
  <1>4. ASSUME NEW f \in 0 .. n - 1, kept[f] PROVE a[f] /\ LongRun(a, n, least, f)
    <2>1. ~Hit(R, f) /\ a[f] = TRUE
      BY <1>2, <1>4
    <2>2. InRun(a, TRUE, n, f)
      BY <2>1, RunAround
    <2>3. PICK x, y \in Nat : IsRun(a, TRUE, n, x, y) /\ f \in x .. y - 1
      BY <2>2 DEF InRun
    <2>4. ~(y - x < least)
      BY <1>3, <2>1, <2>3 DEF Hit
    <2>5. y - x >= least
      BY <2>4
    <2> QED
      BY <2>1, <2>3, <2>5 DEF LongRun
  <1>5. ASSUME NEW f \in 0 .. n - 1, LongRun(a, n, least, f) PROVE kept[f]
    <2>1. PICK x, y \in Nat : IsRun(a, TRUE, n, x, y) /\ y - x >= least /\ f \in x .. y - 1
      BY <1>5 DEF LongRun
    <2>2. a[f] = TRUE
      BY <2>1 DEF IsRun
    <2>3. ASSUME Hit(R, f) PROVE FALSE
      <3>1. PICK p, q \in Nat : <<p, q>> \in R /\ f \in p .. q - 1
        BY <2>3 DEF Hit
      <3>2. IsRun(a, TRUE, n, p, q) /\ q - p < least
        BY <1>3, <3>1
      <3>3. SameRun(x, y, p, q)
        BY <2>1, <3>1, <3>2, RunsDisjoint
      <3> QED
        BY <2>1, <3>2, <3>3 DEF SameRun
    <2> QED
      BY <1>2, <2>2, <2>3
  <1> QED
    BY <1>2, <1>4, <1>5 DEF kept

LEMMA KeptRunsLong ==
  ASSUME NEW n \in Nat, NEW a \in [0 .. n - 1 -> BOOLEAN], NEW least \in Nat,
         NEW x \in Nat, NEW y \in Nat, IsRun(RemoveShortOn(a, least), TRUE, n, x, y)
  PROVE  y - x >= least
  <1>1. PICK kept : kept = RemoveShortOn(a, least)
    OBVIOUS
  <1>2. /\ kept \in [0 .. n - 1 -> BOOLEAN]
        /\ \A f \in 0 .. n - 1 : kept[f] <=> LongRun(a, n, least, f)
        /\ \A f \in 0 .. n - 1 : kept[f] => a[f]
    BY <1>1, KeptFacts
  <1>3. IsRun(kept, TRUE, n, x, y)
    BY <1>1
  <1>4. x \in 0 .. n - 1 /\ x \in x .. y - 1 /\ kept[x]
    BY <1>3 DEF IsRun
  <1>5. PICK p, q \in Nat : IsRun(a, TRUE, n, p, q) /\ q - p >= least /\ x \in p .. q - 1
    BY <1>2, <1>4 DEF LongRun
  <1>6. IsRun(kept, TRUE, n, p, q)
    <2>1. p \in 0 .. n - 1 /\ q \in 1 .. n /\ p < q
      BY <1>5 DEF IsRun
    <2>2. \A f \in p .. q - 1 : kept[f] = TRUE
      <3> TAKE f \in p .. q - 1
      <3>1. f \in 0 .. n - 1
        BY <2>1
      <3>2. LongRun(a, n, least, f)
        BY <1>5 DEF LongRun
      <3> QED
        BY <1>2, <3>1, <3>2
    <2>3. ASSUME p > 0 PROVE kept[p - 1] # TRUE
      <3>1. p - 1 \in 0 .. n - 1
        BY <2>1, <2>3
      <3>2. a[p - 1] # TRUE
        BY <1>5, <2>3 DEF IsRun
      <3> QED
        BY <1>2, <3>1, <3>2
    <2>4. ASSUME q < n PROVE kept[q] # TRUE
      <3>1. q \in 0 .. n - 1
        BY <2>1, <2>4
      <3>2. a[q] # TRUE
        BY <1>5, <2>4 DEF IsRun
      <3> QED
        BY <1>2, <3>1, <3>2
    <2> QED
      BY <2>1, <2>2, <2>3, <2>4 DEF IsRun
  <1>7. SameRun(x, y, p, q)
    BY <1>3, <1>4, <1>5, <1>6, RunsDisjoint
  <1> QED
    BY <1>5, <1>7 DEF SameRun

(* Gaps that are too short are filled, if they lie between two regions.    *)
ShortGap(active, n, least, x, y) ==
  IsRun(active, FALSE, n, x, y) /\ x > 0 /\ y < n /\ y - x < least

InGap(active, n, least, f) ==
  \E x, y \in Nat : ShortGap(active, n, least, x, y) /\ f \in x .. y - 1

LEMMA FilledFacts ==
  ASSUME NEW n \in Nat, NEW a \in [0 .. n - 1 -> BOOLEAN], NEW least \in Nat
  PROVE  /\ FillShortOff(a, least) \in [0 .. n - 1 -> BOOLEAN]
         /\ \A f \in 0 .. n - 1 : FillShortOff(a, least)[f] <=> a[f] \/ InGap(a, n, least, f)
  <1> DEFINE R == {r \in FindRuns(a, FALSE) : r[1] > 0 /\ r[2] < FramesOf(a) /\ r[2] - r[1] < least}
             filled == FillShortOff(a, least)
  <1>0. FramesOf(a) = n
    BY FramesCount
  <1>1. R \in SUBSET (Nat \X Nat)
    BY RunPairs
  <1>2. Fills(filled, a, R, TRUE, n)
    <2>1. filled = FillRuns(a, R, TRUE)
      BY Zenon DEF FillShortOff
    <2> HIDE DEF R, filled
    <2>2. Fills(FillRuns(a, R, TRUE), a, R, TRUE, n)
      BY <1>1, FillFacts
    <2> QED
      BY <2>1, <2>2
  <1>3. ASSUME NEW x \in Nat, NEW y \in Nat
        PROVE  <<x, y>> \in R <=> ShortGap(a, n, least, x, y)
    <2>1. PICK r : r = <<x, y>>
      OBVIOUS
    <2>2. r[1] = x /\ r[2] = y
      BY <2>1
    <2>3. r \in FindRuns(a, FALSE) <=> IsRun(a, FALSE, n, x, y)
      BY <2>1, PairIsRun
    <2>4. r \in R <=> r \in FindRuns(a, FALSE) /\ x > 0 /\ y < n /\ y - x < least
      BY <1>0, <2>2
    <2> HIDE DEF R
    <2> QED
      BY <2>1, <2>3, <2>4 DEF ShortGap
  <1> HIDE DEF R, filled
  <1>4. ASSUME NEW f PROVE Hit(R, f) <=> InGap(a, n, least, f)
    BY <1>3 DEF Hit, InGap
  <1>5. ASSUME NEW f \in 0 .. n - 1 PROVE filled[f] <=> a[f] \/ InGap(a, n, least, f)
    <2>1. a[f] \in BOOLEAN /\ filled[f] \in BOOLEAN
      BY <1>2 DEF Fills
    <2>2. CASE Hit(R, f)
      BY <1>2, <1>4, <2>2 DEF Fills
    <2>3. CASE ~Hit(R, f)
      BY <1>2, <1>4, <2>1, <2>3 DEF Fills
    <2> QED
      BY <2>2, <2>3
  <1> QED
    BY <1>2, <1>5 DEF Fills, filled

(* What surrounds a short gap.                                             *)
Enclosed(active, n, x, y) ==
  /\ x - 1 \in 0 .. n - 1 /\ active[x - 1] = TRUE
  /\ y \in 0 .. n - 1 /\ active[y] = TRUE
  /\ x < y

LEMMA GapSides ==
  ASSUME NEW n \in Nat, NEW a \in [0 .. n - 1 -> BOOLEAN], NEW least \in Nat,
         NEW x \in Nat, NEW y \in Nat, ShortGap(a, n, least, x, y)
  PROVE  Enclosed(a, n, x, y)
  <1>1. /\ x \in 0 .. n - 1 /\ y \in 1 .. n /\ x < y /\ x > 0 /\ y < n
        /\ a[x - 1] # FALSE /\ a[y] # FALSE
    BY DEF ShortGap, IsRun
  <1>2. x - 1 \in 0 .. n - 1 /\ y \in 0 .. n - 1
    BY <1>1
  <1>3. a[x - 1] = TRUE
    BY <1>1, <1>2
  <1>4. a[y] = TRUE
    BY <1>1, <1>2
  <1> QED
    BY <1>1, <1>2, <1>3, <1>4 DEF Enclosed

(* A region of the filled activity begins with a whole region of the other.*)
LEMMA FilledRunsLong ==
  ASSUME NEW n \in Nat, NEW a \in [0 .. n - 1 -> BOOLEAN], NEW least \in Nat, NEW m \in Nat,
         \A p, q \in Nat : IsRun(a, TRUE, n, p, q) => q - p >= m,
         NEW x \in Nat, NEW y \in Nat, IsRun(FillShortOff(a, least), TRUE, n, x, y)
  PROVE  y - x >= m
  <1>1. PICK b : b = FillShortOff(a, least)
    OBVIOUS
  <1>2. /\ b \in [0 .. n - 1 -> BOOLEAN]
        /\ \A f \in 0 .. n - 1 : b[f] <=> a[f] \/ InGap(a, n, least, f)
    BY <1>1, FilledFacts
  <1>3. /\ x \in 0 .. n - 1 /\ y \in 1 .. n /\ x < y
        /\ \A f \in x .. y - 1 : b[f] = TRUE
        /\ x > 0 => b[x - 1] # TRUE
        /\ y < n => b[y] # TRUE
    BY <1>1 DEF IsRun
  <1>4. b[x] = TRUE
    BY <1>3
  <1>5. a[x] = TRUE
    <2>1. ASSUME InGap(a, n, least, x) PROVE FALSE
      <3>1. PICK p, q \in Nat : ShortGap(a, n, least, p, q) /\ x \in p .. q - 1
        BY <2>1 DEF InGap
      <3>2. p - 1 \in 0 .. n - 1 /\ a[p - 1] = TRUE /\ p < q
        <4>1. Enclosed(a, n, p, q)
          BY <3>1, GapSides
        <4> QED
          BY <4>1 DEF Enclosed
      <3>3. b[p - 1] = TRUE
        BY <1>2, <3>2
      <3>4. p < x => InGap(a, n, least, x - 1)
        <4>1. p < x => x - 1 \in p .. q - 1
          BY <3>1
        <4> QED
          BY <3>1, <4>1 DEF InGap
      <3>5. x > 0 /\ x - 1 \in 0 .. n - 1
        BY <1>3, <3>1, <3>2
      <3>6. b[x - 1] = TRUE
        <4>1. CASE p = x
          BY <3>3, <4>1
        <4>2. CASE p < x
          BY <1>2, <3>4, <3>5, <4>2
        <4>3. p = x \/ p < x
          BY <3>1
        <4> QED
          BY <4>1, <4>2, <4>3
      <3> QED
        BY <1>3, <3>5, <3>6
    <2>2. a[x] \in BOOLEAN
      BY <1>3
    <2> QED
      BY <1>2, <1>3, <1>4, <2>1, <2>2
  <1>6. InRun(a, TRUE, n, x)
    BY <1>3, <1>5, RunAround
  <1>7. PICK p, q \in Nat : IsRun(a, TRUE, n, p, q) /\ x \in p .. q - 1
    BY <1>6 DEF InRun
  <1>8. /\ p \in 0 .. n - 1 /\ q \in 1 .. n /\ p < q
        /\ \A f \in p .. q - 1 : a[f] = TRUE
    BY <1>7 DEF IsRun
  <1>9. \A f \in p .. q - 1 : f \in 0 .. n - 1 /\ b[f] = TRUE
    BY <1>2, <1>8
  <1>10. ~(p < x)
    <2> SUFFICES ASSUME p < x PROVE FALSE
      OBVIOUS
    <2>1. x - 1 \in p .. q - 1 /\ x > 0
      BY <1>7
    <2> QED
      BY <1>3, <1>9, <2>1
  <1>11. ~(y < q)
    <2> SUFFICES ASSUME y < q PROVE FALSE
      OBVIOUS
    <2>1. y \in p .. q - 1 /\ y < n
      BY <1>3, <1>7, <1>8
    <2> QED
      BY <1>3, <1>9, <2>1
  <1>12. q - p >= m
    BY <1>7
  <1>13. p = x
    BY <1>7, <1>10
  <1> QED
    BY <1>11, <1>12, <1>13

(* An inner gap of the filled activity was a gap, and not a short one.     *)
LEMMA FilledGapsLong ==
  ASSUME NEW n \in Nat, NEW a \in [0 .. n - 1 -> BOOLEAN], NEW least \in Nat,
         NEW x \in Nat, NEW y \in Nat, IsRun(FillShortOff(a, least), FALSE, n, x, y),
         x > 0, y < n
  PROVE  y - x >= least
  <1>1. PICK b : b = FillShortOff(a, least)
    OBVIOUS
  <1>2. /\ b \in [0 .. n - 1 -> BOOLEAN]
        /\ \A f \in 0 .. n - 1 : b[f] <=> a[f] \/ InGap(a, n, least, f)
    BY <1>1, FilledFacts
  <1>3. /\ x \in 0 .. n - 1 /\ y \in 1 .. n /\ x < y
        /\ \A f \in x .. y - 1 : b[f] = FALSE
        /\ b[x - 1] # FALSE
        /\ b[y] # FALSE
    BY <1>1 DEF IsRun
  <1>4. \A f \in x .. y - 1 : f \in 0 .. n - 1 /\ a[f] = FALSE /\ ~InGap(a, n, least, f)
    BY <1>2, <1>3
  <1>5. x - 1 \in 0 .. n - 1 /\ y \in 0 .. n - 1 /\ x \in x .. y - 1 /\ y - 1 \in x .. y - 1
    BY <1>3
  <1>6. a[x - 1] = TRUE
    <2>1. ASSUME InGap(a, n, least, x - 1) PROVE FALSE
      <3>1. PICK p, q \in Nat : ShortGap(a, n, least, p, q) /\ x - 1 \in p .. q - 1
        BY <2>1 DEF InGap
      <3>2. a[q] = TRUE
        <4>1. Enclosed(a, n, p, q)
          BY <3>1, GapSides
        <4> QED
          BY <4>1 DEF Enclosed
      <3>3. x # q
        BY <1>4, <1>5, <3>2
      <3>4. x \in p .. q - 1
        BY <3>1, <3>3
      <3> QED
        BY <1>4, <1>5, <3>1, <3>4 DEF InGap
    <2>2. a[x - 1] \in BOOLEAN /\ b[x - 1] \in BOOLEAN
      BY <1>2, <1>5
    <2> QED
      BY <1>2, <1>3, <1>5, <2>1, <2>2
  <1>7. a[y] = TRUE
    <2>1. ASSUME InGap(a, n, least, y) PROVE FALSE
      <3>1. PICK p, q \in Nat : ShortGap(a, n, least, p, q) /\ y \in p .. q - 1
        BY <2>1 DEF InGap
      <3>2. a[p - 1] = TRUE
        <4>1. Enclosed(a, n, p, q)
          BY <3>1, GapSides
        <4> QED
          BY <4>1 DEF Enclosed
      <3>3. y # p
        <4>1. a[y - 1] = FALSE
          BY <1>4, <1>5
        <4> QED
          BY <3>2, <4>1
      <3>4. y - 1 \in p .. q - 1
        BY <3>1, <3>3
      <3> QED
        BY <1>4, <1>5, <3>1, <3>4 DEF InGap
    <2>2. a[y] \in BOOLEAN /\ b[y] \in BOOLEAN
      BY <1>2, <1>5
    <2> QED
      BY <1>2, <1>3, <1>5, <2>1, <2>2
  <1>8. IsRun(a, FALSE, n, x, y)
    BY <1>3, <1>4, <1>6, <1>7 DEF IsRun
  <1>9. ~(y - x < least)
    <2> SUFFICES ASSUME y - x < least PROVE FALSE
      OBVIOUS
    <2>1. ShortGap(a, n, least, x, y)
      BY <1>8 DEF ShortGap
    <2>2. InGap(a, n, least, x)
      BY <1>5, <2>1 DEF InGap
    <2> QED
      BY <1>4, <1>5, <2>2
  <1> QED
    BY <1>9

(* A frame that was filled has active frames on both sides of it.          *)
NearBoth(active, n, least, f) ==
  /\ \E g \in f - least .. f - 1 : g \in 0 .. n - 1 /\ active[g]
  /\ \E g \in f + 1 .. f + least : g \in 0 .. n - 1 /\ active[g]

LEMMA FilledIsNear ==
  ASSUME NEW n \in Nat, NEW a \in [0 .. n - 1 -> BOOLEAN], NEW least \in Nat,
         NEW f \in 0 .. n - 1, FillShortOff(a, least)[f], a[f] = FALSE
  PROVE  NearBoth(FillShortOff(a, least), n, least, f)
  <1>1. PICK b : b = FillShortOff(a, least)
    OBVIOUS
  <1>2. /\ b \in [0 .. n - 1 -> BOOLEAN]
        /\ \A g \in 0 .. n - 1 : b[g] <=> a[g] \/ InGap(a, n, least, g)
    BY <1>1, FilledFacts
  <1>3. InGap(a, n, least, f)
    BY <1>1, <1>2
  <1>4. PICK p, q \in Nat : ShortGap(a, n, least, p, q) /\ f \in p .. q - 1
    BY <1>3 DEF InGap
  <1>5. /\ p - 1 \in 0 .. n - 1 /\ a[p - 1] = TRUE
        /\ q \in 0 .. n - 1 /\ a[q] = TRUE /\ q - p < least
    <2>1. Enclosed(a, n, p, q)
      BY <1>4, GapSides
    <2> QED
      BY <1>4, <2>1 DEF Enclosed, ShortGap
  <1>6. b[p - 1] /\ b[q]
    BY <1>2, <1>5
  <1>7. p - 1 \in f - least .. f - 1 /\ q \in f + 1 .. f + least
    BY <1>4, <1>5
  <1> QED
    BY <1>1, <1>5, <1>6, <1>7 DEF NearBoth

(* What is long enough already is left alone.                              *)
LEMMA SameActivity ==
  ASSUME NEW n \in Nat, NEW a \in [0 .. n - 1 -> BOOLEAN], NEW b \in [0 .. n - 1 -> BOOLEAN],
         \A f \in 0 .. n - 1 : a[f] <=> b[f]
  PROVE  a = b
  <1>1. \A f \in 0 .. n - 1 : a[f] = b[f]
    <2> TAKE f \in 0 .. n - 1
    <2>1. a[f] \in BOOLEAN /\ b[f] \in BOOLEAN /\ (a[f] <=> b[f])
      OBVIOUS
    <2> QED
      BY <2>1
  <1> QED
    BY <1>1

LEMMA NothingRemoved ==
  ASSUME NEW n \in Nat, NEW a \in [0 .. n - 1 -> BOOLEAN], NEW least \in Nat,
         \A p, q \in Nat : IsRun(a, TRUE, n, p, q) => q - p >= least
  PROVE  RemoveShortOn(a, least) = a
  <1>1. PICK b : b = RemoveShortOn(a, least)
    OBVIOUS
  <1>2. /\ b \in [0 .. n - 1 -> BOOLEAN]
        /\ \A f \in 0 .. n - 1 : b[f] <=> LongRun(a, n, least, f)
        /\ \A f \in 0 .. n - 1 : b[f] => a[f]
    BY <1>1, KeptFacts
  <1>3. ASSUME NEW f \in 0 .. n - 1, a[f] PROVE b[f]
    <2>1. a[f] = TRUE
      BY <1>3
    <2>2. InRun(a, TRUE, n, f)
      BY <2>1, RunAround
    <2>3. LongRun(a, n, least, f)
      BY <2>2 DEF InRun, LongRun
    <2> QED
      BY <1>2, <2>3
  <1>4. \A f \in 0 .. n - 1 : a[f] <=> b[f]
    BY <1>2, <1>3
  <1>5. a = b
    BY <1>2, <1>4, SameActivity
  <1> QED
    BY <1>1, <1>5

LEMMA NothingFilled ==
  ASSUME NEW n \in Nat, NEW a \in [0 .. n - 1 -> BOOLEAN], NEW least \in Nat,
         \A p, q \in Nat : IsRun(a, FALSE, n, p, q) /\ p > 0 /\ q < n => q - p >= least
  PROVE  FillShortOff(a, least) = a
  <1>1. PICK b : b = FillShortOff(a, least)
    OBVIOUS
  <1>2. /\ b \in [0 .. n - 1 -> BOOLEAN]
        /\ \A f \in 0 .. n - 1 : b[f] <=> a[f] \/ InGap(a, n, least, f)
    BY <1>1, FilledFacts
  <1>3. ASSUME NEW f \in 0 .. n - 1, InGap(a, n, least, f) PROVE FALSE
    <2>1. PICK p, q \in Nat : ShortGap(a, n, least, p, q)
      BY <1>3 DEF InGap
    <2>2. q - p >= least /\ q - p < least
      BY <2>1 DEF ShortGap
    <2> QED
      BY <2>2
  <1>4. \A f \in 0 .. n - 1 : a[f] <=> b[f]
    BY <1>2, <1>3
  <1>5. a = b
    BY <1>2, <1>4, SameActivity
  <1> QED
    BY <1>1, <1>5
-----------------------------------------------------------------------------
(* Padding adds the frames around the active ones.                         *)
LEMMA MaxTwo ==
  ASSUME NEW a \in Int, NEW b \in Int
  PROVE  Max({a, b}) = IF a >= b THEN a ELSE b
  BY DEF Max

LEMMA MinTwo ==
  ASSUME NEW a \in Int, NEW b \in Int
  PROVE  Min({a, b}) = IF a <= b THEN a ELSE b
  BY DEF Min

LEMMA PaddedFacts ==
  ASSUME NEW n \in Nat, NEW a \in [0 .. n - 1 -> BOOLEAN],
         NEW before \in Nat, NEW after \in Nat
  PROVE  PadRegions(a, before, after) = Around(a, before, after)
  <1> DEFINE R == {<<Max({0, r[1] - before}), Min({r[2] + after, FramesOf(a)})>> :
                     r \in FindRuns(a, TRUE)}
             padded == PadRegions(a, before, after)
             around == Around(a, before, after)
             From(x) == IF 0 >= x - before THEN 0 ELSE x - before
             To(y) == IF y + after <= n THEN y + after ELSE n
  <1>0. FramesOf(a) = n
    BY FramesCount
  <1>1. ASSUME NEW r \in FindRuns(a, TRUE)
        PROVE  \E x, y \in Nat : /\ r = <<x, y>> /\ IsRun(a, TRUE, n, x, y)
                                 /\ <<Max({0, r[1] - before}), Min({r[2] + after, FramesOf(a)})>>
                                      = <<From(x), To(y)>>
    <2>1. RunsAre(a, TRUE, n)
      BY RunsFound
    <2>2. PICK x, y \in Nat : r = <<x, y>> /\ IsRun(a, TRUE, n, x, y)
      BY <1>1, <2>1 DEF RunsAre
    <2>3. r[1] = x /\ r[2] = y
      BY <2>2
    <2>4. Max({0, x - before}) = From(x)
      BY MaxTwo
    <2>5. Min({y + after, n}) = To(y)
      BY MinTwo
    <2> HIDE DEF From, To
    <2> QED
      BY <1>0, <2>2, <2>3, <2>4, <2>5
  <1>2. \A x, y \in Nat : From(x) \in Nat /\ To(y) \in Nat
    OBVIOUS
  <1>3. R \in SUBSET (Nat \X Nat)
    <2>1. ASSUME NEW r \in FindRuns(a, TRUE)
          PROVE  <<Max({0, r[1] - before}), Min({r[2] + after, FramesOf(a)})>> \in Nat \X Nat
      <3>1. PICK x, y \in Nat : <<Max({0, r[1] - before}), Min({r[2] + after, FramesOf(a)})>>
                                  = <<From(x), To(y)>>
        BY <1>1, <2>1
      <3>2. <<From(x), To(y)>> \in Nat \X Nat
        BY <1>2
      <3> QED
        BY <3>1, <3>2
    <2> QED
      BY <2>1
  <1>4. Fills(padded, a, R, TRUE, n)
    <2>1. padded = FillRuns(a, R, TRUE)
      BY Zenon DEF PadRegions
    <2> HIDE DEF R, padded
    <2>2. Fills(FillRuns(a, R, TRUE), a, R, TRUE, n)
      BY <1>3, FillFacts
    <2> QED
      BY <2>1, <2>2
  <1>5. /\ around \in [0 .. n - 1 -> BOOLEAN]
        /\ \A f \in 0 .. n - 1 : around[f] <=>
             \E g \in 0 .. n - 1 : a[g] /\ f - g \in -before .. after
    <2>1. DOMAIN a = 0 .. n - 1
      OBVIOUS
    <2> QED
      BY <2>1 DEF Around
  <1>6. ASSUME NEW f \in 0 .. n - 1, Hit(R, f) PROVE around[f]
    <2>1. PICK p, q \in Nat : <<p, q>> \in R /\ f \in p .. q - 1
      BY <1>6 DEF Hit
    <2>2. PICK r \in FindRuns(a, TRUE) :
            <<p, q>> = <<Max({0, r[1] - before}), Min({r[2] + after, FramesOf(a)})>>
      BY <2>1
    <2>3. PICK x, y \in Nat : IsRun(a, TRUE, n, x, y) /\ <<p, q>> = <<From(x), To(y)>>
      BY <1>1, <2>2
    <2>4. p = From(x) /\ q = To(y)
      BY <2>3
    <2>5. /\ x \in 0 .. n - 1 /\ y \in 1 .. n /\ x < y
          /\ \A g \in x .. y - 1 : a[g] = TRUE
      BY <2>3 DEF IsRun
    <2>6. PICK g \in x .. y - 1 : f - g \in -before .. after
      <3>1. CASE f < x
        <4>1. x \in x .. y - 1 /\ f - x \in -before .. after
          BY <2>1, <2>4, <2>5, <3>1
        <4> QED
          BY <4>1
      <3>2. CASE f > y - 1
        <4>1. y - 1 \in x .. y - 1 /\ f - (y - 1) \in -before .. after
          BY <2>1, <2>4, <2>5, <3>2
        <4> QED
          BY <4>1
      <3>3. CASE f \in x .. y - 1
        <4>1. f - f \in -before .. after
          OBVIOUS
        <4> QED
          BY <3>3, <4>1
      <3> QED
        BY <2>5, <3>1, <3>2, <3>3
    <2>7. g \in 0 .. n - 1 /\ a[g]
      BY <2>5
    <2> QED
      BY <1>5, <2>6, <2>7
  <1>7. ASSUME NEW f \in 0 .. n - 1, around[f] PROVE Hit(R, f)
    <2>1. PICK g \in 0 .. n - 1 : a[g] /\ f - g \in -before .. after
      BY <1>5, <1>7
    <2>2. InRun(a, TRUE, n, g)
      <3>1. a[g] = TRUE
        BY <2>1
      <3> QED
        BY <3>1, RunAround
    <2>3. PICK x, y \in Nat : IsRun(a, TRUE, n, x, y) /\ g \in x .. y - 1
      BY <2>2 DEF InRun
    <2>4. PICK r : r = <<x, y>>
      OBVIOUS
    <2>5. r \in FindRuns(a, TRUE)
      BY <2>3, <2>4, PairIsRun
    <2>6. PICK x2, y2 \in Nat :
            /\ r = <<x2, y2>>
            /\ <<Max({0, r[1] - before}), Min({r[2] + after, FramesOf(a)})>> = <<From(x2), To(y2)>>
      BY <1>1, <2>5
    <2>7. x2 = x /\ y2 = y
      BY <2>4, <2>6
    <2>8. <<From(x), To(y)>> \in R
      BY <2>5, <2>6, <2>7
    <2>9. f \in From(x) .. To(y) - 1
      BY <2>1, <2>3
    <2>10. From(x) \in Nat /\ To(y) \in Nat
      OBVIOUS
    <2> HIDE DEF From, To, R
    <2> QED
      BY <2>8, <2>9, <2>10 DEF Hit
  <1> HIDE DEF R, padded, around
  <1>8. ASSUME NEW f \in 0 .. n - 1, a[f] PROVE around[f]
    <2>1. f - f \in -before .. after
      OBVIOUS
    <2> QED
      BY <1>5, <1>8, <2>1
  <1>9. \A f \in 0 .. n - 1 : padded[f] <=> around[f]
    <2> TAKE f \in 0 .. n - 1
    <2>1. CASE Hit(R, f)
      BY <1>4, <1>6, <2>1 DEF Fills
    <2>2. CASE ~Hit(R, f)
      <3>1. ~around[f]
        BY <1>7, <2>2
      <3>2. ~a[f] /\ padded[f] = a[f]
        BY <1>4, <1>8, <2>2, <3>1 DEF Fills
      <3> QED
        BY <3>1, <3>2
    <2> QED
      BY <2>1, <2>2
  <1>10. padded = around
    BY <1>4, <1>5, <1>9, SameActivity DEF Fills
  <1> QED
    BY <1>10 DEF padded, around

LEMMA NothingPadded ==
  ASSUME NEW n \in Nat, NEW a \in [0 .. n - 1 -> BOOLEAN]
  PROVE  PadRegions(a, 0, 0) = a
  <1>1. PICK b : b = PadRegions(a, 0, 0)
    OBVIOUS
  <1>2. b = Around(a, 0, 0)
    BY <1>1, PaddedFacts
  <1>3. b \in [0 .. n - 1 -> BOOLEAN]
    BY <1>2 DEF Around
  <1>4. ASSUME NEW f \in 0 .. n - 1 PROVE b[f] <=> a[f]
    <2>1. b[f] <=> \E g \in 0 .. n - 1 : a[g] /\ f - g \in -0 .. 0
      BY <1>2 DEF Around
    <2>2. \A g \in 0 .. n - 1 : f - g \in -0 .. 0 <=> g = f
      OBVIOUS
    <2> QED
      BY <2>1, <2>2
  <1>5. a = b
    BY <1>3, <1>4, SameActivity
  <1> QED
    BY <1>1, <1>5

(* The hysteresis follows its scores frame by frame.  The recursive        *)
(* function exists because it does up to every frame.                      *)
Holds(before, score, onset, offset) ==
  IF before THEN score >= offset ELSE score >= onset

LEMMA HoldsFacts ==
  ASSUME NEW before, NEW score \in Int, NEW onset \in Int, NEW offset \in Int
  PROVE  /\ Holds(before, score, onset, offset) \in BOOLEAN
         /\ Holds(before, score, onset, offset) => score >= onset \/ score >= offset
         /\ score >= onset /\ score >= offset => Holds(before, score, onset, offset)
  <1>1. CASE before
    BY <1>1 DEF Holds
  <1>2. CASE ~before
    BY <1>2 DEF Holds
  <1> QED
    BY <1>1, <1>2

Follows(state, last, scores, onset, offset) ==
  /\ state \in [-1 .. last -> BOOLEAN]
  /\ state = [f \in -1 .. last |->
                IF f = -1 THEN FALSE ELSE Holds(state[f - 1], scores[f], onset, offset)]

LEMMA StateExists ==
  ASSUME NEW n \in Nat, NEW scores \in [0 .. n - 1 -> Int],
         NEW onset \in Int, NEW offset \in Int
  PROVE  \E state : Follows(state, n - 1, scores, onset, offset)
  <1> DEFINE S == {k \in Nat : k <= n => \E s : Follows(s, k - 1, scores, onset, offset)}
  <1>1. 0 \in S
    <2> DEFINE s == [f \in -1 .. -1 |-> FALSE]
    <2>1. s \in [-1 .. -1 -> BOOLEAN]
      OBVIOUS
    <2>2. s = [f \in -1 .. -1 |->
                 IF f = -1 THEN FALSE ELSE Holds(s[f - 1], scores[f], onset, offset)]
      OBVIOUS
    <2> HIDE DEF s
    <2>3. Follows(s, -1, scores, onset, offset)
      BY <2>1, <2>2 DEF Follows
    <2>4. 0 - 1 = -1
      OBVIOUS
    <2> QED
      BY <2>3, <2>4
  <1>2. ASSUME NEW k \in Nat, k \in S PROVE k + 1 \in S
    <2> SUFFICES ASSUME k + 1 <= n
                 PROVE  \E s : Follows(s, (k + 1) - 1, scores, onset, offset)
      OBVIOUS
    <2>1. PICK s : Follows(s, k - 1, scores, onset, offset)
      BY <1>2
    <2>2. /\ s \in [-1 .. k - 1 -> BOOLEAN]
          /\ \A f \in -1 .. k - 1 :
               s[f] = IF f = -1 THEN FALSE ELSE Holds(s[f - 1], scores[f], onset, offset)
      BY <2>1 DEF Follows
    <2> DEFINE next == Holds(s[k - 1], scores[k], onset, offset)
               t == [f \in -1 .. k |-> IF f = k THEN next ELSE s[f]]
    <2>3. next \in BOOLEAN
      <3>1. scores[k] \in Int
        OBVIOUS
      <3> QED
        BY <3>1, HoldsFacts
    <2>4. t \in [-1 .. k -> BOOLEAN]
      <3> HIDE DEF next
      <3> QED
        BY <2>2, <2>3
    <2>5. (\A f \in -1 .. k - 1 : t[f] = s[f]) /\ t[k] = next
      <3> HIDE DEF next
      <3> QED
        OBVIOUS
    <2>6. t[k] = Holds(t[k - 1], scores[k], onset, offset)
      <3>1. t[k - 1] = s[k - 1]
        BY <2>5
      <3> HIDE DEF t
      <3> QED
        BY <2>5, <3>1
    <2> HIDE DEF t
    <2>7. ASSUME NEW f \in -1 .. k
          PROVE  t[f] = IF f = -1 THEN FALSE ELSE Holds(t[f - 1], scores[f], onset, offset)
      <3>1. CASE f = k
        <4>1. t[f] = t[k] /\ f - 1 = k - 1 /\ scores[f] = scores[k]
          BY <3>1
        <4>2. f # -1
          BY <3>1
        <4>3. t[f] = Holds(t[f - 1], scores[f], onset, offset)
          BY <2>6, <4>1
        <4> QED
          BY <4>2, <4>3
      <3>2. CASE f # k /\ f # -1
        <4>1. f \in -1 .. k - 1 /\ f - 1 \in -1 .. k - 1
          BY <3>2
        <4>2. t[f] = s[f] /\ t[f - 1] = s[f - 1]
          BY <2>5, <4>1
        <4>3. s[f] = Holds(s[f - 1], scores[f], onset, offset)
          BY <2>2, <3>2, <4>1
        <4> QED
          BY <3>2, <4>2, <4>3
      <3>3. CASE f = -1
        <4>1. f \in -1 .. k - 1
          BY <3>3
        <4> QED
          BY <2>2, <2>5, <3>3, <4>1
      <3> QED
        BY <3>1, <3>2, <3>3
    <2>8. t = [f \in -1 .. k |->
                 IF f = -1 THEN FALSE ELSE Holds(t[f - 1], scores[f], onset, offset)]
      BY <2>4, <2>7
    <2>9. Follows(t, k, scores, onset, offset)
      BY <2>4, <2>8 DEF Follows
    <2>10. (k + 1) - 1 = k
      OBVIOUS
    <2> QED
      BY <2>9, <2>10
  <1> HIDE DEF S
  <1>3. Nat \subseteq S
    BY <1>1, <1>2, NatSetInduction
  <1>4. n \in S
    BY <1>3
  <1> QED
    BY <1>4 DEF S

(* An active frame reached a threshold, and a frame that reached both, or  *)
(* none, is what its score says.                                           *)
Hysteretic(active, n, scores, onset, offset) ==
  /\ active \in [0 .. n - 1 -> BOOLEAN]
  /\ \A f \in 0 .. n - 1 : active[f] => scores[f] >= onset \/ scores[f] >= offset
  /\ \A f \in 0 .. n - 1 : scores[f] >= onset /\ scores[f] >= offset => active[f]

LEMMA HysteresisFacts ==
  ASSUME NEW n \in Nat, NEW scores \in [0 .. n - 1 -> Int],
         NEW onset \in Int, NEW offset \in Int
  PROVE  Hysteretic(Hysteresis(scores, onset, offset), n, scores, onset, offset)
  <1>1. FramesOf(scores) = n /\ DOMAIN scores = 0 .. n - 1
    BY FramesCount
  <1> DEFINE body(s) == [f \in -1 .. FramesOf(scores) - 1 |->
                           IF f = -1 THEN FALSE ELSE Holds(s[f - 1], scores[f], onset, offset)]
             state == CHOOSE s : s = body(s)
  <1>2. Hysteresis(scores, onset, offset) = [f \in DOMAIN scores |-> state[f]]
    BY DEF Hysteresis, Holds
  <1>3. PICK s : s = body(s)
    <2>1. PICK s : Follows(s, n - 1, scores, onset, offset)
      BY StateExists
    <2> QED
      BY <1>1, <2>1 DEF Follows
  <1>4. state = body(state)
    <2> HIDE DEF body
    <2> QED
      BY <1>3
  <1> HIDE DEF state
  <1>5. ASSUME NEW f \in 0 .. n - 1
        PROVE  /\ state[f] \in BOOLEAN
               /\ state[f] => scores[f] >= onset \/ scores[f] >= offset
               /\ scores[f] >= onset /\ scores[f] >= offset => state[f]
    <2>1. f \in -1 .. FramesOf(scores) - 1 /\ f # -1
      BY <1>1
    <2>2. state[f] = Holds(state[f - 1], scores[f], onset, offset)
      BY <1>4, <2>1
    <2>3. scores[f] \in Int
      OBVIOUS
    <2> QED
      BY <2>2, <2>3, HoldsFacts
  <1> QED
    BY <1>1, <1>2, <1>5 DEF Hysteretic

(* For every sequence of scores and every setting of the duration filter   *)
(* (binarize.rs): without padding no region is shorter than                *)
(* min_duration_on and no inner gap shorter than min_duration_off, the     *)
(* result filtered again stays as it is, a frame whose score reached no    *)
(* threshold has active frames within min_duration_off on both sides, and  *)
(* padding adds exactly the frames around the regions.                     *)
THEOREM FilterIsFaithful ==
  ASSUME NEW n \in Nat, NEW scores \in [0 .. n - 1 -> Int],
         NEW config \in [onset : Int, offset : Int, minOn : Nat, minOff : Nat,
                         padOnset : Nat, padOffset : Nat]
  PROVE  FilterFaithful(scores, config, Binarize(scores, config))
  <1> DEFINE low == Min({config.onset, config.offset})
             high == Max({config.onset, config.offset})
             bare == [config EXCEPT !.padOnset = 0, !.padOffset = 0]
  <1>1. PICK on \in Int, off \in Int, minOn \in Nat, minOff \in Nat, before \in Nat, after \in Nat :
          /\ on = config.onset /\ off = config.offset /\ minOn = config.minOn
          /\ minOff = config.minOff /\ before = config.padOnset /\ after = config.padOffset
    OBVIOUS
  <1>2. /\ bare.onset = on /\ bare.offset = off /\ bare.minOn = minOn
        /\ bare.minOff = minOff /\ bare.padOnset = 0 /\ bare.padOffset = 0
    BY <1>1
  <1> HIDE DEF bare
  <1>3. /\ low \in Int /\ high \in Int
        /\ low <= on /\ low <= off /\ high >= on /\ high >= off
        /\ ~(low - 1 >= on) /\ ~(low - 1 >= off)
        /\ low = on \/ low = off
    <2>1. low = IF on <= off THEN on ELSE off
      BY <1>1, MinTwo
    <2>2. high = IF on >= off THEN on ELSE off
      BY <1>1, MaxTwo
    <2> HIDE DEF low, high
    <2> QED
      BY <2>1, <2>2
  <1> DEFINE found == Hysteresis(scores, on, off)
             kept == RemoveShortOn(found, minOn)
             filled == FillShortOff(kept, minOff)
  <1>4. Hysteretic(found, n, scores, on, off)
    BY HysteresisFacts
  <1>5. found \in [0 .. n - 1 -> BOOLEAN]
    BY <1>4 DEF Hysteretic
  <1> HIDE DEF found
  <1>6. /\ kept \in [0 .. n - 1 -> BOOLEAN]
        /\ \A f \in 0 .. n - 1 : kept[f] => found[f]
    BY <1>5, KeptFacts
  <1>7. \A p, q \in Nat : IsRun(kept, TRUE, n, p, q) => q - p >= minOn
    BY <1>5, KeptRunsLong
  <1> HIDE DEF kept
  <1>8. filled \in [0 .. n - 1 -> BOOLEAN]
    BY <1>6, FilledFacts
  <1>9. \A p, q \in Nat : IsRun(filled, TRUE, n, p, q) => q - p >= minOn
    BY <1>6, <1>7, FilledRunsLong
  <1>10. \A p, q \in Nat : IsRun(filled, FALSE, n, p, q) /\ p > 0 /\ q < n => q - p >= minOff
    BY <1>6, FilledGapsLong
  <1>11. ASSUME NEW f \in 0 .. n - 1, filled[f], scores[f] < low
         PROVE  NearBoth(filled, n, minOff, f)
    <2>1. scores[f] \in Int
      OBVIOUS
    <2>2. ~(scores[f] >= on) /\ ~(scores[f] >= off)
      <3> HIDE DEF low, high
      <3>1. low \in Int /\ low <= on /\ low <= off
        BY <1>3
      <3> QED
        BY <1>11, <2>1, <3>1
    <2>3. ~found[f]
      <3>1. found[f] => scores[f] >= on \/ scores[f] >= off
        BY <1>4 DEF Hysteretic
      <3> QED
        BY <2>2, <3>1
    <2>4. kept[f] = FALSE
      BY <1>6, <2>3
    <2> QED
      BY <1>6, <1>11, <2>4, FilledIsNear
  <1>12. Binarize(scores, bare) = filled
    <2>1. Binarize(scores, bare) = PadRegions(filled, 0, 0)
      BY <1>2 DEF Binarize, found, kept
    <2>2. PadRegions(filled, 0, 0) = filled
      BY <1>8, NothingPadded
    <2> QED
      BY <2>1, <2>2
  <1>13. Binarize(scores, config) = Around(filled, before, after)
    <2>1. Binarize(scores, config) = PadRegions(filled, before, after)
      BY <1>1 DEF Binarize, found, kept
    <2>2. PadRegions(filled, before, after) = Around(filled, before, after)
      BY <1>8, PaddedFacts
    <2> QED
      BY <2>1, <2>2
  <1> HIDE DEF filled, low, high
  <1>14. Binarize([f \in DOMAIN filled |-> IF filled[f] THEN high ELSE low - 1], bare) = filled
    <2> DEFINE levels == [f \in DOMAIN filled |-> IF filled[f] THEN high ELSE low - 1]
               active == Hysteresis(levels, on, off)
    <2>1. levels \in [0 .. n - 1 -> Int]
      BY <1>3, <1>8
    <2>2. \A f \in 0 .. n - 1 : levels[f] = IF filled[f] THEN high ELSE low - 1
      BY <1>8
    <2> HIDE DEF levels
    <2>3. Hysteretic(active, n, levels, on, off)
      BY <2>1, HysteresisFacts
    <2> HIDE DEF active
    <2>4. active \in [0 .. n - 1 -> BOOLEAN]
      BY <2>3 DEF Hysteretic
    <2>5. ASSUME NEW f \in 0 .. n - 1 PROVE active[f] <=> filled[f]
      <3>1. CASE filled[f]
        <4>1. levels[f] >= on /\ levels[f] >= off
          BY <1>3, <2>2, <3>1
        <4> QED
          BY <2>3, <3>1, <4>1 DEF Hysteretic
      <3>2. CASE ~filled[f]
        <4>1. ~(levels[f] >= on) /\ ~(levels[f] >= off)
          BY <1>3, <2>2, <3>2
        <4> QED
          BY <2>3, <3>2, <4>1 DEF Hysteretic
      <3> QED
        BY <3>1, <3>2
    <2>6. active = filled
      BY <1>8, <2>4, <2>5, SameActivity
    <2>7. Binarize(levels, bare) = PadRegions(FillShortOff(RemoveShortOn(active, minOn), minOff), 0, 0)
      BY <1>2 DEF Binarize, active
    <2>8. RemoveShortOn(filled, minOn) = filled
      BY <1>8, <1>9, NothingRemoved
    <2>9. FillShortOff(filled, minOff) = filled
      BY <1>8, <1>10, NothingFilled
    <2>10. PadRegions(filled, 0, 0) = filled
      BY <1>8, NothingPadded
    <2>11. Binarize(levels, bare) = filled
      BY <2>6, <2>7, <2>8, <2>9, <2>10
    <2> QED
      BY <2>11 DEF levels
  <1>15. \A r \in FindRuns(filled, TRUE) : r[2] - r[1] >= minOn
    <2>1. RunsAre(filled, TRUE, n)
      BY <1>8, RunsFound
    <2> TAKE r \in FindRuns(filled, TRUE)
    <2>2. PICK x, y \in Nat : r = <<x, y>> /\ IsRun(filled, TRUE, n, x, y)
      BY <2>1 DEF RunsAre
    <2>3. r[1] = x /\ r[2] = y
      BY <2>2
    <2> QED
      BY <1>9, <2>2, <2>3
  <1>16. RunsAtLeast(filled, minOff, FALSE)
    <2>1. RunsAre(filled, FALSE, n)
      BY <1>8, RunsFound
    <2>2. FramesOf(filled) = n
      BY <1>8, FramesCount
    <2>3. ASSUME NEW r \in FindRuns(filled, FALSE), r[1] > 0, r[2] < n
          PROVE  r[2] - r[1] >= minOff
      <3>1. PICK x, y \in Nat : r = <<x, y>> /\ IsRun(filled, FALSE, n, x, y)
        BY <2>1, <2>3 DEF RunsAre
      <3>2. r[1] = x /\ r[2] = y
        BY <3>1
      <3> QED
        BY <1>10, <2>3, <3>1, <3>2
    <2> QED
      BY <2>2, <2>3 DEF RunsAtLeast
  <1>17. \A f \in DOMAIN filled : filled[f] /\ scores[f] < low =>
           /\ \E g \in f - minOff .. f - 1 : g \in DOMAIN scores /\ filled[g]
           /\ \E g \in f + 1 .. f + minOff : g \in DOMAIN scores /\ filled[g]
    <2>1. DOMAIN filled = 0 .. n - 1 /\ DOMAIN scores = 0 .. n - 1
      BY <1>8
    <2> QED
      BY <1>11, <2>1 DEF NearBoth
  <1> DEFINE out == Binarize(scores, config)
             unpadded == Binarize(scores, bare)
             again == Binarize([f \in DOMAIN unpadded |-> IF unpadded[f] THEN high ELSE low - 1], bare)
  <1>18. unpadded = filled /\ again = filled /\ out = Around(filled, before, after)
    BY <1>12, <1>13, <1>14
  <1> HIDE DEF out, unpadded, again
  <1>19. /\ \A r \in FindRuns(unpadded, TRUE) : r[2] - r[1] >= config.minOn
         /\ RunsAtLeast(unpadded, config.minOff, FALSE)
         /\ again = unpadded
         /\ out = Around(unpadded, config.padOnset, config.padOffset)
         /\ \A f \in DOMAIN unpadded : unpadded[f] /\ scores[f] < low =>
              /\ \E g \in f - config.minOff .. f - 1 : g \in DOMAIN scores /\ unpadded[g]
              /\ \E g \in f + 1 .. f + config.minOff : g \in DOMAIN scores /\ unpadded[g]
    BY <1>1, <1>15, <1>16, <1>17, <1>18
  <1> QED
    BY <1>19 DEF FilterFaithful, out, unpadded, again, low, high, bare

-----------------------------------------------------------------------------
(* A fold over a set takes its elements off one by one, in an order that   *)
(* is the same whenever it is at the same set.                             *)
Pick(s) == CHOOSE x \in s : TRUE

Totals(it, h, A) ==
  /\ it \in [A -> Int]
  /\ it = [s \in A |-> IF s = {} THEN 0 ELSE h[Pick(s)] + it[s \ {Pick(s)}]]

LEMMA PickTakesOff ==
  ASSUME NEW s, IsFiniteSet(s), s # {}
  PROVE  /\ Pick(s) \in s
         /\ IsFiniteSet(s \ {Pick(s)})
         /\ Cardinality(s) \in Nat /\ Cardinality(s) > 0
         /\ Cardinality(s \ {Pick(s)}) = Cardinality(s) - 1
  <1>1. Pick(s) \in s
    BY DEF Pick
  <1>2. Cardinality(s) \in Nat /\ (Cardinality(s) = 0 <=> s = {})
    BY FS_CardinalityType, FS_EmptySet
  <1>3. Cardinality(s) > 0
    BY <1>2
  <1>4. IsFiniteSet(s \ {Pick(s)}) /\ Cardinality(s \ {Pick(s)}) = Cardinality(s) - 1
    BY <1>1, FS_RemoveElement
  <1> QED
    BY <1>1, <1>2, <1>3, <1>4

LEMMA SubsetInduction ==
  ASSUME NEW S, IsFiniteSet(S), NEW F, {} \in F,
         \A s \in SUBSET S : s # {} /\ s \ {Pick(s)} \in F => s \in F
  PROVE  SUBSET S \subseteq F
  <1> DEFINE N == {n \in Nat : \A s \in SUBSET S : Cardinality(s) = n => s \in F}
  <1>1. \A s \in SUBSET S : IsFiniteSet(s) /\ Cardinality(s) \in Nat
    BY FS_Subset, FS_CardinalityType
  <1>2. 0 \in N
    <2>1. ASSUME NEW s \in SUBSET S, Cardinality(s) = 0 PROVE s = {}
      BY <1>1, <2>1, FS_EmptySet
    <2> QED
      BY <2>1
  <1>3. ASSUME NEW n \in Nat, n \in N PROVE n + 1 \in N
    <2> SUFFICES ASSUME NEW s \in SUBSET S, Cardinality(s) = n + 1 PROVE s \in F
      OBVIOUS
    <2>1. IsFiniteSet(s)
      BY <1>1
    <2>2. s # {}
      BY <2>1, FS_EmptySet
    <2>3. Cardinality(s \ {Pick(s)}) = Cardinality(s) - 1
      BY <2>1, <2>2, PickTakesOff
    <2>4. s \ {Pick(s)} \in SUBSET S /\ Cardinality(s \ {Pick(s)}) = n
      BY <2>3
    <2> QED
      BY <1>3, <2>2, <2>4
  <1> HIDE DEF N
  <1>4. Nat \subseteq N
    BY <1>2, <1>3, NatSetInduction
  <1> SUFFICES ASSUME NEW s \in SUBSET S PROVE s \in F
    OBVIOUS
  <1>5. PICK n \in Nat : n = Cardinality(s)
    BY <1>1
  <1>6. n \in N
    BY <1>4
  <1> QED
    BY <1>5, <1>6 DEF N

LEMMA TotalsExist ==
  ASSUME NEW S, IsFiniteSet(S), NEW h \in [S -> Int]
  PROVE  \E it : Totals(it, h, SUBSET S)
  <1> DEFINE Small(n) == {s \in SUBSET S : Cardinality(s) <= n}
             N == {n \in Nat : \E it : Totals(it, h, Small(n))}
  <1>1. \A s \in SUBSET S : IsFiniteSet(s) /\ Cardinality(s) \in Nat
    BY FS_Subset, FS_CardinalityType
  <1>2. 0 \in N
    <2>1. ASSUME NEW s \in Small(0) PROVE s = {}
      <3>1. Cardinality(s) = 0
        BY <1>1
      <3> QED
        BY <1>1, <3>1, FS_EmptySet
    <2> DEFINE it == [s \in Small(0) |-> 0]
    <2>2. it \in [Small(0) -> Int]
      OBVIOUS
    <2>3. it = [s \in Small(0) |-> IF s = {} THEN 0 ELSE h[Pick(s)] + it[s \ {Pick(s)}]]
      <3> HIDE DEF Small
      <3> QED
        BY <2>1
    <2> HIDE DEF it
    <2>4. Totals(it, h, Small(0))
      BY <2>2, <2>3 DEF Totals
    <2> QED
      BY <2>4
  <1>3. ASSUME NEW n \in Nat, n \in N PROVE n + 1 \in N
    <2>1. PICK it : Totals(it, h, Small(n))
      BY <1>3
    <2>2. it \in [Small(n) -> Int]
      BY <2>1 DEF Totals
    <2>3. \A s \in Small(n) : it[s] = IF s = {} THEN 0 ELSE h[Pick(s)] + it[s \ {Pick(s)}]
      BY <2>1 DEF Totals
    <2>4. ASSUME NEW s \in Small(n + 1), s # {}
          PROVE  Pick(s) \in S /\ s \ {Pick(s)} \in Small(n)
      <3>1. /\ Pick(s) \in s /\ Cardinality(s) \in Nat
            /\ Cardinality(s \ {Pick(s)}) = Cardinality(s) - 1
        BY <1>1, <2>4, PickTakesOff
      <3> QED
        BY <3>1
    <2> DEFINE big == [s \in Small(n + 1) |->
                         IF s = {} THEN 0 ELSE h[Pick(s)] + it[s \ {Pick(s)}]]
    <2>5. big \in [Small(n + 1) -> Int]
      <3> HIDE DEF Small
      <3> QED
        BY <2>2, <2>4
    <2>6. Small(n) \subseteq Small(n + 1)
      BY <1>1
    <2>7. \A s \in Small(n) : big[s] = it[s]
      <3> HIDE DEF Small
      <3> QED
        BY <2>3, <2>6
    <2>8. big = [s \in Small(n + 1) |->
                   IF s = {} THEN 0 ELSE h[Pick(s)] + big[s \ {Pick(s)}]]
      <3>1. ASSUME NEW s \in Small(n + 1), s # {}
            PROVE  big[s \ {Pick(s)}] = it[s \ {Pick(s)}]
        BY <2>4, <2>7, <3>1
      <3>2. big = [s \in Small(n + 1) |->
                     IF s = {} THEN 0 ELSE h[Pick(s)] + it[s \ {Pick(s)}]]
        OBVIOUS
      <3> HIDE DEF big, Small
      <3> QED
        BY <3>1, <3>2
    <2> HIDE DEF big, Small
    <2>9. Totals(big, h, Small(n + 1))
      BY <2>5, <2>8 DEF Totals
    <2> QED
      BY <2>9
  <1> HIDE DEF N
  <1>4. Nat \subseteq N
    BY <1>2, <1>3, NatSetInduction
  <1>5. PICK n \in Nat : n = Cardinality(S)
    BY FS_CardinalityType
  <1>6. SUBSET S = Small(n)
    BY <1>5, <1>1, FS_Subset
  <1>7. n \in N
    BY <1>4
  <1> HIDE DEF Small
  <1> QED
    BY <1>6, <1>7 DEF N

LEMMA SumIsTotal ==
  ASSUME NEW S, IsFiniteSet(S), NEW h \in [S -> Int]
  PROVE  \E it : Totals(it, h, SUBSET S) /\ SumFunction(h) = it[S]
  <1> DEFINE body(t) == [s \in SUBSET S |->
                           IF s = {} THEN 0
                           ELSE h[CHOOSE x \in s : TRUE] + t[s \ {CHOOSE x \in s : TRUE}]]
             it == CHOOSE t : t = body(t)
  <1>1. DOMAIN h = S
    OBVIOUS
  <1>2. SumFunction(h) = it[S]
    BY <1>1 DEF SumFunction, SumFunctionOnSet, FoldFunctionOnSet, MapThenFoldSet
  <1>3. PICK t : Totals(t, h, SUBSET S)
    BY TotalsExist
  <1>4. t = body(t)
    BY <1>3 DEF Totals, Pick
  <1>5. it = body(it)
    <2> HIDE DEF body
    <2> QED
      BY <1>4
  <1> HIDE DEF it
  <1>6. it \in [SUBSET S -> Int]
    <2> DEFINE F == {s \in SUBSET S : it[s] \in Int}
    <2>1. DOMAIN it = SUBSET S
      BY <1>5
    <2>2. \A s \in SUBSET S : it[s] = IF s = {} THEN 0 ELSE h[Pick(s)] + it[s \ {Pick(s)}]
      <3>1. it = [s \in SUBSET S |-> IF s = {} THEN 0 ELSE h[Pick(s)] + it[s \ {Pick(s)}]]
        BY <1>5 DEF Pick
      <3> QED
        BY <3>1
    <2>3. {} \in F
      <3>1. {} \in SUBSET S
        OBVIOUS
      <3>2. it[{}] = 0
        BY <2>2, <3>1
      <3> QED
        BY <3>1, <3>2
    <2>4. ASSUME NEW s \in SUBSET S, s # {}, s \ {Pick(s)} \in F PROVE s \in F
      <3>1. Pick(s) \in S
        BY <2>4 DEF Pick
      <3> QED
        BY <2>2, <2>4, <3>1
    <2>5. SUBSET S \subseteq F
      <3> HIDE DEF F
      <3> QED
        BY <2>3, <2>4, SubsetInduction
    <2>6. it = [s \in SUBSET S |-> it[s]]
      BY <1>5
    <2> QED
      BY <2>5, <2>6
  <1>7. Totals(it, h, SUBSET S)
    <2>1. it = [s \in SUBSET S |-> IF s = {} THEN 0 ELSE h[Pick(s)] + it[s \ {Pick(s)}]]
      BY <1>5 DEF Pick
    <2> QED
      BY <1>6, <2>1 DEF Totals
  <1> QED
    BY <1>2, <1>7

(* A sum lies between the number of its terms times the least and times    *)
(* the largest value of a term.                                            *)
LEMMA SumBounds ==
  ASSUME NEW S, IsFiniteSet(S), NEW low \in Nat, NEW high \in Nat,
         NEW h \in [S -> low .. high]
  PROVE  /\ SumFunction(h) \in Nat
         /\ Cardinality(S) * low <= SumFunction(h)
         /\ SumFunction(h) <= Cardinality(S) * high
  <1>1. h \in [S -> Int]
    OBVIOUS
  <1>2. PICK it : Totals(it, h, SUBSET S) /\ SumFunction(h) = it[S]
    BY <1>1, SumIsTotal
  <1>3. it \in [SUBSET S -> Int]
    BY <1>2 DEF Totals
  <1>4. \A s \in SUBSET S : it[s] = IF s = {} THEN 0 ELSE h[Pick(s)] + it[s \ {Pick(s)}]
    BY <1>2 DEF Totals
  <1> DEFINE F == {s \in SUBSET S : /\ Cardinality(s) * low <= it[s]
                                    /\ it[s] <= Cardinality(s) * high}
  <1>5. {} \in F
    <2>1. it[{}] = 0 /\ Cardinality({}) = 0
      BY <1>4, FS_EmptySet
    <2> QED
      BY <2>1
  <1>6. ASSUME NEW s \in SUBSET S, s # {}, s \ {Pick(s)} \in F PROVE s \in F
    <2>1. IsFiniteSet(s)
      BY FS_Subset
    <2>2. PICK x \in S : x = Pick(s)
      BY <1>6 DEF Pick
    <2>3. PICK n \in Nat : n + 1 = Cardinality(s) /\ n = Cardinality(s \ {x})
      <3>1. /\ Cardinality(s) \in Nat /\ Cardinality(s) > 0
            /\ Cardinality(s \ {x}) = Cardinality(s) - 1
        BY <1>6, <2>1, <2>2, PickTakesOff
      <3> QED
        BY <3>1
    <2>4. PICK a \in Int, b \in Int, c \in low .. high :
            a = it[s] /\ b = it[s \ {x}] /\ c = h[x]
      BY <1>3
    <2>5. a = c + b
      BY <1>4, <1>6, <2>2, <2>4
    <2>6. n * low <= b /\ b <= n * high
      BY <1>6, <2>2, <2>3, <2>4
    <2>7. /\ n * low \in Int /\ (n + 1) * low = n * low + low
          /\ n * high \in Int /\ (n + 1) * high = n * high + high
      BY Distribute
    <2>8. (n + 1) * low <= a /\ a <= (n + 1) * high
      BY <2>5, <2>6, <2>7
    <2> QED
      BY <2>3, <2>4, <2>8
  <1>7. S \in F
    <2> HIDE DEF F
    <2> QED
      BY <1>5, <1>6, SubsetInduction
  <1>8. Cardinality(S) \in Nat
    BY FS_CardinalityType
  <1>9. it[S] \in Int /\ Cardinality(S) * low >= 0
    <2>1. PICK n \in Nat : n = Cardinality(S)
      BY <1>8
    <2>2. 0 * low <= n * low
      BY TimesMonotone
    <2> QED
      BY <1>3, <2>1, <2>2
  <1>10. Cardinality(S) * low <= it[S] /\ it[S] <= Cardinality(S) * high
    BY <1>7
  <1>11. it[S] \in Nat
    <2>1. PICK n \in Int : n = Cardinality(S) * low
      BY <1>8
    <2> QED
      BY <1>9, <1>10, <2>1
  <1> QED
    BY <1>2, <1>10, <1>11

(* A sum of zeros and ones counts the ones.                                *)
LEMMA SumCountsOnes ==
  ASSUME NEW S, IsFiniteSet(S), NEW h \in [S -> {0, 1}]
  PROVE  SumFunction(h) = Cardinality({x \in S : h[x] = 1})
  <1>1. h \in [S -> Int]
    OBVIOUS
  <1>2. PICK it : Totals(it, h, SUBSET S) /\ SumFunction(h) = it[S]
    BY <1>1, SumIsTotal
  <1>4. \A s \in SUBSET S : it[s] = IF s = {} THEN 0 ELSE h[Pick(s)] + it[s \ {Pick(s)}]
    BY <1>2 DEF Totals
  <1> DEFINE Ones(s) == {x \in s : h[x] = 1}
             F == {s \in SUBSET S : it[s] = Cardinality(Ones(s))}
  <1>5. {} \in F
    <2>1. it[{}] = 0 /\ Cardinality({}) = 0 /\ Ones({}) = {}
      BY <1>4, FS_EmptySet
    <2> HIDE DEF Ones
    <2> QED
      BY <2>1
  <1>6. ASSUME NEW s \in SUBSET S, s # {}, s \ {Pick(s)} \in F PROVE s \in F
    <2>1. PICK x \in s : x = Pick(s)
      BY <1>6 DEF Pick
    <2>2. it[s] = h[x] + Cardinality(Ones(s \ {x}))
      BY <1>4, <1>6, <2>1
    <2>3. IsFiniteSet(Ones(s))
      BY FS_Subset
    <2>4. CASE h[x] = 1
      <3>1. x \in Ones(s) /\ Ones(s \ {x}) = Ones(s) \ {x}
        BY <2>4
      <3> HIDE DEF Ones
      <3>2. Cardinality(Ones(s)) \in Nat /\ Cardinality(Ones(s \ {x})) = Cardinality(Ones(s)) - 1
        BY <2>3, <3>1, FS_RemoveElement, FS_CardinalityType
      <3>3. it[s] = Cardinality(Ones(s))
        BY <2>2, <2>4, <3>2
      <3> QED
        BY <3>3
    <2>5. CASE h[x] = 0
      <3>1. Ones(s \ {x}) = Ones(s)
        BY <2>5
      <3> HIDE DEF Ones
      <3>2. Cardinality(Ones(s)) \in Nat
        BY <2>3, FS_CardinalityType
      <3>3. it[s] = Cardinality(Ones(s))
        BY <2>2, <2>5, <3>1, <3>2
      <3> QED
        BY <3>3
    <2>6. h[x] = 0 \/ h[x] = 1
      OBVIOUS
    <2> QED
      BY <2>4, <2>5, <2>6
  <1>7. S \in F
    <2> HIDE DEF F
    <2> QED
      BY <1>5, <1>6, SubsetInduction
  <1> QED
    BY <1>2, <1>7

(* The column i goes before j: its score is higher, or as high and i was   *)
(* held when smoothing prefers that, or comes first.                       *)
Above(row, i, j, previous, smooth) ==
  \/ row[i] > row[j]
  \/ row[i] = row[j] /\ smooth /\ i \in previous /\ j \notin previous
  \/ row[i] = row[j] /\ (smooth => (i \in previous <=> j \in previous)) /\ i < j

LEMMA PrecedesIsAbove ==
  ASSUME NEW n \in Nat, NEW row \in [0 .. n - 1 -> Int], NEW previous,
         NEW epsilon2 \in 0 .. 2, NEW i \in 0 .. n - 1, NEW j \in 0 .. n - 1
  PROVE  Precedes(row, i, j, previous, epsilon2) <=> Above(row, i, j, previous, epsilon2 > 0)
  <1>1. PICK a \in Int, b \in Int : a = row[i] /\ b = row[j]
    OBVIOUS
  <1>2. CASE a = b
    <2>1. Precedes(row, i, j, previous, epsilon2) <=>
            IF epsilon2 > 0 /\ (i \in previous) # (j \in previous) THEN i \in previous ELSE i < j
      <3>1. 2 * (row[i] - row[j]) = 0
        BY <1>1, <1>2
      <3>2. (0 < epsilon2 /\ -0 < epsilon2) <=> epsilon2 > 0
        OBVIOUS
      <3> QED
        BY <3>1, <3>2 DEF Precedes
    <2>2. Above(row, i, j, previous, epsilon2 > 0) <=>
            \/ epsilon2 > 0 /\ i \in previous /\ j \notin previous
            \/ (epsilon2 > 0 => (i \in previous <=> j \in previous)) /\ i < j
      BY <1>1, <1>2 DEF Above
    <2>3. CASE i \in previous /\ j \in previous
      BY <2>1, <2>2, <2>3
    <2>4. CASE i \in previous /\ j \notin previous
      BY <2>1, <2>2, <2>4
    <2>5. CASE i \notin previous /\ j \in previous
      BY <2>1, <2>2, <2>5
    <2>6. CASE i \notin previous /\ j \notin previous
      BY <2>1, <2>2, <2>6
    <2> QED
      BY <2>3, <2>4, <2>5, <2>6
  <1>3. CASE a # b
    <2>1. PICK d \in Int : d = 2 * (a - b)
      OBVIOUS
    <2>2. ~(d < epsilon2 /\ -d < epsilon2) /\ d # 0 /\ (d > 0 <=> a > b)
      BY <1>3, <2>1
    <2>3. d = 2 * (row[i] - row[j])
      BY <1>1, <2>1
    <2>4. Precedes(row, i, j, previous, epsilon2) <=> d > 0
      BY <2>2, <2>3 DEF Precedes
    <2>5. Above(row, i, j, previous, epsilon2 > 0) <=> a > b
      BY <1>1, <1>3 DEF Above
    <2> QED
      BY <2>2, <2>4, <2>5
  <1> QED
    BY <1>2, <1>3

LEMMA AboveIsOrder ==
  ASSUME NEW n \in Nat, NEW row \in [0 .. n - 1 -> Int], NEW previous, NEW smooth \in BOOLEAN,
         NEW i \in 0 .. n - 1, NEW j \in 0 .. n - 1, NEW k \in 0 .. n - 1
  PROVE  /\ ~Above(row, i, i, previous, smooth)
         /\ i # j => Above(row, i, j, previous, smooth) \/ Above(row, j, i, previous, smooth)
         /\ Above(row, i, j, previous, smooth) /\ Above(row, j, k, previous, smooth) =>
              Above(row, i, k, previous, smooth)
  <1>1. PICK a \in Int, b \in Int, c \in Int : a = row[i] /\ b = row[j] /\ c = row[k]
    OBVIOUS
  <1>2. ~Above(row, i, i, previous, smooth)
    BY <1>1 DEF Above
  <1>3. ASSUME i # j
        PROVE  Above(row, i, j, previous, smooth) \/ Above(row, j, i, previous, smooth)
    <2>1. a > b \/ b > a \/ a = b
      OBVIOUS
    <2>2. i < j \/ j < i
      BY <1>3
    <2> QED
      BY <1>1, <2>1, <2>2 DEF Above
  <1>4. ASSUME Above(row, i, j, previous, smooth), Above(row, j, k, previous, smooth)
        PROVE  Above(row, i, k, previous, smooth)
    <2>1. \/ a > b
          \/ a = b /\ smooth /\ i \in previous /\ j \notin previous
          \/ a = b /\ (smooth => (i \in previous <=> j \in previous)) /\ i < j
      BY <1>1, <1>4 DEF Above
    <2>2. \/ b > c
          \/ b = c /\ smooth /\ j \in previous /\ k \notin previous
          \/ b = c /\ (smooth => (j \in previous <=> k \in previous)) /\ j < k
      BY <1>1, <1>4 DEF Above
    <2>3. \/ a > c
          \/ a = c /\ smooth /\ i \in previous /\ k \notin previous
          \/ a = c /\ (smooth => (i \in previous <=> k \in previous)) /\ i < k
      BY <2>1, <2>2
    <2> QED
      BY <1>1, <2>3 DEF Above
  <1> QED
    BY <1>2, <1>3, <1>4

(* The first k naturals are k.                                             *)
LEMMA FirstNaturals ==
  ASSUME NEW k \in Nat
  PROVE  IsFiniteSet(0 .. k - 1) /\ Cardinality(0 .. k - 1) = k
  <1>1. 0 \in Int /\ k - 1 \in Int
    OBVIOUS
  <1>2. /\ IsFiniteSet(0 .. k - 1)
        /\ Cardinality(0 .. k - 1) = IF 0 > k - 1 THEN 0 ELSE (k - 1) - 0 + 1
    BY <1>1, FS_Interval
  <1>3. (IF 0 > k - 1 THEN 0 ELSE (k - 1) - 0 + 1) = k
    OBVIOUS
  <1> QED
    BY <1>2, <1>3

(* The k lowest of n different ranks below n.                              *)
LEMMA RanksBelow ==
  ASSUME NEW n \in Nat, NEW rank \in [0 .. n - 1 -> 0 .. n - 1], NEW k \in 0 .. n,
         \A i, j \in 0 .. n - 1 : i # j => rank[i] # rank[j]
  PROVE  Cardinality({i \in 0 .. n - 1 : rank[i] < k}) = k
  <1> DEFINE D == 0 .. n - 1
             low == {i \in D : rank[i] < k}
             f == [i \in low |-> rank[i]]
  <1>1. IsFiniteSet(D) /\ Cardinality(D) = n
    BY FirstNaturals
  <1>2. rank \in Injection(D, D)
    BY DEF Injection, IsInjective
  <1>3. rank \in Surjection(D, D)
    BY <1>1, <1>2, FS_Injection
  <1>4. f \in [low -> 0 .. k - 1]
    OBVIOUS
  <1>5. f \in Injection(low, 0 .. k - 1)
    BY <1>4 DEF Injection, IsInjective
  <1>6. f \in Surjection(low, 0 .. k - 1)
    <2> SUFFICES ASSUME NEW r \in 0 .. k - 1 PROVE \E i \in low : f[i] = r
      BY <1>4 DEF Surjection
    <2>1. r \in D
      OBVIOUS
    <2>2. PICK i \in D : rank[i] = r
      BY <1>3, <2>1 DEF Surjection
    <2>3. i \in low /\ f[i] = r
      BY <2>2
    <2> QED
      BY <2>3
  <1>7. IsFiniteSet(0 .. k - 1) /\ Cardinality(0 .. k - 1) = k
    <2>1. k \in Nat
      OBVIOUS
    <2> QED
      BY <2>1, FirstNaturals
  <1> HIDE DEF f, low
  <1>8. Cardinality(low) = Cardinality(0 .. k - 1)
    BY <1>5, <1>6, <1>7, FS_Injection
  <1> QED
    BY <1>7, <1>8 DEF low

(* Exactly the k columns above all others.                                 *)
Selected(chosen, row, n, k, previous, smooth) ==
  /\ chosen \subseteq 0 .. n - 1
  /\ IsFiniteSet(chosen) /\ Cardinality(chosen) = k
  /\ \A i \in chosen, j \in 0 .. n - 1 :
       j \notin chosen => Above(row, i, j, previous, smooth)

(* For every row of scores, the selection of a frame's speakers has        *)
(* exactly as many as were counted, none of lower score than one left out, *)
(* and with smoothing none that is new while one with the same score that  *)
(* spoke in the frame before is left out (reconstruct.rs).                 *)
THEOREM SelectionIsExact ==
  ASSUME NEW n \in Nat, NEW row \in [0 .. n - 1 -> Int], NEW previous,
         NEW epsilon2 \in 0 .. 2, NEW k \in 0 .. n
  PROVE  Selected(TopK(row, k, previous, epsilon2), row, n, k, previous, epsilon2 > 0)
  <1> DEFINE D == 0 .. n - 1
             smooth == epsilon2 > 0
             Ahead(i) == {j \in D \ {i} : Above(row, j, i, previous, smooth)}
             rank == [i \in D |-> Cardinality(Ahead(i))]
             chosen == TopK(row, k, previous, epsilon2)
  <1>1. smooth \in BOOLEAN /\ DOMAIN row = D
    OBVIOUS
  <1>2. IsFiniteSet(D) /\ Cardinality(D) = n
    BY FirstNaturals
  <1>3. chosen = {i \in D : Cardinality(Ahead(i)) < k}
    <2>1. ASSUME NEW i \in D
          PROVE  {j \in D \ {i} : Precedes(row, j, i, previous, epsilon2)} = Ahead(i)
      BY PrecedesIsAbove
    <2>2. chosen = {i \in D :
                      Cardinality({j \in D \ {i} : Precedes(row, j, i, previous, epsilon2)}) < k}
      BY <1>1 DEF TopK
    <2> HIDE DEF Ahead, D, chosen
    <2> QED
      BY <2>1, <2>2
  <1> HIDE DEF smooth, chosen
  <1>4. ASSUME NEW i \in D
        PROVE  IsFiniteSet(Ahead(i)) /\ Cardinality(Ahead(i)) \in 0 .. n - 1
    <2>1. IsFiniteSet(D \ {i}) /\ Cardinality(D \ {i}) = n - 1
      <3> HIDE DEF D
      <3> QED
        BY <1>2, FS_RemoveElement
    <2>2. Ahead(i) \in SUBSET (D \ {i})
      OBVIOUS
    <2> HIDE DEF Ahead, D
    <2>3. IsFiniteSet(Ahead(i)) /\ Cardinality(Ahead(i)) <= Cardinality(D \ {i})
      BY <2>1, <2>2, FS_Subset
    <2>4. Cardinality(Ahead(i)) \in Nat
      BY <2>3, FS_CardinalityType
    <2> QED
      BY <2>1, <2>3, <2>4
  <1>5. ASSUME NEW i \in D, NEW j \in D, Above(row, i, j, previous, smooth)
        PROVE  rank[i] < rank[j]
    <2>1. i # j
      BY <1>1, <1>5, AboveIsOrder
    <2>2. i \in Ahead(j) /\ i \notin Ahead(i)
      BY <1>5, <2>1
    <2>3. ASSUME NEW m \in Ahead(i) PROVE m \in Ahead(j)
      <3>1. m \in D /\ Above(row, m, i, previous, smooth)
        BY <2>3
      <3>2. Above(row, m, j, previous, smooth)
        BY <1>1, <1>5, <3>1, AboveIsOrder
      <3>3. m # j
        BY <1>1, <3>2, AboveIsOrder
      <3> QED
        BY <3>1, <3>2, <3>3
    <2>4. rank[i] = Cardinality(Ahead(i)) /\ rank[j] = Cardinality(Ahead(j))
      OBVIOUS
    <2> HIDE DEF Ahead, rank, D
    <2>5. IsFiniteSet(Ahead(j)) /\ Cardinality(Ahead(j)) \in Int /\ Cardinality(Ahead(i)) \in Int
      <3>1. Cardinality(Ahead(i)) \in 0 .. n - 1 /\ Cardinality(Ahead(j)) \in 0 .. n - 1
        BY <1>4
      <3>2. IsFiniteSet(Ahead(j))
        BY <1>4
      <3> QED
        BY <3>1, <3>2
    <2>6. Ahead(i) \in SUBSET Ahead(j) /\ Ahead(i) # Ahead(j)
      BY <2>2, <2>3
    <2>7. Cardinality(Ahead(i)) <= Cardinality(Ahead(j))
      BY <2>5, <2>6, FS_Subset
    <2>8. Cardinality(Ahead(i)) # Cardinality(Ahead(j))
      BY <2>5, <2>6, FS_Subset
    <2> QED
      BY <2>4, <2>5, <2>7, <2>8
  <1>6. rank \in [D -> 0 .. n - 1]
    BY <1>4
  <1>7. ASSUME NEW i \in D, NEW j \in D, i # j PROVE rank[i] # rank[j]
    <2>1. Above(row, i, j, previous, smooth) \/ Above(row, j, i, previous, smooth)
      BY <1>1, <1>7, AboveIsOrder
    <2>2. rank[i] \in Int /\ rank[j] \in Int
      BY <1>6
    <2> HIDE DEF rank
    <2> QED
      BY <1>5, <2>1, <2>2
  <1>8. chosen = {i \in D : rank[i] < k}
    BY <1>3
  <1> HIDE DEF rank
  <1>9. Cardinality(chosen) = k
    BY <1>6, <1>7, <1>8, RanksBelow
  <1>10. chosen \in SUBSET D /\ IsFiniteSet(chosen)
    BY <1>2, <1>8, FS_Subset
  <1>11. ASSUME NEW i \in chosen, NEW j \in D, j \notin chosen
         PROVE  Above(row, i, j, previous, smooth)
    <2>1. i \in D /\ rank[i] < k /\ ~(rank[j] < k) /\ i # j
      BY <1>8, <1>11
    <2>2. rank[i] \in Int /\ rank[j] \in Int
      BY <1>6, <2>1
    <2>3. ~Above(row, j, i, previous, smooth)
      BY <1>5, <2>1, <2>2
    <2> QED
      BY <1>1, <2>1, <2>3, AboveIsOrder
  <1> QED
    BY <1>9, <1>10, <1>11 DEF Selected, smooth, chosen

LEMMA Remainder ==
  ASSUME NEW x \in Int, NEW b \in Int, b > 0
  PROVE  x % b = x - b * (x \div b)
  OBVIOUS

(* A mean, rounded, stays between whole numbers the mean lies between.     *)
LEMMA RoundBounds ==
  ASSUME NEW sum \in Nat, NEW weight \in Nat \ {0}, NEW m \in Nat
  PROVE  /\ RoundTiesEven(sum, weight) \in Nat
         /\ sum <= weight * m => RoundTiesEven(sum, weight) <= m
         /\ weight * m <= sum => m <= RoundTiesEven(sum, weight)
  <1>1. PICK down \in Nat : down = sum \div weight /\ down * weight <= sum
                            /\ sum < down * weight + weight
    BY DivBounds
  <1>2. PICK p \in Nat : p = down * weight
    OBVIOUS
  <1>3. PICK rest \in Nat : rest = sum % weight /\ rest = sum - p
    <2>1. sum % weight = sum - weight * down
      BY <1>1, Remainder
    <2>2. weight * down = p
      BY <1>2
    <2>3. sum % weight = sum - p
      BY <2>1, <2>2
    <2> QED
      BY <1>1, <1>2, <2>3
  <1>4. PICK result \in {down, down + 1} : /\ result = RoundTiesEven(sum, weight)
                                           /\ rest = 0 => result = down
    <2>1. RoundTiesEven(sum, weight) =
            IF 2 * rest > weight \/ (2 * rest = weight /\ down % 2 = 1) THEN down + 1 ELSE down
      BY <1>1, <1>3 DEF RoundTiesEven
    <2> QED
      BY <2>1
  <1>5. ASSUME sum <= weight * m PROVE result <= m
    <2>1. weight * m = m * weight
      OBVIOUS
    <2>2. CASE down >= m + 1
      <3>1. (m + 1) * weight <= down * weight
        BY <2>2, TimesMonotone
      <3>2. (m + 1) * weight = m * weight + weight
        BY Distribute
      <3>3. PICK q \in Nat : q = m * weight
        OBVIOUS
      <3> QED
        BY <1>1, <1>2, <1>5, <2>1, <3>1, <3>2, <3>3
    <2>3. CASE down = m
      <3>1. rest = 0
        BY <1>1, <1>2, <1>3, <1>5, <2>1, <2>3
      <3> QED
        BY <1>4, <2>3, <3>1
    <2>4. CASE down < m
      BY <2>4
    <2> QED
      BY <2>2, <2>3, <2>4
  <1>6. ASSUME weight * m <= sum PROVE m <= result
    <2>1. weight * m = m * weight
      OBVIOUS
    <2>2. ASSUME down + 1 <= m PROVE FALSE
      <3>1. (down + 1) * weight <= m * weight
        BY <2>2, TimesMonotone
      <3>2. (down + 1) * weight = down * weight + weight
        BY Distribute
      <3>3. PICK q \in Nat : q = m * weight
        OBVIOUS
      <3> QED
        BY <1>1, <1>2, <1>6, <2>1, <3>1, <3>2, <3>3
    <2> QED
      BY <2>2
  <1> QED
    BY <1>4, <1>5, <1>6

LEMMA FiniteMax ==
  ASSUME NEW S \in SUBSET Int, IsFiniteSet(S), S # {}
  PROVE  Max(S) \in S /\ \A y \in S : Max(S) >= y
  <1> DEFINE F == {s \in SUBSET S : s # {} => \E x \in s : \A y \in s : x >= y}
  <1>1. {} \in F
    OBVIOUS
  <1>2. ASSUME NEW s \in SUBSET S, s # {}, s \ {Pick(s)} \in F PROVE s \in F
    <2>1. PICK p \in s : p = Pick(s)
      BY <1>2 DEF Pick
    <2>2. CASE s \ {p} = {}
      <3>1. \A y \in s : p >= y
        BY <2>2
      <3> QED
        BY <3>1
    <2>3. CASE s \ {p} # {}
      <3>1. PICK x \in s \ {p} : \A y \in s \ {p} : x >= y
        BY <1>2, <2>1, <2>3
      <3>2. CASE x >= p
        BY <3>1, <3>2
      <3>3. CASE p >= x
        <4>1. \A y \in s : p >= y
          BY <3>1, <3>3
        <4> QED
          BY <4>1
      <3> QED
        BY <3>2, <3>3
    <2> QED
      BY <2>2, <2>3
  <1>3. S \in F
    <2> HIDE DEF F
    <2> QED
      BY <1>1, <1>2, SubsetInduction
  <1>4. \E x \in S : \A y \in S : x >= y
    BY <1>3
  <1> QED
    BY <1>4 DEF Max

LEMMA FiniteRange ==
  ASSUME NEW S, IsFiniteSet(S), NEW h, DOMAIN h = S, h = [x \in S |-> h[x]]
  PROVE  IsFiniteSet({h[x] : x \in S})
  <1> DEFINE T == {h[x] : x \in S}
  <1>1. h \in Surjection(S, T)
    BY DEF Surjection
  <1> HIDE DEF T
  <1>2. IsFiniteSet(T)
    BY <1>1, FS_Surjection
  <1> QED
    BY <1>2 DEF T

(* The activity of every chunk and where the chunks start.                 *)
Chunked(segs, starts) ==
  /\ ChunkFrames(segs) \in Nat
  /\ IsFiniteSet(Speakers(segs))
  /\ segs \in Seq([0 .. ChunkFrames(segs) - 1 -> [Speakers(segs) -> {0, 1}]])
  /\ starts \in Seq(Nat)

(* Whom each chunk over an output frame hears in it.                       *)
HeardAt(segs, starts, f) ==
  [c \in Covering(segs, starts, 0, f) |->
     {s \in Speakers(segs) : segs[c][f - starts[c]][s] = 1}]

LEMMA CoveringFacts ==
  ASSUME NEW segs, NEW starts, Chunked(segs, starts), NEW f \in Nat
  PROVE  /\ Covering(segs, starts, 0, f) \subseteq DOMAIN segs
         /\ IsFiniteSet(Covering(segs, starts, 0, f))
         /\ Cardinality(Covering(segs, starts, 0, f)) \in Nat
         /\ Cardinality(Covering(segs, starts, 0, f)) = 0 <=> Covering(segs, starts, 0, f) = {}
         /\ \A c \in Covering(segs, starts, 0, f) :
              segs[c][f - starts[c]] \in [Speakers(segs) -> {0, 1}]
  <1> DEFINE C == Covering(segs, starts, 0, f)
  <1>1. DOMAIN segs = 1 .. Len(segs) /\ Len(segs) \in Nat
    BY DEF Chunked
  <1>2. C \subseteq DOMAIN segs
    BY DEF Covering
  <1>3. IsFiniteSet(C)
    <2>1. IsFiniteSet(1 .. Len(segs))
      BY <1>1, FS_Interval
    <2> HIDE DEF C
    <2> QED
      BY <1>1, <1>2, <2>1, FS_Subset
  <1>4. Cardinality(C) \in Nat /\ (Cardinality(C) = 0 <=> C = {})
    <2> HIDE DEF C
    <2> QED
      BY <1>3, FS_CardinalityType, FS_EmptySet
  <1>5. ASSUME NEW c \in C PROVE segs[c][f - starts[c]] \in [Speakers(segs) -> {0, 1}]
    <2>1. f - starts[c] \in 0 .. ChunkFrames(segs) - 0 - 1
      BY DEF Covering
    <2>2. segs[c] \in [0 .. ChunkFrames(segs) - 1 -> [Speakers(segs) -> {0, 1}]]
      BY <1>1, <1>2 DEF Chunked
    <2>3. ChunkFrames(segs) - 0 - 1 = ChunkFrames(segs) - 1
      BY DEF Chunked
    <2> HIDE DEF C
    <2> QED
      BY <2>1, <2>2, <2>3
  <1> QED
    BY <1>2, <1>3, <1>4, <1>5

(* No more speakers are counted than a chunk hears at most, and someone is *)
(* if every chunk hears someone.                                           *)
Counted(k, heard) ==
  /\ k \in Nat
  /\ \A m \in Nat : (\A c \in DOMAIN heard : Cardinality(heard[c]) <= m) => k <= m
  /\ DOMAIN heard # {} /\ (\A c \in DOMAIN heard : heard[c] # {}) => k > 0

LEMMA MeanIsCounted ==
  ASSUME NEW C, IsFiniteSet(C), NEW S, IsFiniteSet(S), NEW heard \in [C -> SUBSET S],
         NEW k,
         k = IF C = {} THEN 0
             ELSE RoundTiesEven(SumFunction([c \in C |-> Cardinality(heard[c])]), Cardinality(C))
  PROVE  Counted(k, heard)
  <1> DEFINE h == [c \in C |-> Cardinality(heard[c])]
  <1>1. \A c \in C : IsFiniteSet(heard[c]) /\ Cardinality(heard[c]) \in Nat
    BY FS_Subset, FS_CardinalityType
  <1>2. DOMAIN heard = C
    OBVIOUS
  <1>3. CASE C = {}
    BY <1>2, <1>3 DEF Counted
  <1>4. CASE C # {}
    <2>1. PICK weight \in Nat \ {0} : weight = Cardinality(C)
      BY <1>4, FS_CardinalityType, FS_EmptySet
    <2>2. ASSUME NEW m \in Nat, \A c \in C : Cardinality(heard[c]) <= m
          PROVE  k \in Nat /\ k <= m
      <3>1. h \in [C -> 0 .. m]
        BY <1>1, <2>2
      <3> HIDE DEF h
      <3>2. SumFunction(h) \in Nat /\ SumFunction(h) <= weight * m
        BY <2>1, <3>1, SumBounds
      <3>3. k = RoundTiesEven(SumFunction(h), weight)
        BY <1>4, <2>1 DEF h
      <3> QED
        BY <3>2, <3>3, RoundBounds
    <2>3. PICK m \in Nat : \A c \in C : Cardinality(heard[c]) <= m
      <3>1. Cardinality(S) \in Nat
        BY FS_CardinalityType
      <3>2. \A c \in C : Cardinality(heard[c]) <= Cardinality(S)
        BY FS_Subset
      <3> QED
        BY <3>1, <3>2
    <2>4. ASSUME \A c \in C : heard[c] # {} PROVE k > 0
      <3>1. \A c \in C : Cardinality(heard[c]) \in 1 .. m
        <4> SUFFICES ASSUME NEW c \in C PROVE Cardinality(heard[c]) \in 1 .. m
          OBVIOUS
        <4>1. Cardinality(heard[c]) # 0
          BY <1>1, <2>4, FS_EmptySet
        <4>2. Cardinality(heard[c]) \in Nat /\ Cardinality(heard[c]) <= m
          BY <1>1, <2>3
        <4> QED
          BY <4>1, <4>2
      <3>2. h \in [C -> 1 .. m]
        BY <3>1
      <3> HIDE DEF h
      <3>3. SumFunction(h) \in Nat /\ weight * 1 <= SumFunction(h)
        BY <2>1, <3>2, SumBounds
      <3>4. k = RoundTiesEven(SumFunction(h), weight)
        BY <1>4, <2>1 DEF h
      <3>5. 1 <= k /\ k \in Nat
        BY <3>3, <3>4, RoundBounds
      <3> QED
        BY <3>5
    <2>5. k \in Nat
      BY <2>2, <2>3
    <2> QED
      BY <1>2, <2>2, <2>4, <2>5 DEF Counted
  <1> QED
    BY <1>3, <1>4

LEMMA CountFollowsHeard ==
  ASSUME NEW segs, NEW starts, Chunked(segs, starts), segs # <<>>, NEW n \in Nat,
         NEW f \in 0 .. n - 1
  PROVE  Counted(SpeakerCount(segs, starts, 0, n)[f], HeardAt(segs, starts, f))
  <1> DEFINE C == Covering(segs, starts, 0, f)
             S == Speakers(segs)
             heard == HeardAt(segs, starts, f)
             spoken(c) == [s \in S |-> segs[c][f - starts[c]][s]]
             k == SpeakerCount(segs, starts, 0, n)[f]
  <1>1. f \in Upto(n) /\ f \in Nat
    BY DEF Upto
  <1>2. k = IF C = {} THEN 0
            ELSE RoundTiesEven(SumFunction([c \in C |-> SumFunction(spoken(c))]), Cardinality(C))
    BY <1>1 DEF SpeakerCount, SumOver
  <1>3. IsFiniteSet(C) /\ IsFiniteSet(S)
    BY <1>1, CoveringFacts DEF Chunked
  <1>4. heard = [c \in C |-> {s \in S : segs[c][f - starts[c]][s] = 1}]
    BY DEF HeardAt
  <1>5. ASSUME NEW c \in C PROVE SumFunction(spoken(c)) = Cardinality(heard[c])
    <2>1. segs[c][f - starts[c]] \in [S -> {0, 1}]
      BY <1>1, CoveringFacts
    <2>2. spoken(c) \in [S -> {0, 1}]
      BY <2>1
    <2>3. heard[c] = {s \in S : spoken(c)[s] = 1}
      BY <1>4
    <2> HIDE DEF spoken, heard, S
    <2> QED
      BY <1>3, <2>2, <2>3, SumCountsOnes
  <1>6. [c \in C |-> SumFunction(spoken(c))] = [c \in C |-> Cardinality(heard[c])]
    <2> HIDE DEF spoken, heard, C
    <2> QED
      BY <1>5
  <1>7. heard \in [C -> SUBSET S]
    BY <1>4
  <1> HIDE DEF C, S, heard, k, spoken
  <1>8. k = IF C = {} THEN 0
            ELSE RoundTiesEven(SumFunction([c \in C |-> Cardinality(heard[c])]), Cardinality(C))
    BY <1>2, <1>6
  <1>9. Counted(k, heard)
    BY <1>3, <1>7, <1>8, MeanIsCounted
  <1> QED
    BY <1>9 DEF k, heard

(* The chunks in which a speaker of the cluster is heard.                  *)
Voters(segs, starts, clusters, f, k) ==
  {c \in Covering(segs, starts, 0, f) :
     \E s \in HeardAt(segs, starts, f)[c] : clusters[c][s] = k}

Voted(activations, columns, segs, starts, clusters, count, n) ==
  /\ columns \in Nat
  /\ \A f \in 0 .. n - 1 : count[f] <= columns
  /\ \A c \in DOMAIN segs, s \in Speakers(segs) : clusters[c][s] < columns
  /\ activations = [f \in 0 .. n - 1 |->
                      [k \in 0 .. columns - 1 |->
                         Cardinality(Voters(segs, starts, clusters, f, k))]]

Tabled(U, m, D, T) == \A u \in U : \E c \in D, s \in T : u = m[c][s] + 1

LEMMA FiniteTable ==
  ASSUME NEW D, IsFiniteSet(D), NEW T, IsFiniteSet(T), NEW m \in [D -> [T -> Int]],
         NEW U, Tabled(U, m, D, T)
  PROVE  IsFiniteSet(U)
  <1> DEFINE row(c) == [s \in T |-> m[c][s] + 1]
             rows == [c \in D |-> {row(c)[s] : s \in T}]
  <1>1. ASSUME NEW c \in D PROVE IsFiniteSet(rows[c])
    <2>1. DOMAIN row(c) = T /\ row(c) = [s \in T |-> row(c)[s]]
      OBVIOUS
    <2>2. rows[c] = {row(c)[s] : s \in T}
      OBVIOUS
    <2> HIDE DEF row, rows
    <2>3. IsFiniteSet({row(c)[s] : s \in T})
      BY <2>1, FiniteRange
    <2> QED
      BY <2>2, <2>3
  <1>2. IsFiniteSet({rows[c] : c \in D})
    <2>1. DOMAIN rows = D /\ rows = [c \in D |-> rows[c]]
      OBVIOUS
    <2> HIDE DEF rows
    <2> QED
      BY <2>1, FiniteRange
  <1>3. IsFiniteSet(UNION {rows[c] : c \in D})
    <2> DEFINE all == {rows[c] : c \in D}
    <2>1. \A r \in all : IsFiniteSet(r)
      <3> HIDE DEF rows
      <3> QED
        BY <1>1
    <2> HIDE DEF rows, all
    <2>2. IsFiniteSet(all)
      BY <1>2 DEF all
    <2> QED
      BY <2>1, <2>2, FS_UNION DEF all
  <1>4. ASSUME NEW u \in U PROVE u \in UNION {rows[c] : c \in D}
    <2>1. PICK c \in D, s \in T : u = m[c][s] + 1
      BY DEF Tabled
    <2>2. u \in rows[c]
      BY <2>1
    <2> HIDE DEF rows
    <2> QED
      BY <2>2
  <1> HIDE DEF rows
  <1> QED
    BY <1>3, <1>4, FS_Subset

ScoreVotes(spoken, S, labels, k) ==
  LET score == Max({spoken[s] : s \in {t \in S : labels[t] = k}} \cup {0})
  IN  score \in {0, 1} /\ (score = 1 <=> \E s \in S : spoken[s] = 1 /\ labels[s] = k)

LEMMA ScoreIsVote ==
  ASSUME NEW S, NEW spoken \in [S -> {0, 1}], NEW labels, NEW k
  PROVE  ScoreVotes(spoken, S, labels, k)
  <1> DEFINE V == {spoken[s] : s \in {t \in S : labels[t] = k}} \cup {0}
  <1>1. V \subseteq {0, 1} /\ 0 \in V
    OBVIOUS
  <1>2. 1 \in V <=> \E s \in S : spoken[s] = 1 /\ labels[s] = k
    OBVIOUS
  <1> HIDE DEF V
  <1>3. CASE 1 \in V
    <2>1. 1 \in V /\ \A y \in V : 1 >= y
      BY <1>1, <1>3
    <2>2. Max(V) \in V /\ \A y \in V : Max(V) >= y
      BY <2>1 DEF Max
    <2>3. PICK m : m = Max(V)
      OBVIOUS
    <2>4. m \in {0, 1} /\ m >= 1
      BY <1>1, <2>1, <2>2, <2>3
    <2>5. Max(V) = 1
      BY <2>3, <2>4
    <2> QED
      BY <1>2, <1>3, <2>5 DEF V, ScoreVotes
  <1>4. CASE 1 \notin V
    <2>1. V = {0}
      BY <1>1, <1>4
    <2>2. Max(V) = 0
      BY <2>1 DEF Max
    <2> QED
      BY <1>2, <1>4, <2>2 DEF V, ScoreVotes
  <1> QED
    BY <1>3, <1>4

LEMMA ActivationsAreVotes ==
  ASSUME NEW segs, NEW starts, Chunked(segs, starts), NEW n \in Nat,
         NEW clusters \in [DOMAIN segs -> [Speakers(segs) -> Int]],
         NEW count \in [0 .. n - 1 -> Nat]
  PROVE  \E columns :
           Voted(FrameActivations(segs, starts, 0, clusters, count), columns,
                 segs, starts, clusters, count, n)
  <1> DEFINE S == Speakers(segs)
             labels == {clusters[c][s] : c \in DOMAIN segs, s \in S}
             next == {l + 1 : l \in labels} \cup {0}
             numClusters == Max(next)
             widths == {count[f] : f \in DOMAIN count} \cup {numClusters}
             columns == Max(widths)
             score(c, f, k) == Max({segs[c][f - starts[c]][s] :
                                    s \in {t \in S : clusters[c][t] = k}} \cup {0})
             C(f) == Covering(segs, starts, 0, f)
  <1>1. IsFiniteSet(S) /\ DOMAIN segs = 1 .. Len(segs) /\ Len(segs) \in Nat
    BY DEF Chunked
  <1>2. IsFiniteSet(DOMAIN segs) /\ IsFiniteSet(0 .. n - 1)
    BY <1>1, FS_Interval
  <1>3. IsFiniteSet(next) /\ next \subseteq Int /\ 0 \in next
    <2> DEFINE after == {l + 1 : l \in labels}
    <2>1. \A u \in after : \E c \in DOMAIN segs, s \in S : u = clusters[c][s] + 1
      OBVIOUS
    <2>4. \A l \in labels : l \in Int
      OBVIOUS
    <2>5. IsFiniteSet(after)
      <3>1. Tabled(after, clusters, DOMAIN segs, S)
        BY <2>1 DEF Tabled
      <3> HIDE DEF after
      <3> QED
        BY <1>1, <1>2, <3>1, FiniteTable
    <2> HIDE DEF labels
    <2>6. IsFiniteSet(after \cup {0})
      <3> HIDE DEF after
      <3> QED
        BY <2>5, FS_AddElement
    <2> QED
      BY <2>4, <2>6
  <1>4. numClusters \in Int /\ \A l \in next : numClusters >= l
    <2> HIDE DEF next
    <2> QED
      BY <1>3, FiniteMax
  <1>5. IsFiniteSet(widths) /\ widths \subseteq Int /\ numClusters \in widths
    <2>1. IsFiniteSet({count[f] : f \in 0 .. n - 1})
      <3>1. DOMAIN count = 0 .. n - 1 /\ count = [f \in 0 .. n - 1 |-> count[f]]
        OBVIOUS
      <3> QED
        BY <1>2, <3>1, FiniteRange
    <2>2. widths = {count[f] : f \in 0 .. n - 1} \cup {numClusters}
      OBVIOUS
    <2>3. {count[f] : f \in 0 .. n - 1} \subseteq Int
      OBVIOUS
    <2> HIDE DEF widths, numClusters
    <2>4. IsFiniteSet(widths)
      BY <2>1, <2>2, FS_AddElement
    <2> QED
      BY <1>4, <2>2, <2>3, <2>4
  <1>6. columns \in Int /\ \A w \in widths : columns >= w
    <2>1. widths \in SUBSET Int /\ widths # {} /\ IsFiniteSet(widths)
      <3> HIDE DEF widths, numClusters
      <3> QED
        BY <1>5
    <2> HIDE DEF widths, numClusters
    <2>2. Max(widths) \in widths /\ \A w \in widths : Max(widths) >= w
      BY <2>1, FiniteMax
    <2> QED
      BY <2>1, <2>2
  <1>7. columns >= numClusters /\ columns \in Nat
    <2>1. columns >= numClusters
      <3> HIDE DEF columns, numClusters
      <3> QED
        BY <1>5, <1>6
    <2> HIDE DEF columns, numClusters, next
    <2>2. numClusters >= 0
      BY <1>3, <1>4
    <2> QED
      BY <1>4, <1>6, <2>1, <2>2
  <1>8. ASSUME NEW f \in 0 .. n - 1 PROVE count[f] <= columns
    <2>1. count[f] \in widths /\ count[f] \in Int
      OBVIOUS
    <2> HIDE DEF columns, widths
    <2> QED
      BY <1>6, <2>1
  <1>9. ASSUME NEW c \in DOMAIN segs, NEW s \in S PROVE clusters[c][s] < columns
    <2>1. clusters[c][s] + 1 \in next /\ clusters[c][s] \in Int
      OBVIOUS
    <2> HIDE DEF columns, next, numClusters
    <2> QED
      BY <1>4, <1>6, <1>7, <2>1
  <1>10. FrameActivations(segs, starts, 0, clusters, count) =
           [f \in DOMAIN count |->
              [k \in Upto(columns) |-> SumFunction([c \in C(f) |-> score(c, f, k)])]]
    BY DEF FrameActivations, SumOver
  <1> HIDE DEF columns
  <1>11. ASSUME NEW f \in 0 .. n - 1, NEW k \in 0 .. columns - 1
         PROVE  SumFunction([c \in C(f) |-> score(c, f, k)]) =
                  Cardinality(Voters(segs, starts, clusters, f, k))
    <2> DEFINE h == [c \in C(f) |-> score(c, f, k)]
    <2>0. f \in Nat
      OBVIOUS
    <2>1. ASSUME NEW c \in C(f)
          PROVE  /\ h[c] \in {0, 1}
                 /\ h[c] = 1 <=> \E s \in HeardAt(segs, starts, f)[c] : clusters[c][s] = k
      <3>1. PICK spoken \in [S -> {0, 1}] : spoken = segs[c][f - starts[c]]
        BY <2>0, CoveringFacts
      <3>2. h[c] = Max({spoken[s] : s \in {t \in S : clusters[c][t] = k}} \cup {0})
        BY <3>1
      <3>3. HeardAt(segs, starts, f)[c] = {s \in S : spoken[s] = 1}
        BY <3>1 DEF HeardAt
      <3>4. PICK given : given = clusters[c]
        OBVIOUS
      <3> DEFINE m == Max({spoken[s] : s \in {t \in S : given[t] = k}} \cup {0})
      <3>5. m \in {0, 1} /\ (m = 1 <=> \E s \in S : spoken[s] = 1 /\ given[s] = k)
        <4>1. ScoreVotes(spoken, S, given, k)
          <5> HIDE DEF S
          <5> QED
            BY ScoreIsVote
        <4> QED
          BY <4>1 DEF ScoreVotes
      <3>6. h[c] = m
        BY <3>2, <3>4
      <3>7. (\E s \in HeardAt(segs, starts, f)[c] : clusters[c][s] = k) <=>
              \E s \in S : spoken[s] = 1 /\ given[s] = k
        BY <3>3, <3>4
      <3> HIDE DEF S, h, m
      <3> QED
        BY <3>5, <3>6, <3>7
    <2>2. DOMAIN h = C(f) /\ h = [c \in C(f) |-> h[c]]
      OBVIOUS
    <2>3. IsFiniteSet(C(f))
      BY <2>0, CoveringFacts
    <2> HIDE DEF C, h
    <2>4. h \in [C(f) -> {0, 1}]
      BY <2>1, <2>2
    <2>5. {c \in C(f) : h[c] = 1} = Voters(segs, starts, clusters, f, k)
      BY <2>1 DEF Voters, C
    <2>6. SumFunction(h) = Cardinality({c \in C(f) : h[c] = 1})
      BY <2>3, <2>4, SumCountsOnes
    <2> QED
      BY <2>5, <2>6 DEF h
  <1> HIDE DEF C, score
  <1>12. FrameActivations(segs, starts, 0, clusters, count) =
           [f \in 0 .. n - 1 |->
              [k \in 0 .. columns - 1 |-> Cardinality(Voters(segs, starts, clusters, f, k))]]
    <2>1. DOMAIN count = 0 .. n - 1 /\ Upto(columns) = 0 .. columns - 1
      BY DEF Upto
    <2> QED
      BY <1>10, <1>11, <2>1
  <1>13. Voted(FrameActivations(segs, starts, 0, clusters, count), columns,
               segs, starts, clusters, count, n)
    <2>1. \A c \in DOMAIN segs, s \in Speakers(segs) : clusters[c][s] < columns
      BY <1>9
    <2>2. columns \in Nat /\ \A f \in 0 .. n - 1 : count[f] <= columns
      BY <1>7, <1>8
    <2> QED
      BY <1>12, <2>1, <2>2 DEF Voted
  <1> QED
    BY <1>13

(* The selection of a frame looks at that of the frame before.             *)
Chain(t, k, activations, count, epsilon2) ==
  t = [f \in 0 .. k - 1 |->
         TopK(activations[f], count[f], IF f = 0 THEN {} ELSE t[f - 1], epsilon2)]

LEMMA ChainExists ==
  ASSUME NEW n \in Nat, NEW activations, NEW count, NEW epsilon2
  PROVE  \E t : Chain(t, n, activations, count, epsilon2)
  <1> DEFINE N == {k \in Nat : \E t : Chain(t, k, activations, count, epsilon2)}
             Choice(f, before) == TopK(activations[f], count[f], before, epsilon2)
  <1>1. 0 \in N
    <2> DEFINE t == [f \in 0 .. -1 |-> {}]
    <2>1. t = [f \in 0 .. 0 - 1 |-> Choice(f, IF f = 0 THEN {} ELSE t[f - 1])]
      <3> HIDE DEF Choice
      <3> QED
        OBVIOUS
    <2> HIDE DEF t
    <2>2. Chain(t, 0, activations, count, epsilon2)
      BY <2>1 DEF Chain
    <2> QED
      BY <2>2
  <1>2. ASSUME NEW k \in Nat, k \in N PROVE k + 1 \in N
    <2>1. PICK s : Chain(s, k, activations, count, epsilon2)
      BY <1>2
    <2>2. s = [f \in 0 .. k - 1 |-> Choice(f, IF f = 0 THEN {} ELSE s[f - 1])]
      BY <2>1 DEF Chain
    <2> HIDE DEF Choice
    <2> DEFINE next == Choice(k, IF k = 0 THEN {} ELSE s[k - 1])
               t == [f \in 0 .. k |-> IF f = k THEN next ELSE s[f]]
    <2>3. (\A f \in 0 .. k - 1 : t[f] = s[f]) /\ t[k] = next /\ DOMAIN t = 0 .. k
      <3> HIDE DEF next
      <3> QED
        OBVIOUS
    <2>4. t = [f \in 0 .. k |-> t[f]]
      OBVIOUS
    <2> HIDE DEF t
    <2>5. ASSUME NEW f \in 0 .. k PROVE t[f] = Choice(f, IF f = 0 THEN {} ELSE t[f - 1])
      <3>1. f = 0 \/ t[f - 1] = s[f - 1]
        BY <2>3
      <3>2. CASE f = k
        <4>1. t[f] = Choice(k, IF k = 0 THEN {} ELSE s[k - 1])
          BY <2>3, <3>2
        <4>2. k = 0 \/ t[k - 1] = s[k - 1]
          BY <3>1, <3>2
        <4>3. (IF k = 0 THEN {} ELSE s[k - 1]) = (IF f = 0 THEN {} ELSE t[f - 1])
          BY <3>2, <4>2
        <4> QED
          BY <3>2, <4>1, <4>3
      <3>3. CASE f # k
        <4>1. f \in 0 .. k - 1
          BY <3>3
        <4>2. t[f] = Choice(f, IF f = 0 THEN {} ELSE s[f - 1])
          BY <2>2, <2>3, <4>1
        <4> QED
          BY <3>1, <4>2
      <3> QED
        BY <3>2, <3>3
    <2>6. t = [f \in 0 .. (k + 1) - 1 |-> Choice(f, IF f = 0 THEN {} ELSE t[f - 1])]
      <3>1. (k + 1) - 1 = k
        OBVIOUS
      <3> QED
        BY <2>4, <2>5, <3>1
    <2>7. Chain(t, k + 1, activations, count, epsilon2)
      BY <2>6 DEF Chain, Choice
    <2> QED
      BY <2>7
  <1> HIDE DEF N
  <1>3. Nat \subseteq N
    BY <1>1, <1>2, NatSetInduction
  <1>4. n \in N
    BY <1>3
  <1> QED
    BY <1>4 DEF N

LEMMA ReconstructIsChain ==
  ASSUME NEW n \in Nat, NEW activations, NEW count, DOMAIN count = 0 .. n - 1, NEW epsilon2
  PROVE  Chain(Reconstruct(activations, count, epsilon2), n, activations, count, epsilon2)
  <1> DEFINE body(t) == [f \in DOMAIN count |->
                TopK(activations[f], count[f], IF f = 0 THEN {} ELSE t[f - 1], epsilon2)]
             chosen == CHOOSE t : t = body(t)
  <1>1. Reconstruct(activations, count, epsilon2) = chosen
    BY DEF Reconstruct
  <1>2. PICK t : Chain(t, n, activations, count, epsilon2)
    BY ChainExists
  <1>3. t = body(t)
    BY <1>2 DEF Chain
  <1>4. chosen = body(chosen)
    <2> HIDE DEF body
    <2> QED
      BY <1>3
  <1> HIDE DEF chosen
  <1> QED
    BY <1>1, <1>4 DEF Chain

(* Every frame's speakers are the best of those the chunks voted for.      *)
Elected(chosen, columns, segs, starts, clusters, count, n, smooth) ==
  \A f \in 0 .. n - 1 :
    /\ chosen[f] \subseteq 0 .. columns - 1
    /\ IsFiniteSet(chosen[f]) /\ Cardinality(chosen[f]) = count[f]
    /\ \A k \in chosen[f], l \in 0 .. columns - 1 :
         l \notin chosen[f] =>
           Cardinality(Voters(segs, starts, clusters, f, k)) >=
             Cardinality(Voters(segs, starts, clusters, f, l))
    /\ f > 0 /\ smooth =>
         \A k \in chosen[f] \ chosen[f - 1], l \in chosen[f - 1] \ chosen[f] :
           Cardinality(Voters(segs, starts, clusters, f, k)) >
             Cardinality(Voters(segs, starts, clusters, f, l))

LEMMA ReconstructElects ==
  ASSUME NEW segs, NEW starts, Chunked(segs, starts), NEW n \in Nat,
         NEW clusters, NEW count \in [0 .. n - 1 -> Nat], NEW activations, NEW columns,
         Voted(activations, columns, segs, starts, clusters, count, n),
         NEW epsilon2 \in 0 .. 2
  PROVE  Elected(Reconstruct(activations, count, epsilon2), columns, segs, starts, clusters,
                 count, n, epsilon2 > 0)
  <1> DEFINE chosen == Reconstruct(activations, count, epsilon2)
             votes(f, k) == Cardinality(Voters(segs, starts, clusters, f, k))
  <1>1. \A f \in 0 .. n - 1 :
          chosen[f] = TopK(activations[f], count[f], IF f = 0 THEN {} ELSE chosen[f - 1], epsilon2)
    <2>1. DOMAIN count = 0 .. n - 1
      OBVIOUS
    <2>2. Chain(chosen, n, activations, count, epsilon2)
      BY <2>1, ReconstructIsChain
    <2> HIDE DEF chosen
    <2> QED
      BY <2>2 DEF Chain
  <1> HIDE DEF chosen
  <1>2. ASSUME NEW f \in 0 .. n - 1, NEW k \in Int PROVE votes(f, k) \in Int
    <2>1. f \in Nat
      OBVIOUS
    <2>2. IsFiniteSet(Covering(segs, starts, 0, f))
      BY <2>1, CoveringFacts
    <2>3. IsFiniteSet(Voters(segs, starts, clusters, f, k))
      <3>1. Voters(segs, starts, clusters, f, k) \subseteq Covering(segs, starts, 0, f)
        BY DEF Voters
      <3> QED
        BY <2>2, <3>1, FS_Subset
    <2> QED
      BY <2>3, FS_CardinalityType
  <1> HIDE DEF votes
  <1>3. ASSUME NEW f \in 0 .. n - 1
        PROVE  /\ chosen[f] \subseteq 0 .. columns - 1
               /\ IsFiniteSet(chosen[f]) /\ Cardinality(chosen[f]) = count[f]
               /\ \A k \in chosen[f], l \in 0 .. columns - 1 :
                    l \notin chosen[f] => votes(f, k) >= votes(f, l)
               /\ f > 0 /\ epsilon2 > 0 =>
                    \A k \in chosen[f] \ chosen[f - 1], l \in chosen[f - 1] \ chosen[f] :
                      l \in 0 .. columns - 1 => votes(f, k) > votes(f, l)
    <2>1. PICK before : /\ chosen[f] = TopK(activations[f], count[f], before, epsilon2)
                        /\ f > 0 => before = chosen[f - 1]
      <3>1. CASE f = 0
        BY <1>1, <3>1
      <3>2. CASE f > 0
        BY <1>1, <3>2
      <3> QED
        BY <3>1, <3>2
    <2>2. activations[f] = [k \in 0 .. columns - 1 |-> votes(f, k)]
      BY DEF Voted, votes
    <2>3. columns \in Nat /\ count[f] \in 0 .. columns
      BY DEF Voted
    <2>4. activations[f] \in [0 .. columns - 1 -> Int]
      BY <1>2, <2>2
    <2>5. Selected(chosen[f], activations[f], columns, count[f], before, epsilon2 > 0)
      BY <2>1, <2>3, <2>4, SelectionIsExact
    <2>6. ASSUME NEW k \in chosen[f], NEW l \in 0 .. columns - 1, l \notin chosen[f]
          PROVE  votes(f, k) >= votes(f, l)
      <3>1. Above(activations[f], k, l, before, epsilon2 > 0) /\ k \in 0 .. columns - 1
        BY <2>5, <2>6 DEF Selected
      <3>2. activations[f][k] = votes(f, k) /\ activations[f][l] = votes(f, l)
        BY <2>2, <3>1
      <3>3. votes(f, k) \in Int /\ votes(f, l) \in Int
        BY <1>2, <3>1
      <3> QED
        BY <3>1, <3>2, <3>3 DEF Above
    <2>7. ASSUME f > 0, epsilon2 > 0, NEW k \in chosen[f] \ chosen[f - 1],
                 NEW l \in chosen[f - 1] \ chosen[f], l \in 0 .. columns - 1
          PROVE  votes(f, k) > votes(f, l)
      <3>1. Above(activations[f], k, l, before, epsilon2 > 0) /\ k \in 0 .. columns - 1
        BY <2>5, <2>7 DEF Selected
      <3>2. activations[f][k] = votes(f, k) /\ activations[f][l] = votes(f, l)
        BY <2>2, <2>7, <3>1
      <3>3. k \notin before /\ l \in before
        BY <2>1, <2>7
      <3> QED
        BY <2>7, <3>1, <3>2, <3>3 DEF Above
    <2> QED
      BY <2>5, <2>6, <2>7 DEF Selected
  <1> HIDE DEF votes
  <1>4. ASSUME NEW f \in 0 .. n - 1, f > 0 PROVE chosen[f - 1] \subseteq 0 .. columns - 1
    <2>1. f - 1 \in 0 .. n - 1
      BY <1>4
    <2> QED
      BY <1>3, <2>1
  <1>5. ASSUME NEW f \in 0 .. n - 1, f > 0, epsilon2 > 0,
               NEW k \in chosen[f] \ chosen[f - 1], NEW l \in chosen[f - 1] \ chosen[f]
        PROVE  votes(f, k) > votes(f, l)
    <2>1. l \in 0 .. columns - 1
      BY <1>4, <1>5
    <2> QED
      BY <1>3, <1>5, <2>1
  <1>6. \A f \in 0 .. n - 1 :
          /\ chosen[f] \subseteq 0 .. columns - 1
          /\ IsFiniteSet(chosen[f]) /\ Cardinality(chosen[f]) = count[f]
          /\ \A k \in chosen[f], l \in 0 .. columns - 1 :
               l \notin chosen[f] => votes(f, k) >= votes(f, l)
    BY <1>3
  <1> QED
    BY <1>5, <1>6 DEF Elected, chosen, votes
-----------------------------------------------------------------------------
(* An increasing sequence rises by at least one at every place.            *)
LEMMA Rises ==
  ASSUME NEW t \in Nat, NEW k \in Nat, NEW c \in Increasing(t, k)
  PROVE  \A p, q \in 1..k : p <= q => c[q] >= c[p] + (q - p)
  <1>1. c \in [1..k -> Int] /\ \A p \in 1..k - 1 : c[p] < c[p + 1]
    BY DEF Increasing, Upto
  <1> DEFINE S == {n \in Nat : \A p \in 1..k : p + n \in 1..k => c[p + n] >= c[p] + n}
  <1>2. 0 \in S
    <2> SUFFICES ASSUME NEW p \in 1..k PROVE c[p + 0] >= c[p] + 0
      OBVIOUS
    <2>1. p + 0 = p /\ c[p] \in Int
      BY <1>1
    <2> QED
      BY <2>1
  <1>3. ASSUME NEW n \in Nat, n \in S PROVE n + 1 \in S
    <2> SUFFICES ASSUME NEW p \in 1..k, p + (n + 1) \in 1..k PROVE c[p + (n + 1)] >= c[p] + (n + 1)
      OBVIOUS
    <2>1. p + n \in 1..k /\ p + n \in 1..k - 1 /\ (p + n) + 1 = p + (n + 1)
      OBVIOUS
    <2>2. c[p + n] >= c[p] + n
      BY <1>3, <2>1
    <2>3. c[p + n] < c[p + (n + 1)]
      BY <1>1, <2>1
    <2>4. c[p] \in Int /\ c[p + n] \in Int /\ c[p + (n + 1)] \in Int
      BY <1>1, <2>1
    <2> QED
      BY <2>2, <2>3, <2>4
  <1> HIDE DEF S
  <1>4. Nat \subseteq S
    BY <1>2, <1>3, NatSetInduction
  <1> SUFFICES ASSUME NEW p \in 1..k, NEW q \in 1..k, p <= q PROVE c[q] >= c[p] + (q - p)
    OBVIOUS
  <1>5. q - p \in S /\ p + (q - p) = q
    BY <1>4
  <1> QED
    BY <1>5 DEF S

LEMMA RisesWithin ==
  ASSUME NEW t \in Nat, NEW k \in Nat, NEW c \in Increasing(t, k), NEW p \in 1..k
  PROVE  c[p] \in Int /\ p - 1 <= c[p] /\ c[p] <= p - 1 + t - k
  <1>1. c \in [1..k -> 0..t - 1]
    BY DEF Increasing, Upto
  <1>2. 1 \in 1..k /\ k \in 1..k /\ 1 <= p /\ p <= k
    OBVIOUS
  <1>3. c[p] >= c[1] + (p - 1) /\ c[k] >= c[p] + (k - p)
    BY <1>2, Rises
  <1>4. c[1] \in 0..t - 1 /\ c[p] \in 0..t - 1 /\ c[k] \in 0..t - 1
    BY <1>1, <1>2
  <1> QED
    BY <1>3, <1>4

(* The code's order of combinations.                                       *)
Precede(c, d, k) ==
  \E p \in 1..k : c[p] < d[p] /\ \A q \in 1..p - 1 : c[q] = d[q]

First(k) == [p \in 1..k |-> p - 1]
Final(t, k) == [p \in 1..k |-> p - 1 + t - k]

LEMMA PrecedeIrreflexive ==
  ASSUME NEW k \in Nat, NEW c \in [1..k -> Int]
  PROVE  ~Precede(c, c, k)
  BY DEF Precede

LEMMA PrecedeTransitive ==
  ASSUME NEW k \in Nat, NEW c \in [1..k -> Int], NEW d \in [1..k -> Int], NEW e \in [1..k -> Int],
         Precede(c, d, k), Precede(d, e, k)
  PROVE  Precede(c, e, k)
  <1>1. PICK p \in 1..k : c[p] < d[p] /\ \A q \in 1..p - 1 : c[q] = d[q]
    BY DEF Precede
  <1>2. PICK r \in 1..k : d[r] < e[r] /\ \A q \in 1..r - 1 : d[q] = e[q]
    BY DEF Precede
  <1>3. CASE p <= r
    <2>1. c[p] < e[p]
      <3>1. CASE p = r
        BY <1>1, <1>2, <3>1
      <3>2. CASE p < r
        <4>1. p \in 1..r - 1
          BY <3>2
        <4> QED
          BY <1>1, <1>2, <4>1
      <3> QED
        BY <1>3, <3>1, <3>2
    <2>2. \A q \in 1..p - 1 : c[q] = e[q]
      <3> TAKE q \in 1..p - 1
      <3>1. q \in 1..r - 1
        BY <1>3
      <3> QED
        BY <1>1, <1>2, <3>1
    <2> QED
      BY <2>1, <2>2 DEF Precede
  <1>4. CASE r < p
    <2>1. r \in 1..p - 1
      BY <1>4
    <2>2. c[r] < e[r]
      BY <1>1, <1>2, <2>1
    <2>3. \A q \in 1..r - 1 : c[q] = e[q]
      <3> TAKE q \in 1..r - 1
      <3>1. q \in 1..p - 1
        BY <1>4
      <3> QED
        BY <1>1, <1>2, <3>1
    <2> QED
      BY <2>2, <2>3 DEF Precede
  <1> QED
    BY <1>3, <1>4

LEMMA PrecedeTotal ==
  ASSUME NEW k \in Nat, NEW c \in [1..k -> Int], NEW d \in [1..k -> Int], c # d
  PROVE  Precede(c, d, k) \/ Precede(d, c, k)
  <1> DEFINE D == {p \in 1..k : c[p] # d[p]}
  <1>0. \E p \in 1..k : c[p] # d[p]
    OBVIOUS
  <1>1. D \in SUBSET Nat /\ D # {}
    BY <1>0, SMTT(30)
  <1>2. PICK p \in D : \A q \in D : p <= q
    <2> HIDE DEF D
    <2> QED
      BY <1>1, LeastElement
  <1>3. p \in 1..k /\ c[p] # d[p] /\ \A q \in 1..p - 1 : c[q] = d[q]
    BY <1>2
  <1>4. c[p] < d[p] \/ d[p] < c[p]
    BY <1>3
  <1> QED
    BY <1>3, <1>4 DEF Precede

(* Where the next combination grows.                                       *)
Grows(c, e, t, k, pos) ==
  /\ pos \in 1..k /\ c[pos] < pos - 1 + t - k
  /\ \A p \in pos + 1..k : c[p] = p - 1 + t - k
  /\ e = [p \in 1..k |-> IF p < pos THEN c[p] ELSE c[pos] + 1 + (p - pos)]

LEMMA NextGrows ==
  ASSUME NEW t \in Nat, NEW k \in Nat, NEW c \in Increasing(t, k), c # Final(t, k)
  PROVE  \E pos : Grows(c, NextCombination(c, t), t, k, pos)
  <1> DEFINE D == {p \in 1..k : c[p] # p - 1 + t - k}
  <1>1. c = [p \in 1..k |-> c[p]] /\ c \in [1..k -> 0..t - 1]
    BY DEF Increasing, Upto
  <1>2. D # {}
    <2> SUFFICES ASSUME D = {} PROVE FALSE
      OBVIOUS
    <2>1. \A p \in 1..k : c[p] = p - 1 + t - k
      OBVIOUS
    <2>2. c = [p \in 1..k |-> p - 1 + t - k]
      BY <1>1, <2>1
    <2> QED
      BY <2>2 DEF Final
  <1>3. D \in SUBSET Int /\ IsFiniteSet(D)
    <2>1. IsFiniteSet(1..k)
      BY FS_Interval
    <2>2. D \in SUBSET (1..k) /\ D \in SUBSET Int
      OBVIOUS
    <2> HIDE DEF D
    <2> QED
      BY <2>1, <2>2, FS_Subset
  <1>4. Max(D) \in D /\ \A y \in D : Max(D) >= y
    <2> HIDE DEF D
    <2> QED
      BY <1>2, <1>3, FiniteMax
  <1>5. PICK pos \in 1..k : pos = Max(D)
    BY <1>4
  <1>6. Len(c) = k
    <2>1. c \in Seq(0..t - 1) /\ DOMAIN c = 1..k
      BY <1>1
    <2>2. Len(c) \in Nat /\ DOMAIN c = 1..Len(c)
      BY <2>1, LenProperties
    <2> QED
      BY <2>1, <2>2
  <1>7. NextCombination(c, t) = [p \in 1..k |-> IF p < pos THEN c[p] ELSE c[pos] + 1 + (p - pos)]
    <2>1. D = {p \in 1..Len(c) : c[p] # p - 1 + t - Len(c)}
      BY <1>6
    <2> HIDE DEF D
    <2> QED
      BY <1>5, <1>6, <2>1 DEF NextCombination
  <1>8. c[pos] < pos - 1 + t - k
    <2>1. c[pos] # pos - 1 + t - k
      BY <1>4, <1>5
    <2> QED
      BY <2>1, RisesWithin
  <1>9. \A p \in pos + 1..k : c[p] = p - 1 + t - k
    <2> TAKE p \in pos + 1..k
    <2>1. p \in 1..k /\ ~(pos >= p)
      BY <1>5
    <2> QED
      BY <1>4, <1>5, <2>1
  <1> QED
    BY <1>7, <1>8, <1>9 DEF Grows

LEMMA NextIncreases ==
  ASSUME NEW t \in Nat, NEW k \in Nat, NEW c \in Increasing(t, k), c # Final(t, k)
  PROVE  /\ NextCombination(c, t) \in Increasing(t, k)
         /\ Precede(c, NextCombination(c, t), k)
  <1>1. PICK e : e = NextCombination(c, t)
    OBVIOUS
  <1>2. PICK pos : Grows(c, e, t, k, pos)
    BY <1>1, NextGrows
  <1>3. pos \in 1..k /\ c[pos] < pos - 1 + t - k
    BY <1>2 DEF Grows
  <1>4. e = [p \in 1..k |-> IF p < pos THEN c[p] ELSE c[pos] + 1 + (p - pos)]
    BY <1>2 DEF Grows
  <1>5. c \in [1..k -> 0..t - 1] /\ \A p \in 1..k - 1 : c[p] < c[p + 1]
    BY DEF Increasing, Upto
  <1>6. ASSUME NEW p \in 1..k PROVE e[p] \in 0..t - 1
    <2>1. CASE p < pos
      BY <1>4, <1>5, <2>1
    <2>2. CASE pos <= p
      <3>1. e[p] = c[pos] + 1 + (p - pos)
        BY <1>3, <1>4, <2>2
      <3>2. c[pos] \in 0..t - 1
        BY <1>3, <1>5
      <3> QED
        BY <1>3, <2>2, <3>1, <3>2
    <2> QED
      BY <1>3, <2>1, <2>2
  <1>7. ASSUME NEW p \in 1..k - 1 PROVE e[p] < e[p + 1]
    <2>0. p \in 1..k /\ p + 1 \in 1..k
      OBVIOUS
    <2>1. CASE p + 1 < pos
      BY <1>3, <1>4, <1>5, <2>0, <2>1
    <2>2. CASE p + 1 = pos
      <3>1. e[p] = c[p] /\ e[p + 1] = c[pos] + 1 + (p + 1 - pos)
        BY <1>3, <1>4, <2>0, <2>2
      <3>2. c[p] < c[pos] /\ c[p] \in Int /\ c[pos] \in Int
        BY <1>3, <1>5, <2>0, <2>2
      <3> QED
        BY <2>2, <3>1, <3>2
    <2>3. CASE pos <= p
      <3>1. e[p] = c[pos] + 1 + (p - pos) /\ e[p + 1] = c[pos] + 1 + (p + 1 - pos)
        BY <1>3, <1>4, <2>0, <2>3
      <3>2. c[pos] \in Int
        BY <1>3, <1>5
      <3> QED
        BY <1>3, <3>1, <3>2
    <2> QED
      BY <1>3, <2>1, <2>2, <2>3
  <1>8. e \in Increasing(t, k)
    <2>1. e \in [1..k -> 0..t - 1]
      BY <1>4, <1>6
    <2> QED
      BY <1>7, <2>1 DEF Increasing, Upto
  <1>9. Precede(c, e, k)
    <2>1. e[pos] = c[pos] + 1 + (pos - pos) /\ c[pos] \in Int
      BY <1>3, <1>4, <1>5
    <2>2. \A q \in 1..pos - 1 : c[q] = e[q]
      BY <1>3, <1>4
    <2> QED
      BY <1>3, <2>1, <2>2 DEF Precede
  <1> QED
    BY <1>1, <1>8, <1>9

(* Nothing lies between a combination and the next one.                    *)
LEMMA NextIsNext ==
  ASSUME NEW t \in Nat, NEW k \in Nat, NEW c \in Increasing(t, k), c # Final(t, k),
         NEW d \in Increasing(t, k), Precede(c, d, k)
  PROVE  d = NextCombination(c, t) \/ Precede(NextCombination(c, t), d, k)
  <1>1. PICK e : e = NextCombination(c, t)
    OBVIOUS
  <1>2. PICK pos : Grows(c, e, t, k, pos)
    BY <1>1, NextGrows
  <1>3. PICK p0 \in 1..k : c[p0] < d[p0] /\ \A q \in 1..p0 - 1 : c[q] = d[q]
    BY DEF Precede
  <1>4. pos \in 1..k /\ \A p \in pos + 1..k : c[p] = p - 1 + t - k
    BY <1>2 DEF Grows
  <1>5. e = [p \in 1..k |-> IF p < pos THEN c[p] ELSE c[pos] + 1 + (p - pos)]
    BY <1>2 DEF Grows
  <1>6. c \in [1..k -> Int] /\ d \in [1..k -> Int] /\ e \in [1..k -> Int]
    <2>1. c \in [1..k -> Int] /\ d \in [1..k -> Int]
      BY DEF Increasing, Upto
    <2>2. \A p \in 1..k : (IF p < pos THEN c[p] ELSE c[pos] + 1 + (p - pos)) \in Int
      BY <1>4, <2>1
    <2> QED
      BY <1>5, <2>1, <2>2
  <1>7. p0 <= pos
    <2> SUFFICES ASSUME p0 > pos PROVE FALSE
      BY <1>4
    <2>1. p0 \in pos + 1..k
      BY <1>4
    <2>2. c[p0] = p0 - 1 + t - k
      BY <1>4, <2>1
    <2>3. d[p0] <= p0 - 1 + t - k /\ d[p0] \in Int
      BY RisesWithin
    <2> QED
      BY <1>3, <2>2, <2>3
  <1>8. CASE p0 < pos
    <2>1. e[p0] < d[p0] /\ \A q \in 1..p0 - 1 : e[q] = d[q]
      BY <1>3, <1>4, <1>5, <1>8
    <2> QED
      BY <1>1, <2>1 DEF Precede
  <1>9. CASE p0 = pos /\ e[pos] < d[pos]
    <2>1. \A q \in 1..p0 - 1 : e[q] = d[q]
      BY <1>3, <1>4, <1>5, <1>9
    <2> QED
      BY <1>1, <1>9, <2>1 DEF Precede
  <1>10. CASE p0 = pos /\ ~(e[pos] < d[pos])
    <2>1. e[pos] = c[pos] + 1
      BY <1>4, <1>5, <1>6
    <2>2. e[pos] = d[pos]
      BY <1>3, <1>4, <1>6, <1>10, <2>1
    <2>3. \A q \in 1..pos : e[q] = d[q]
      BY <1>3, <1>4, <1>5, <1>10, <2>2
    <2>4. \A q \in 1..k : e[q] <= d[q]
      <3> TAKE q \in 1..k
      <3>1. CASE q <= pos
        <4>1. q \in 1..pos
          BY <1>4, <3>1
        <4> QED
          BY <1>6, <2>3, <4>1
      <3>2. CASE pos < q
        <4>1. e[q] = c[pos] + 1 + (q - pos)
          BY <1>4, <1>5, <3>2
        <4>2. d[q] >= d[pos] + (q - pos)
          BY <1>4, <3>2, Rises
        <4> QED
          BY <1>4, <1>6, <2>1, <2>2, <4>1, <4>2
      <3> QED
        BY <1>4, <3>1, <3>2
    <2>5. d = e \/ Precede(d, e, k) \/ Precede(e, d, k)
      BY <1>6, PrecedeTotal
    <2>6. ~Precede(d, e, k)
      BY <1>6, <2>4 DEF Precede
    <2> QED
      BY <1>1, <2>5, <2>6
  <1> QED
    BY <1>4, <1>7, <1>8, <1>9, <1>10

LEMMA FirstAndFinal ==
  ASSUME NEW t \in Nat, NEW k \in Nat, k <= t
  PROVE  /\ First(k) \in Increasing(t, k) /\ Final(t, k) \in Increasing(t, k)
         /\ \A c \in Increasing(t, k) : ~Precede(Final(t, k), c, k) /\ ~Precede(c, First(k), k)
  <1>1. First(k) \in Increasing(t, k)
    BY DEF First, Increasing, Upto
  <1>2. Final(t, k) \in Increasing(t, k)
    BY DEF Final, Increasing, Upto
  <1>3. ASSUME NEW c \in Increasing(t, k) PROVE ~Precede(Final(t, k), c, k)
    <2>1. \A p \in 1..k : Final(t, k)[p] = p - 1 + t - k /\ c[p] \in Int /\ c[p] <= p - 1 + t - k
      BY RisesWithin DEF Final
    <2> QED
      BY <2>1 DEF Precede
  <1>4. ASSUME NEW c \in Increasing(t, k) PROVE ~Precede(c, First(k), k)
    <2>1. \A p \in 1..k : First(k)[p] = p - 1 /\ c[p] \in Int /\ p - 1 <= c[p]
      BY RisesWithin DEF First
    <2> QED
      BY <2>1 DEF Precede
  <1> QED
    BY <1>1, <1>2, <1>3, <1>4

(* An increasing sequence lists a set of speakers.                         *)
LEMMA Distinct ==
  ASSUME NEW t \in Nat, NEW k \in Nat, NEW c \in Increasing(t, k)
  PROVE  \A p, q \in 1..k : p < q => c[p] < c[q]
  <1> SUFFICES ASSUME NEW p \in 1..k, NEW q \in 1..k, p < q PROVE c[p] < c[q]
    OBVIOUS
  <1>1. c[q] >= c[p] + (q - p)
    BY Rises
  <1>2. c[p] \in Int /\ c[q] \in Int
    BY RisesWithin
  <1> QED
    BY <1>1, <1>2

LEMMA PrecedeIsBefore ==
  ASSUME NEW t \in Nat, NEW k \in Nat, NEW c \in Increasing(t, k), NEW d \in Increasing(t, k),
         Precede(c, d, k)
  PROVE  Before(Range(c), Range(d)) /\ Range(c) # Range(d)
  <1>1. PICK p \in 1..k : c[p] < d[p] /\ \A q \in 1..p - 1 : c[q] = d[q]
    BY DEF Precede
  <1>2. c \in [1..k -> Int] /\ d \in [1..k -> Int]
    BY DEF Increasing, Upto
  <1>3. ASSUME NEW q \in 1..k PROVE d[q] # c[p]
    <2>1. CASE q < p
      <3>1. q \in 1..p - 1 /\ c[q] < c[p]
        BY <2>1, Distinct
      <3> QED
        BY <1>1, <1>2, <3>1
    <2>2. CASE q = p
      BY <1>1, <1>2, <2>2
    <2>3. CASE p < q
      <3>1. d[p] < d[q]
        BY <2>3, Distinct
      <3> QED
        BY <1>1, <1>2, <3>1
    <2> QED
      BY <2>1, <2>2, <2>3
  <1>4. c[p] \in Range(c) \ Range(d)
    BY <1>2, <1>3 DEF Range
  <1>5. ASSUME NEW b \in Range(d) \ Range(c) PROVE c[p] < b
    <2>1. PICK q \in 1..k : b = d[q]
      BY <1>2 DEF Range
    <2>2. q >= p
      <3> SUFFICES ASSUME q < p PROVE FALSE
        OBVIOUS
      <3>1. q \in 1..p - 1
        OBVIOUS
      <3>2. b = c[q]
        BY <1>1, <2>1, <3>1
      <3> QED
        BY <1>2, <3>2 DEF Range
    <2>3. q = p \/ d[p] < d[q]
      BY <2>2, Distinct
    <2> QED
      BY <1>1, <1>2, <2>1, <2>3
  <1> QED
    BY <1>4, <1>5 DEF Before

LEMMA ListsASet ==
  ASSUME NEW t \in Nat, NEW k \in Nat, NEW c \in Increasing(t, k)
  PROVE  Range(c) \in Subsets(t, k) /\ IsFiniteSet(Range(c))
  <1>1. c \in [1..k -> 0..t - 1]
    BY DEF Increasing, Upto
  <1>2. c \in Bijection(1..k, Range(c))
    <2>1. c \in [1..k -> Range(c)]
      BY <1>1 DEF Range
    <2>2. \A p, q \in 1..k : c[p] = c[q] => p = q
      <3> TAKE p \in 1..k, q \in 1..k
      <3>1. c[p] \in Int /\ c[q] \in Int
        BY RisesWithin
      <3>2. p = q \/ c[p] < c[q] \/ c[q] < c[p]
        BY Distinct
      <3> QED
        BY <3>1, <3>2
    <2>3. \A x \in Range(c) : \E p \in 1..k : c[p] = x
      BY <1>1 DEF Range
    <2> QED
      BY <2>1, <2>2, <2>3 DEF Bijection, Injection, Surjection, IsInjective
  <1>3. IsFiniteSet(1..k) /\ Cardinality(1..k) = k
    BY FS_Interval
  <1>4. ExistsBijection(1..k, Range(c))
    BY <1>2 DEF ExistsBijection
  <1>5. IsFiniteSet(Range(c)) /\ Cardinality(Range(c)) = k
    BY <1>3, <1>4, FS_Bijection
  <1>6. Range(c) \subseteq 0..t - 1
    BY <1>1 DEF Range
  <1> QED
    BY <1>5, <1>6 DEF Subsets, Upto

LEMMA FiniteIncreasing ==
  ASSUME NEW t \in Nat, NEW k \in Nat
  PROVE  IsFiniteSet(Increasing(t, k))
  <1> DEFINE A == Increasing(t, k)
             B == SUBSET (0..t - 1)
             f == [c \in A |-> Range(c)]
  <1>1. IsFiniteSet(B)
    <2>1. IsFiniteSet(0..t - 1)
      BY FS_Interval
    <2> QED
      BY <2>1, FS_SUBSET
  <1>2. \A c \in A : Range(c) \in B
    BY ListsASet DEF Subsets, Upto
  <1>3. \A c, d \in A : Range(c) = Range(d) => c = d
    <2> SUFFICES ASSUME NEW c \in A, NEW d \in A, c # d PROVE Range(c) # Range(d)
      OBVIOUS
    <2>1. c \in [1..k -> Int] /\ d \in [1..k -> Int]
      BY DEF Increasing, Upto
    <2>2. Precede(c, d, k) \/ Precede(d, c, k)
      BY <2>1, PrecedeTotal
    <2> QED
      BY <2>2, PrecedeIsBefore
  <1> HIDE DEF A, B
  <1>4. f \in Injection(A, B)
    BY <1>2, <1>3 DEF Injection, IsInjective
  <1> HIDE DEF f
  <1>5. IsFiniteSet(A)
    BY <1>1, <1>4, FS_Injection
  <1> QED
    BY <1>5 DEF A

(* Induction from the greatest combination down.                           *)
LEMMA Greatest ==
  ASSUME NEW t \in Nat, NEW k \in Nat, NEW S \in SUBSET Increasing(t, k), S # {}
  PROVE  \E c \in S : \A d \in S : ~Precede(c, d, k)
  <1> DEFINE F == {s \in SUBSET S : s # {} => \E c \in s : \A d \in s : ~Precede(c, d, k)}
  <1>0. \A c \in S : c \in [1..k -> Int]
    BY DEF Increasing, Upto
  <1>1. {} \in F
    OBVIOUS
  <1>2. ASSUME NEW s \in SUBSET S, s # {}, s \ {Pick(s)} \in F PROVE s \in F
    <2>1. PICK p \in s : p = Pick(s)
      BY <1>2 DEF Pick
    <2>2. ~Precede(p, p, k)
      BY <1>0, PrecedeIrreflexive
    <2>3. CASE s \ {p} = {}
      <3>1. \A d \in s : ~Precede(p, d, k)
        BY <2>2, <2>3
      <3> QED
        BY <3>1
    <2>4. CASE s \ {p} # {}
      <3>1. PICK c \in s \ {p} : \A d \in s \ {p} : ~Precede(c, d, k)
        BY <1>2, <2>1, <2>4
      <3>2. CASE ~Precede(c, p, k)
        <4>1. \A d \in s : ~Precede(c, d, k)
          BY <3>1, <3>2
        <4> QED
          BY <4>1
      <3>3. CASE Precede(c, p, k)
        <4>1. ASSUME NEW d \in s, Precede(p, d, k) PROVE FALSE
          <5>1. d # p
            BY <2>2, <4>1
          <5>2. c \in [1..k -> Int] /\ p \in [1..k -> Int] /\ d \in [1..k -> Int]
            BY <1>0
          <5>3. Precede(c, d, k)
            BY <3>3, <4>1, <5>2, PrecedeTransitive
          <5> QED
            BY <3>1, <5>1, <5>3
        <4> QED
          BY <4>1
      <3> QED
        BY <3>2, <3>3
    <2> QED
      BY <2>3, <2>4
  <1>3. IsFiniteSet(S)
    BY FiniteIncreasing, FS_Subset
  <1>4. S \in F
    <2> HIDE DEF F
    <2> QED
      BY <1>1, <1>2, <1>3, SubsetInduction
  <1> QED
    BY <1>4

LEMMA SetIsListed ==
  ASSUME NEW t \in Nat, NEW k \in Nat
  PROVE  \A S \in Subsets(t, k) : \E c \in Increasing(t, k) : Range(c) = S
  <1> DEFINE N == {n \in Nat : \A S \in Subsets(t, n) : \E c \in Increasing(t, n) : Range(c) = S}
  <1>1. 0 \in N
    <2> SUFFICES ASSUME NEW S \in Subsets(t, 0)
                 PROVE  \E c \in Increasing(t, 0) : Range(c) = S
      OBVIOUS
    <2> DEFINE c == [p \in 1..0 |-> 0]
    <2>1. IsFiniteSet(0..t - 1) /\ S \in SUBSET (0..t - 1) /\ Cardinality(S) = 0
      BY FS_Interval DEF Subsets, Upto
    <2>2. S = {}
      BY <2>1, FS_Subset, FS_EmptySet
    <2>3. c \in Increasing(t, 0) /\ Range(c) = {}
      BY DEF Increasing, Upto, Range
    <2> QED
      BY <2>2, <2>3
  <1>2. ASSUME NEW n \in Nat, n \in N PROVE n + 1 \in N
    <2> SUFFICES ASSUME NEW S \in Subsets(t, n + 1)
                 PROVE  \E c \in Increasing(t, n + 1) : Range(c) = S
      OBVIOUS
    <2>1. IsFiniteSet(0..t - 1) /\ S \in SUBSET (0..t - 1) /\ Cardinality(S) = n + 1
      BY FS_Interval DEF Subsets, Upto
    <2>2. IsFiniteSet(S) /\ S # {} /\ S \in SUBSET Int
      <3>1. IsFiniteSet(S)
        BY <2>1, FS_Subset
      <3>2. Cardinality({}) = 0
        BY FS_EmptySet
      <3>3. S # {}
        <4> SUFFICES ASSUME S = {} PROVE FALSE
          OBVIOUS
        <4>1. Cardinality(S) = 0
          BY <3>2
        <4> QED
          BY <2>1, <4>1
      <3> QED
        BY <2>1, <3>1, <3>3
    <2>3. PICK m \in S : \A y \in S : m >= y
      BY <2>2, FiniteMax
    <2>4. IsFiniteSet(S \ {m}) /\ Cardinality(S \ {m}) = n
      BY <2>1, <2>2, <2>3, FS_RemoveElement
    <2>5. S \ {m} \in Subsets(t, n)
      BY <2>1, <2>4 DEF Subsets, Upto
    <2>6. PICK b \in Increasing(t, n) : Range(b) = S \ {m}
      BY <1>2, <2>5
    <2>7. b \in [1..n -> 0..t - 1] /\ \A p \in 1..n - 1 : b[p] < b[p + 1]
      BY DEF Increasing, Upto
    <2>8. \A p \in 1..n : b[p] \in S /\ b[p] < m
      <3> TAKE p \in 1..n
      <3>1. b[p] \in S \ {m}
        BY <2>6, <2>7 DEF Range
      <3>2. b[p] \in S /\ b[p] # m /\ m >= b[p] /\ b[p] \in Int /\ m \in Int
        BY <2>2, <2>3, <3>1
      <3> QED
        BY <3>2
    <2> DEFINE c == [p \in 1..n + 1 |-> IF p = n + 1 THEN m ELSE b[p]]
    <2>9. c[n + 1] = m /\ (\A p \in 1..n : c[p] = b[p]) /\ DOMAIN c = 1..n + 1
      OBVIOUS
    <2>10. \A p \in 1..n + 1 : p = n + 1 \/ p \in 1..n
      OBVIOUS
    <2>11. c \in [1..n + 1 -> 0..t - 1]
      <3>1. m \in 0..t - 1
        BY <2>1
      <3> QED
        BY <2>7, <2>10, <3>1
    <2> HIDE DEF c
    <2>12. \A p \in 1..(n + 1) - 1 : c[p] < c[p + 1]
      <3> TAKE p \in 1..(n + 1) - 1
      <3>1. p \in 1..n /\ (p + 1 \in 1..n \/ p = n)
        OBVIOUS
      <3>2. CASE p = n
        BY <2>8, <2>9, <3>1, <3>2
      <3>3. CASE p + 1 \in 1..n
        <4>1. p \in 1..n - 1
          BY <3>3
        <4> QED
          BY <2>7, <2>9, <3>1, <3>3, <4>1
      <3> QED
        BY <3>1, <3>2, <3>3
    <2>13. Range(c) = S
      <3>1. Range(c) \subseteq S
        <4> SUFFICES ASSUME NEW p \in 1..n + 1 PROVE c[p] \in S
          BY <2>9 DEF Range
        <4> QED
          BY <2>3, <2>8, <2>9, <2>10
      <3>2. ASSUME NEW x \in S PROVE x \in Range(c)
        <4>1. CASE x = m
          BY <2>9, <4>1 DEF Range
        <4>2. CASE x # m
          <5>1. PICK p \in 1..n : b[p] = x
            BY <2>6, <2>7, <4>2 DEF Range
          <5>2. p \in 1..n + 1 /\ c[p] = x
            BY <2>9, <5>1
          <5> QED
            BY <2>9, <5>2 DEF Range
        <4> QED
          BY <4>1, <4>2
      <3> QED
        BY <3>1, <3>2
    <2>14. c \in Increasing(t, n + 1)
      BY <2>11, <2>12 DEF Increasing, Upto
    <2> QED
      BY <2>13, <2>14
  <1> HIDE DEF N
  <1>3. k \in N
    BY <1>1, <1>2, NatSetInduction
  <1> QED
    BY <1>3 DEF N

(* The loop's combinations from c on.                                      *)
From(s, n, c, t, k) ==
  /\ n \in Nat \ {0} /\ s \in Seq(Increasing(t, k)) /\ Len(s) = n
  /\ s[1] = c /\ s[n] = Final(t, k)
  /\ \A i \in 1..n - 1 : s[i] # Final(t, k) /\ s[i + 1] = NextCombination(s[i], t)

LEMMA FromFinal ==
  ASSUME NEW t \in Nat, NEW k \in Nat, NEW c \in Increasing(t, k), c = Final(t, k)
  PROVE  From(<<c>>, 1, c, t, k)
  <1>1. <<c>> \in Seq(Increasing(t, k)) /\ Len(<<c>>) = 1 /\ <<c>>[1] = c
    OBVIOUS
  <1>2. 1..1 - 1 = {}
    OBVIOUS
  <1> QED
    BY <1>1, <1>2 DEF From

LEMMA FromEarlier ==
  ASSUME NEW t \in Nat, NEW k \in Nat, NEW c \in Increasing(t, k), c # Final(t, k),
         NEW s, NEW n, From(s, n, NextCombination(c, t), t, k)
  PROVE  From(<<c>> \o s, n + 1, c, t, k)
  <1> DEFINE A == Increasing(t, k)
             r == <<c>> \o s
  <1>1. n \in Nat \ {0} /\ s \in Seq(A) /\ Len(s) = n /\ s[1] = NextCombination(c, t) /\ s[n] = Final(t, k)
    BY DEF From
  <1>2. \A i \in 1..n - 1 : s[i] # Final(t, k) /\ s[i + 1] = NextCombination(s[i], t)
    BY DEF From
  <1>3. <<c>> \in Seq(A) /\ Len(<<c>>) = 1 /\ <<c>>[1] = c
    OBVIOUS
  <1> HIDE DEF A
  <1>4. /\ r \in Seq(A) /\ Len(r) = 1 + n
        /\ \A i \in 1..1 + n : r[i] = IF i <= 1 THEN <<c>>[i] ELSE s[i - 1]
    BY <1>1, <1>3, ConcatProperties
  <1> HIDE DEF r
  <1>5. r[1] = c /\ \A i \in 2..n + 1 : r[i] = s[i - 1]
    BY <1>1, <1>3, <1>4
  <1>6. r[n + 1] = Final(t, k)
    BY <1>1, <1>5
  <1>7. \A i \in 1..(n + 1) - 1 : r[i] # Final(t, k) /\ r[i + 1] = NextCombination(r[i], t)
    <2> TAKE i \in 1..(n + 1) - 1
    <2>1. r[i + 1] = s[i]
      BY <1>1, <1>5
    <2>2. CASE i = 1
      BY <1>1, <1>5, <2>1, <2>2
    <2>3. CASE i # 1
      <3>1. i - 1 \in 1..n - 1 /\ i \in 2..n + 1 /\ (i - 1) + 1 = i
        BY <1>1, <2>3
      <3> QED
        BY <1>2, <1>5, <2>1, <3>1
    <2> QED
      BY <2>2, <2>3
  <1>8. Len(r) = n + 1 /\ n + 1 \in Nat \ {0}
    BY <1>1, <1>4
  <1> QED
    BY <1>4, <1>5, <1>6, <1>7, <1>8 DEF From, r, A

LEMMA FromExists ==
  ASSUME NEW t \in Nat, NEW k \in Nat, k <= t
  PROVE  \A c \in Increasing(t, k) : \E s, n : From(s, n, c, t, k)
  <1> DEFINE S == {c \in Increasing(t, k) : ~\E s, n : From(s, n, c, t, k)}
  <1> SUFFICES ASSUME S # {} PROVE FALSE
    OBVIOUS
  <1>1. PICK c \in S : \A d \in S : ~Precede(c, d, k)
    <2>1. S \in SUBSET Increasing(t, k)
      OBVIOUS
    <2> HIDE DEF S
    <2> QED
      BY <2>1, Greatest
  <1>2. c \in Increasing(t, k) /\ ~\E s, n : From(s, n, c, t, k)
    OBVIOUS
  <1>3. c # Final(t, k)
    BY <1>2, FromFinal
  <1>4. NextCombination(c, t) \in Increasing(t, k) /\ Precede(c, NextCombination(c, t), k)
    BY <1>2, <1>3, NextIncreases
  <1>5. PICK s, n : From(s, n, NextCombination(c, t), t, k)
    BY <1>1, <1>4
  <1>6. From(<<c>> \o s, n + 1, c, t, k)
    BY <1>2, <1>3, <1>5, FromEarlier
  <1> QED
    BY <1>2, <1>6

LEMMA FromUnique ==
  ASSUME NEW t \in Nat, NEW k \in Nat, NEW c,
         NEW s, NEW n, From(s, n, c, t, k), NEW u, NEW m, From(u, m, c, t, k)
  PROVE  s = u
  <1>1. n \in Nat \ {0} /\ s \in Seq(Increasing(t, k)) /\ Len(s) = n /\ s[1] = c /\ s[n] = Final(t, k)
    BY DEF From
  <1>2. m \in Nat \ {0} /\ u \in Seq(Increasing(t, k)) /\ Len(u) = m /\ u[1] = c /\ u[m] = Final(t, k)
    BY DEF From
  <1>3. \A i \in 1..n - 1 : s[i] # Final(t, k) /\ s[i + 1] = NextCombination(s[i], t)
    BY DEF From
  <1>4. \A i \in 1..m - 1 : u[i] # Final(t, k) /\ u[i + 1] = NextCombination(u[i], t)
    BY DEF From
  <1> DEFINE S == {i \in Nat : i + 1 <= n => i + 1 <= m /\ s[i + 1] = u[i + 1]}
  <1>5. 0 \in S
    BY <1>1, <1>2
  <1>6. ASSUME NEW i \in Nat, i \in S PROVE i + 1 \in S
    <2> SUFFICES ASSUME (i + 1) + 1 <= n
                 PROVE  (i + 1) + 1 <= m /\ s[(i + 1) + 1] = u[(i + 1) + 1]
      OBVIOUS
    <2>1. i + 1 <= m /\ s[i + 1] = u[i + 1]
      BY <1>1, <1>6
    <2>2. i + 1 \in 1..n - 1
      BY <1>1
    <2>3. s[i + 1] # Final(t, k)
      BY <1>3, <2>2
    <2>4. i + 1 # m
      BY <1>2, <2>1, <2>3
    <2>5. i + 1 \in 1..m - 1
      BY <1>2, <2>1, <2>4
    <2> QED
      BY <1>2, <1>3, <1>4, <2>1, <2>2, <2>5
  <1> HIDE DEF S
  <1>7. Nat \subseteq S
    BY <1>5, <1>6, NatSetInduction
  <1>8. \A i \in 1..n : i <= m /\ s[i] = u[i]
    <2> TAKE i \in 1..n
    <2>1. i - 1 \in S /\ (i - 1) + 1 = i
      BY <1>7
    <2> QED
      BY <2>1 DEF S
  <1>9. n = m
    <2>1. n <= m /\ s[n] = u[n]
      BY <1>1, <1>8
    <2> SUFFICES ASSUME n # m PROVE FALSE
      OBVIOUS
    <2>2. n \in 1..m - 1
      BY <1>1, <1>2, <2>1
    <2> QED
      BY <1>1, <1>4, <2>1, <2>2
  <1> QED
    BY <1>1, <1>2, <1>8, <1>9, SameElements

(* The recursive function runs the loop.                                   *)
LEMMA CombinationsRun ==
  ASSUME NEW t \in Nat, NEW k \in Nat \ {0}, k <= t
  PROVE  \E n : From(Combinations(t, k), n, First(k), t, k)
  <1> DEFINE A == Increasing(t, k)
             last == [p \in 1..k |-> p - 1 + t - k]
             body(f) == [c \in A |-> IF c = last THEN <<c>> ELSE <<c>> \o f[NextCombination(c, t)]]
             from == CHOOSE f : f = body(f)
             rest(c) == CHOOSE s : \E n : From(s, n, c, t, k)
             f0 == [c \in A |-> rest(c)]
  <1>1. Combinations(t, k) = from[First(k)]
    BY DEF Combinations, First
  <1>2. last = Final(t, k)
    BY DEF Final
  <1>3. \A c \in A : \E n : From(f0[c], n, c, t, k)
    <2> TAKE c \in A
    <2>1. \E s : \E n : From(s, n, c, t, k)
      BY FromExists
    <2>2. f0[c] = CHOOSE s : \E n : From(s, n, c, t, k)
      OBVIOUS
    <2> HIDE DEF f0
    <2> QED
      BY <2>1, <2>2
  <1>4. \A c \in A : f0[c] = IF c = last THEN <<c>> ELSE <<c>> \o f0[NextCombination(c, t)]
    <2> TAKE c \in A
    <2> HIDE DEF f0, last
    <2>1. PICK n : From(f0[c], n, c, t, k)
      BY <1>3
    <2>2. CASE c = last
      <3>1. From(<<c>>, 1, c, t, k)
        BY <1>2, <2>2, FromFinal
      <3>2. f0[c] = <<c>>
        BY <2>1, <3>1, FromUnique
      <3> QED
        BY <2>2, <3>2
    <2>3. CASE c # last
      <3>1. NextCombination(c, t) \in A
        BY <1>2, <2>3, NextIncreases
      <3>2. PICK m : From(f0[NextCombination(c, t)], m, NextCombination(c, t), t, k)
        BY <1>3, <3>1
      <3>3. From(<<c>> \o f0[NextCombination(c, t)], m + 1, c, t, k)
        BY <1>2, <2>3, <3>2, FromEarlier
      <3>4. f0[c] = <<c>> \o f0[NextCombination(c, t)]
        BY <2>1, <3>3, FromUnique
      <3> QED
        BY <2>3, <3>4
    <2> QED
      BY <2>2, <2>3
  <1>5. f0 = body(f0)
    <2>1. f0 = [c \in A |-> f0[c]]
      <3> HIDE DEF rest, A
      <3> QED
        OBVIOUS
    <2> HIDE DEF f0, last
    <2> QED
      BY <1>4, <2>1
  <1>6. from = body(from)
    <2> HIDE DEF body, f0
    <2> QED
      BY <1>5
  <1> HIDE DEF from, f0, rest
  <1>7. \A c \in A : from[c] = IF c = last THEN <<c>> ELSE <<c>> \o from[NextCombination(c, t)]
    BY <1>6
  <1> HIDE DEF last, body
  <1> DEFINE S == {c \in A : ~\E n : From(from[c], n, c, t, k)}
  <1>8. S = {}
    <2> SUFFICES ASSUME S # {} PROVE FALSE
      OBVIOUS
    <2>1. PICK c \in S : \A d \in S : ~Precede(c, d, k)
      <3>1. S \in SUBSET Increasing(t, k)
        OBVIOUS
      <3> HIDE DEF S
      <3> QED
        BY <3>1, Greatest
    <2>2. c \in Increasing(t, k) /\ ~\E n : From(from[c], n, c, t, k)
      OBVIOUS
    <2>3. c # Final(t, k)
      <3> SUFFICES ASSUME c = Final(t, k) PROVE FALSE
        OBVIOUS
      <3>1. from[c] = <<c>>
        BY <1>2, <1>7, <2>2
      <3>2. From(from[c], 1, c, t, k)
        BY <2>2, <3>1, FromFinal
      <3> QED
        BY <2>2, <3>2
    <2>4. NextCombination(c, t) \in Increasing(t, k) /\ Precede(c, NextCombination(c, t), k)
      BY <2>2, <2>3, NextIncreases
    <2>5. PICK n : From(from[NextCombination(c, t)], n, NextCombination(c, t), t, k)
      BY <2>1, <2>4
    <2>6. from[c] = <<c>> \o from[NextCombination(c, t)]
      BY <1>2, <1>7, <2>2, <2>3
    <2>7. From(from[c], n + 1, c, t, k)
      BY <2>2, <2>3, <2>5, <2>6, FromEarlier
    <2> QED
      BY <2>2, <2>7
  <1>9. First(k) \in A
    BY FirstAndFinal
  <1> QED
    BY <1>1, <1>8, <1>9

(* The combinations come in order, each once, and none is left out.        *)
LEMMA FromAscends ==
  ASSUME NEW t \in Nat, NEW k \in Nat, NEW c, NEW s, NEW n, From(s, n, c, t, k)
  PROVE  \A i, j \in 1..n : i < j => Precede(s[i], s[j], k)
  <1>1. n \in Nat \ {0} /\ s \in Seq(Increasing(t, k)) /\ Len(s) = n
    BY DEF From
  <1>2. \A i \in 1..n - 1 : s[i] # Final(t, k) /\ s[i + 1] = NextCombination(s[i], t)
    BY DEF From
  <1>3. \A i \in 1..n : s[i] \in Increasing(t, k) /\ s[i] \in [1..k -> Int]
    <2>1. \A i \in 1..n : s[i] \in Increasing(t, k)
      BY <1>1, ElementOfSeq
    <2> QED
      BY <2>1 DEF Increasing, Upto
  <1>4. \A i \in 1..n - 1 : Precede(s[i], s[i + 1], k)
    <2> TAKE i \in 1..n - 1
    <2>1. i \in 1..n
      BY <1>1
    <2> QED
      BY <1>2, <1>3, <2>1, NextIncreases
  <1> DEFINE S == {d \in Nat : \A i \in 1..n : i + (d + 1) \in 1..n => Precede(s[i], s[i + (d + 1)], k)}
  <1>5. 0 \in S
    <2> SUFFICES ASSUME NEW i \in 1..n, i + (0 + 1) \in 1..n PROVE Precede(s[i], s[i + (0 + 1)], k)
      OBVIOUS
    <2>1. i + (0 + 1) = i + 1 /\ i \in 1..n - 1
      BY <1>1
    <2> QED
      BY <1>4, <2>1
  <1>6. ASSUME NEW d \in Nat, d \in S PROVE d + 1 \in S
    <2> SUFFICES ASSUME NEW i \in 1..n, i + ((d + 1) + 1) \in 1..n
                 PROVE  Precede(s[i], s[i + ((d + 1) + 1)], k)
      OBVIOUS
    <2>1. i + (d + 1) \in 1..n - 1 /\ i + (d + 1) \in 1..n /\ (i + (d + 1)) + 1 = i + ((d + 1) + 1)
      BY <1>1
    <2>2. Precede(s[i], s[i + (d + 1)], k)
      BY <1>6, <2>1
    <2>3. Precede(s[i + (d + 1)], s[i + ((d + 1) + 1)], k)
      BY <1>4, <2>1
    <2> QED
      BY <1>3, <2>1, <2>2, <2>3, PrecedeTransitive
  <1> HIDE DEF S
  <1>7. Nat \subseteq S
    BY <1>5, <1>6, NatSetInduction
  <1> SUFFICES ASSUME NEW i \in 1..n, NEW j \in 1..n, i < j PROVE Precede(s[i], s[j], k)
    OBVIOUS
  <1>8. j - i - 1 \in S /\ i + ((j - i - 1) + 1) = j
    BY <1>7
  <1> QED
    BY <1>8 DEF S

LEMMA FromIsComplete ==
  ASSUME NEW t \in Nat, NEW k \in Nat, k <= t, NEW c \in Increasing(t, k), NEW s, NEW n,
         From(s, n, c, t, k), NEW d \in Increasing(t, k), ~Precede(d, c, k)
  PROVE  \E i \in 1..n : s[i] = d
  <1>1. n \in Nat \ {0} /\ s \in Seq(Increasing(t, k)) /\ Len(s) = n /\ s[1] = c /\ s[n] = Final(t, k)
    BY DEF From
  <1>2. \A i \in 1..n - 1 : s[i] # Final(t, k) /\ s[i + 1] = NextCombination(s[i], t)
    BY DEF From
  <1>3. \A i \in 1..n : s[i] \in Increasing(t, k)
    BY <1>1, ElementOfSeq
  <1> SUFFICES ASSUME \A i \in 1..n : s[i] # d PROVE FALSE
    OBVIOUS
  <1> DEFINE S == {i \in Nat : i + 1 \in 1..n => Precede(s[i + 1], d, k)}
  <1>4. 0 \in S
    <2>1. 1 \in 1..n /\ s[1] # d
      BY <1>1
    <2>2. c \in [1..k -> Int] /\ d \in [1..k -> Int]
      BY DEF Increasing, Upto
    <2>3. Precede(c, d, k)
      BY <1>1, <2>1, <2>2, PrecedeTotal
    <2> QED
      BY <1>1, <2>3
  <1>5. ASSUME NEW i \in Nat, i \in S PROVE i + 1 \in S
    <2> SUFFICES ASSUME (i + 1) + 1 \in 1..n PROVE Precede(s[(i + 1) + 1], d, k)
      OBVIOUS
    <2>1. i + 1 \in 1..n /\ i + 1 \in 1..n - 1
      BY <1>1
    <2>2. Precede(s[i + 1], d, k)
      BY <1>5, <2>1
    <2>3. s[i + 1] \in Increasing(t, k) /\ s[i + 1] # Final(t, k)
          /\ s[(i + 1) + 1] = NextCombination(s[i + 1], t)
      BY <1>2, <1>3, <2>1
    <2>4. d = s[(i + 1) + 1] \/ Precede(s[(i + 1) + 1], d, k)
      BY <2>2, <2>3, NextIsNext
    <2> QED
      BY <2>4
  <1> HIDE DEF S
  <1>6. Nat \subseteq S
    BY <1>4, <1>5, NatSetInduction
  <1>7. n - 1 \in S /\ (n - 1) + 1 = n /\ n \in 1..n
    BY <1>1, <1>6
  <1>8. Precede(Final(t, k), d, k)
    BY <1>1, <1>7 DEF S
  <1> QED
    BY <1>8, FirstAndFinal

(* The classes of one size.                                                *)
SizeClasses(t, k) ==
  [i \in DOMAIN Combinations(t, k) |-> Range(Combinations(t, k)[i])]

ListsSubsets(s, n, t, k) ==
  /\ n \in Nat /\ s \in Seq(SUBSET (0..t - 1)) /\ Len(s) = n
  /\ \A i \in 1..n : s[i] \in Subsets(t, k)
  /\ \A S \in Subsets(t, k) : \E i \in 1..n : s[i] = S
  /\ \A i, j \in 1..n : i < j => Before(s[i], s[j])

LEMMA SubsetsAreSmall ==
  ASSUME NEW t \in Nat, NEW k \in Nat, NEW S \in Subsets(t, k)
  PROVE  S \in SUBSET (0..t - 1) /\ Cardinality(S) = k /\ k <= t /\ (k = 0 => S = {})
  <1>1. S \in SUBSET (0..t - 1) /\ Cardinality(S) = k
    BY DEF Subsets, Upto
  <1>2. IsFiniteSet(0..t - 1) /\ Cardinality(0..t - 1) = t
    <2>1. 0 \in Int /\ t - 1 \in Int
      OBVIOUS
    <2>2. /\ IsFiniteSet(0..t - 1)
          /\ Cardinality(0..t - 1) = IF 0 > t - 1 THEN 0 ELSE t - 1 - 0 + 1
      BY <2>1, FS_Interval
    <2> QED
      BY <2>2
  <1>3. IsFiniteSet(S) /\ Cardinality(S) <= Cardinality(0..t - 1)
    BY <1>1, <1>2, FS_Subset
  <1>4. Cardinality(S) = 0 => S = {}
    BY <1>3, FS_EmptySet
  <1> QED
    BY <1>1, <1>2, <1>3, <1>4

LEMMA SizeClassesListed ==
  ASSUME NEW t \in Nat, NEW k \in Nat
  PROVE  \E n : ListsSubsets(SizeClasses(t, k), n, t, k)
  <1>1. CASE k = 0
    <2>1. Combinations(t, k) = << <<>> >>
      BY <1>1 DEF Combinations
    <2>2. SizeClasses(t, k) = << {} >>
      <3>1. DOMAIN << <<>> >> = 1..1 /\ << <<>> >>[1] = <<>>
        OBVIOUS
      <3>2. Range(<<>>) = {}
        BY DEF Range
      <3>3. SizeClasses(t, k) = [i \in 1..1 |-> {}]
        BY <2>1, <3>1, <3>2 DEF SizeClasses
      <3> QED
        BY <3>3
    <2>3. {} \in Subsets(t, k)
      BY <1>1, FS_EmptySet DEF Subsets, Upto
    <2>4. \A S \in Subsets(t, k) : S = {}
      BY <1>1, SubsetsAreSmall
    <2>5. << {} >> \in Seq(SUBSET (0..t - 1)) /\ Len(<< {} >>) = 1 /\ << {} >>[1] = {}
      OBVIOUS
    <2>6. \A i \in 1..1 : i = 1
      OBVIOUS
    <2>7. \A i \in 1..1 : << {} >>[i] \in Subsets(t, k)
      BY <2>3, <2>5, <2>6
    <2>8. \A S \in Subsets(t, k) : \E i \in 1..1 : << {} >>[i] = S
      <3>1. 1 \in 1..1
        OBVIOUS
      <3> QED
        BY <2>4, <2>5, <3>1
    <2>9. \A i, j \in 1..1 : i < j => Before(<< {} >>[i], << {} >>[j])
      OBVIOUS
    <2>10. ListsSubsets(<< {} >>, 1, t, k)
      BY <2>5, <2>7, <2>8, <2>9 DEF ListsSubsets
    <2> QED
      BY <2>2, <2>10
  <1>2. CASE k > t
    <2>1. Combinations(t, k) = <<>>
      BY <1>2 DEF Combinations
    <2>2. SizeClasses(t, k) = <<>>
      BY <2>1 DEF SizeClasses
    <2>3. Subsets(t, k) = {}
      BY <1>2, SubsetsAreSmall
    <2>4. <<>> \in Seq(SUBSET (0..t - 1)) /\ Len(<<>>) = 0 /\ 1..0 = {}
      OBVIOUS
    <2>5. ListsSubsets(<<>>, 0, t, k)
      BY <2>3, <2>4 DEF ListsSubsets
    <2> QED
      BY <2>2, <2>5
  <1>3. CASE k # 0 /\ k <= t
    <2> DEFINE c == Combinations(t, k)
    <2>1. PICK n : From(c, n, First(k), t, k)
      BY <1>3, CombinationsRun
    <2> HIDE DEF c
    <2>2. n \in Nat \ {0} /\ c \in Seq(Increasing(t, k)) /\ Len(c) = n /\ DOMAIN c = 1..n
      <3>1. n \in Nat \ {0} /\ c \in Seq(Increasing(t, k)) /\ Len(c) = n
        BY <2>1 DEF From
      <3> QED
        BY <3>1, LenProperties
    <2>3. \A i \in 1..n : c[i] \in Increasing(t, k)
      BY <2>2, ElementOfSeq
    <2> DEFINE s == [i \in 1..n |-> Range(c[i])]
    <2>4. SizeClasses(t, k) = s
      BY <2>2 DEF SizeClasses, c
    <2>5. \A i \in 1..n : s[i] = Range(c[i]) /\ s[i] \in Subsets(t, k) /\ s[i] \in SUBSET (0..t - 1)
      <3> TAKE i \in 1..n
      <3>1. s[i] = Range(c[i])
        OBVIOUS
      <3>2. Range(c[i]) \in Subsets(t, k)
        BY <2>3, ListsASet
      <3> QED
        BY <3>1, <3>2, SubsetsAreSmall
    <2>6. s \in Seq(SUBSET (0..t - 1)) /\ Len(s) = n
      <3>1. s \in [1..n -> SUBSET (0..t - 1)]
        BY <2>5
      <3> HIDE DEF s
      <3>2. s \in Seq(SUBSET (0..t - 1))
        BY <2>2, <3>1
      <3> QED
        BY <2>2, <3>1, <3>2, LenProperties
    <2> HIDE DEF s
    <2>7. ASSUME NEW S \in Subsets(t, k) PROVE \E i \in 1..n : s[i] = S
      <3>1. PICK d \in Increasing(t, k) : Range(d) = S
        BY SetIsListed
      <3>2. First(k) \in Increasing(t, k) /\ ~Precede(d, First(k), k)
        BY <1>3, FirstAndFinal
      <3>3. PICK i \in 1..n : c[i] = d
        BY <1>3, <2>1, <3>2, FromIsComplete
      <3> QED
        BY <2>5, <3>1, <3>3
    <2>8. ASSUME NEW i \in 1..n, NEW j \in 1..n, i < j PROVE Before(s[i], s[j])
      <3>1. Precede(c[i], c[j], k)
        BY <2>1, <2>8, FromAscends
      <3>2. Before(Range(c[i]), Range(c[j]))
        BY <2>3, <3>1, PrecedeIsBefore
      <3> QED
        BY <2>5, <3>2
    <2>9. ListsSubsets(s, n, t, k)
      BY <2>2, <2>5, <2>6, <2>7, <2>8 DEF ListsSubsets
    <2> QED
      BY <2>4, <2>9
  <1> QED
    BY <1>1, <1>2, <1>3

(* What FlattenSeq has joined after each of n sequences.                   *)
FlattenRun(r, q, n) ==
  /\ r[1] = q[1]
  /\ \A i \in 1..n - 1 : r[i + 1] = r[i] \o q[i + 1]

LEMMA FlattenOfRun ==
  ASSUME NEW X, NEW n \in Nat \ {0}, NEW q \in [1..n -> Seq(X)], NEW r, FlattenRun(r, q, n)
  PROVE  FlattenSeq(q) = r[n]
  <1> DEFINE flatten == CHOOSE f : f = [i \in 1..Len(q) |-> IF i = 1 THEN q[i] ELSE f[i - 1] \o q[i]]
             runs == [i \in 1..n |-> r[i]]
  <1>1. Len(q) = n
    <2>1. q \in Seq(Seq(X)) /\ DOMAIN q = 1..n
      OBVIOUS
    <2>2. Len(q) \in Nat /\ DOMAIN q = 1..Len(q)
      BY <2>1, LenProperties
    <2> QED
      BY <2>1, <2>2
  <1>2. FlattenSeq(q) = flatten[n]
    <2>1. Len(q) # 0
      BY <1>1
    <2> QED
      BY <1>1, <2>1 DEF FlattenSeq
  <1>3. \A i \in 1..n : i # 1 => i - 1 \in 1..n - 1 /\ i - 1 \in 1..n /\ (i - 1) + 1 = i
    OBVIOUS
  <1>4. \A i \in 1..n : r[i] = IF i = 1 THEN q[i] ELSE r[i - 1] \o q[i]
    <2> TAKE i \in 1..n
    <2>1. CASE i = 1
      BY <2>1 DEF FlattenRun
    <2>2. CASE i # 1
      <3>1. r[(i - 1) + 1] = r[i - 1] \o q[(i - 1) + 1]
        BY <1>3, <2>2 DEF FlattenRun
      <3> QED
        BY <1>3, <2>2, <3>1
    <2> QED
      BY <2>1, <2>2
  <1>5. runs = [i \in 1..Len(q) |-> IF i = 1 THEN q[i] ELSE runs[i - 1] \o q[i]]
    <2>1. \A i \in 1..n : r[i] = IF i = 1 THEN q[i] ELSE runs[i - 1] \o q[i]
      BY <1>3, <1>4
    <2> QED
      BY <1>1, <2>1
  <1>6. flatten = [i \in 1..Len(q) |-> IF i = 1 THEN q[i] ELSE flatten[i - 1] \o q[i]]
    <2> HIDE DEF runs
    <2> QED
      BY <1>5
  <1> HIDE DEF flatten
  <1>7. \A i \in 1..n : flatten[i] = IF i = 1 THEN q[i] ELSE flatten[i - 1] \o q[i]
    BY <1>1, <1>6
  <1> DEFINE S == {i \in Nat : i + 1 \in 1..n => flatten[i + 1] = r[i + 1]}
  <1>8. 0 \in S
    <2>1. 1 \in 1..n /\ 0 + 1 = 1
      OBVIOUS
    <2> QED
      BY <1>4, <1>7, <2>1
  <1>9. ASSUME NEW i \in Nat, i \in S PROVE i + 1 \in S
    <2>1. ASSUME (i + 1) + 1 \in 1..n PROVE flatten[(i + 1) + 1] = r[(i + 1) + 1]
      <3>1. (i + 1) + 1 # 1 /\ ((i + 1) + 1) - 1 = i + 1 /\ i + 1 \in 1..n
        BY <2>1
      <3>2. flatten[i + 1] = r[i + 1]
        BY <1>9, <3>1
      <3> QED
        BY <1>4, <1>7, <2>1, <3>1, <3>2
    <2> QED
      BY <2>1
  <1>10. n - 1 \in S /\ (n - 1) + 1 = n /\ n \in 1..n
    <2>1. Nat \subseteq S
      <3> HIDE DEF S
      <3> QED
        BY <1>8, <1>9, NatSetInduction
    <2> HIDE DEF S
    <2> QED
      BY <2>1
  <1>11. flatten[n] = r[n]
    BY <1>10
  <1> QED
    BY <1>2, <1>11

LEMMA FlattenSingletons ==
  ASSUME NEW X, NEW n \in Nat, NEW f \in [1..n -> X]
  PROVE  FlattenSeq([i \in 1..n |-> <<f[i]>>]) = f
  <1> DEFINE q == [i \in 1..n |-> <<f[i]>>]
             r == [i \in 1..n |-> [j \in 1..i |-> f[j]]]
  <1>1. CASE n = 0
    <2>1. q = <<>> /\ f = <<>>
      BY <1>1
    <2>2. FlattenSeq(<<>>) = <<>>
      BY DEF FlattenSeq
    <2> QED
      BY <2>1, <2>2
  <1>2. CASE n # 0
    <2>1. n \in Nat \ {0} /\ q \in [1..n -> Seq(X)]
      BY <1>2
    <2>2. r[1] = q[1]
      <3>1. 1 \in 1..n /\ \A j \in 1..1 : j = 1
        BY <2>1
      <3>2. q[1] = <<f[1]>> /\ r[1] = [j \in 1..1 |-> f[j]]
        BY <3>1
      <3>3. [j \in 1..1 |-> f[j]] = <<f[1]>>
        BY <3>1
      <3> QED
        BY <3>2, <3>3
    <2>3. ASSUME NEW i \in 1..n - 1 PROVE r[i + 1] = r[i] \o q[i + 1]
      <3>1. i \in 1..n /\ i + 1 \in 1..n /\ i \in Nat
        OBVIOUS
      <3>2. r[i] = [j \in 1..i |-> f[j]] /\ r[i + 1] = [j \in 1..i + 1 |-> f[j]] /\ q[i + 1] = <<f[i + 1]>>
        BY <3>1
      <3>3. [j \in 1..i |-> f[j]] \in Seq(X) /\ Len([j \in 1..i |-> f[j]]) = i /\ <<f[i + 1]>> \in Seq(X)
        BY <3>1
      <3>4. [j \in 1..i |-> f[j]] \o <<f[i + 1]>> = [j \in 1..i + 1 |-> f[j]]
        BY <3>1, <3>3
      <3> QED
        BY <3>2, <3>4
    <2>4. FlattenRun(r, q, n)
      <3> HIDE DEF r, q
      <3> QED
        BY <2>2, <2>3 DEF FlattenRun
    <2>5. FlattenSeq(q) = r[n]
      <3> HIDE DEF r, q
      <3> QED
        BY <2>1, <2>4, FlattenOfRun
    <2>6. r[n] = f
      BY <2>1
    <2> QED
      BY <2>5, <2>6
  <1> QED
    BY <1>1, <1>2

(* Positions p and r of out hold elements of q[1] to q[n], in that order.   *)
FromInOrder(out, q, n, p, r) ==
  \E a \in 1..n, b \in 1..n : \E i \in 1..Len(q[a]), j \in 1..Len(q[b]) :
    out[p] = q[a][i] /\ out[r] = q[b][j] /\ (a < b \/ (a = b /\ i < j))

(* What FlattenSeq makes of n sequences.                                   *)
Joined(out, q, n) ==
  /\ \A a \in 1..n : \A i \in 1..Len(q[a]) : \E p \in 1..Len(out) : out[p] = q[a][i]
  /\ \A p \in 1..Len(out) : \E a \in 1..n : \E i \in 1..Len(q[a]) : out[p] = q[a][i]
  /\ \A p, r \in 1..Len(out) : p < r => FromInOrder(out, q, n, p, r)

LEMMA JoinedOne ==
  ASSUME NEW q
  PROVE  Joined(q[1], q, 1)
  <1>1. 1 \in 1..1 /\ \A a \in 1..1 : a = 1
    OBVIOUS
  <1> QED
    BY <1>1 DEF Joined, FromInOrder

LEMMA JoinedMore ==
  ASSUME NEW X, NEW n \in Nat \ {0}, NEW q, NEW out \in Seq(X), q[n + 1] \in Seq(X), Joined(out, q, n)
  PROVE  Joined(out \o q[n + 1], q, n + 1)
  <1> DEFINE all == out \o q[n + 1]
  <1>1. PICK l \in Nat : l = Len(out)
    BY LenProperties
  <1>2. PICK m \in Nat : m = Len(q[n + 1])
    BY LenProperties
  <1>3. Len(all) = l + m /\ \A p \in 1..l + m : all[p] = IF p <= l THEN out[p] ELSE q[n + 1][p - l]
    BY <1>1, <1>2, ConcatProperties
  <1> HIDE DEF all
  <1>4. \A p \in 1..l : p \in 1..l + m /\ all[p] = out[p]
    BY <1>3
  <1>5. \A i \in 1..m : i + l \in 1..l + m /\ all[i + l] = q[n + 1][i]
    BY <1>3
  <1>6. \A p \in 1..l + m : p \in 1..l \/ p - l \in 1..m
    OBVIOUS
  <1>7. \A a \in 1..n + 1 : a \in 1..n \/ a = n + 1
    OBVIOUS
  <1>8. \A a \in 1..n : a \in 1..n + 1 /\ a < n + 1
    OBVIOUS
  <1>9. n + 1 \in 1..n + 1
    OBVIOUS
  <1>10. ASSUME NEW a \in 1..n + 1, NEW i \in 1..Len(q[a])
         PROVE  \E p \in 1..Len(all) : all[p] = q[a][i]
    <2>1. CASE a \in 1..n
      <3>1. PICK p \in 1..Len(out) : out[p] = q[a][i]
        BY <2>1 DEF Joined
      <3> QED
        BY <1>1, <1>3, <1>4, <3>1
    <2>2. CASE a = n + 1
      <3>1. i \in 1..m
        BY <1>2, <2>2
      <3> QED
        BY <1>3, <1>5, <2>2, <3>1
    <2> QED
      BY <1>7, <2>1, <2>2
  <1>11. ASSUME NEW p \in 1..Len(all)
         PROVE  \E a \in 1..n + 1 : \E i \in 1..Len(q[a]) : all[p] = q[a][i]
    <2>1. p \in 1..l + m
      BY <1>3
    <2>2. CASE p \in 1..l
      <3>1. PICK a \in 1..n : \E i \in 1..Len(q[a]) : out[p] = q[a][i]
        BY <1>1, <2>2 DEF Joined
      <3> QED
        BY <1>4, <1>8, <2>2, <3>1
    <2>3. CASE p - l \in 1..m
      <3>1. all[(p - l) + l] = q[n + 1][p - l] /\ (p - l) + l = p
        BY <1>5, <2>1, <2>3
      <3> QED
        BY <1>2, <1>9, <2>3, <3>1
    <2> QED
      BY <1>6, <2>1, <2>2, <2>3
  <1>12. ASSUME NEW p \in 1..Len(all), NEW r \in 1..Len(all), p < r
         PROVE  \E a, b \in 1..n + 1 : \E i \in 1..Len(q[a]), j \in 1..Len(q[b]) :
                  all[p] = q[a][i] /\ all[r] = q[b][j] /\ (a < b \/ (a = b /\ i < j))
    <2>1. p \in 1..l + m /\ r \in 1..l + m
      BY <1>3
    <2>2. CASE r \in 1..l
      <3>1. p \in 1..l
        BY <1>12, <2>1, <2>2
      <3>2. p \in 1..Len(out) /\ r \in 1..Len(out)
        BY <1>1, <2>2, <3>1
      <3>3. PICK a \in 1..n, b \in 1..n : \E i \in 1..Len(q[a]), j \in 1..Len(q[b]) :
              out[p] = q[a][i] /\ out[r] = q[b][j] /\ (a < b \/ (a = b /\ i < j))
        <4>1. FromInOrder(out, q, n, p, r)
          BY <1>12, <3>2 DEF Joined
        <4> QED
          BY <4>1 DEF FromInOrder
      <3>4. all[p] = out[p] /\ all[r] = out[r] /\ a \in 1..n + 1 /\ b \in 1..n + 1
        BY <1>4, <1>8, <2>2, <3>1
      <3> QED
        BY <3>3, <3>4
    <2>3. CASE p \in 1..l /\ r - l \in 1..m
      <3>1. PICK a \in 1..n : \E i \in 1..Len(q[a]) : out[p] = q[a][i]
        BY <1>1, <2>3 DEF Joined
      <3>2. PICK i \in 1..Len(q[a]) : out[p] = q[a][i]
        BY <3>1
      <3>3. all[r] = q[n + 1][r - l]
        <4>1. all[(r - l) + l] = q[n + 1][r - l] /\ (r - l) + l = r
          BY <1>5, <2>1, <2>3
        <4> QED
          BY <4>1
      <3>4. all[p] = q[a][i] /\ a \in 1..n + 1 /\ a < n + 1 /\ r - l \in 1..Len(q[n + 1])
        BY <1>2, <1>4, <1>8, <2>3, <3>2
      <3> QED
        BY <1>9, <3>3, <3>4
    <2>4. CASE p - l \in 1..m /\ r - l \in 1..m
      <3>1. all[p] = q[n + 1][p - l] /\ all[r] = q[n + 1][r - l]
        <4>1. all[(r - l) + l] = q[n + 1][r - l] /\ (r - l) + l = r
          BY <1>5, <2>1, <2>4
        <4>2. all[(p - l) + l] = q[n + 1][p - l] /\ (p - l) + l = p
          BY <1>5, <2>1, <2>4
        <4> QED
          BY <4>1, <4>2
      <3>2. p - l \in 1..Len(q[n + 1]) /\ r - l \in 1..Len(q[n + 1]) /\ p - l < r - l
        BY <1>2, <1>12, <2>1, <2>4
      <3> QED
        BY <1>9, <3>1, <3>2
    <2>5. r \in 1..l \/ (p \in 1..l /\ r - l \in 1..m) \/ (p - l \in 1..m /\ r - l \in 1..m)
      BY <1>6, <2>1
    <2> QED
      BY <2>2, <2>3, <2>4, <2>5
  <1>13. Joined(all, q, n + 1)
    BY <1>10, <1>11, <1>12 DEF Joined, FromInOrder
  <1> QED
    BY <1>13 DEF all

LEMMA FlattenJoins ==
  ASSUME NEW X, NEW n \in Nat \ {0}, NEW q, q \in [1..n -> Seq(X)]
  PROVE  FlattenSeq(q) \in Seq(X) /\ Joined(FlattenSeq(q), q, n)
  <1> DEFINE body(f, m) == [i \in 1..m |-> IF i = 1 THEN q[i] ELSE f[i - 1] \o q[i]]
             flatten == CHOOSE f : f = [i \in 1..Len(q) |-> IF i = 1 THEN q[i] ELSE f[i - 1] \o q[i]]
             N == {d \in Nat : \E f : f = body(f, d + 1)}
  <1>1. q \in Seq(Seq(X)) /\ Len(q) = n
    <2>1. q \in Seq(Seq(X)) /\ DOMAIN q = 1..n
      OBVIOUS
    <2>2. Len(q) \in Nat /\ DOMAIN q = 1..Len(q)
      BY <2>1, LenProperties
    <2> QED
      BY <2>1, <2>2
  <1>2. FlattenSeq(q) = flatten[n]
    <2>1. Len(q) # 0
      BY <1>1
    <2> QED
      BY <1>1, <2>1 DEF FlattenSeq
  <1>3. 0 \in N
    <2> DEFINE f == [i \in 1..1 |-> q[i]]
    <2>1. \A i \in 1..1 : i = 1
      OBVIOUS
    <2>2. f = [i \in 1..0 + 1 |-> IF i = 1 THEN q[i] ELSE f[i - 1] \o q[i]]
      BY <2>1
    <2> HIDE DEF f
    <2> QED
      BY <2>2
  <1>4. ASSUME NEW d \in Nat, d \in N PROVE d + 1 \in N
    <2>1. PICK g : g = body(g, d + 1)
      BY <1>4
    <2>2. \A i \in 1..d + 1 : g[i] = IF i = 1 THEN q[i] ELSE g[i - 1] \o q[i]
      BY <2>1
    <2> DEFINE next == g[d + 1] \o q[(d + 1) + 1]
               f == [i \in 1..(d + 1) + 1 |-> IF i = (d + 1) + 1 THEN next ELSE g[i]]
    <2>3. f[(d + 1) + 1] = next /\ f = [i \in 1..(d + 1) + 1 |-> f[i]] /\ \A i \in 1..d + 1 : f[i] = g[i]
      <3> HIDE DEF next
      <3> QED
        OBVIOUS
    <2> HIDE DEF f
    <2>4. \A i \in 1..(d + 1) + 1 : f[i] = IF i = 1 THEN q[i] ELSE f[i - 1] \o q[i]
      <3> TAKE i \in 1..(d + 1) + 1
      <3>1. CASE i = (d + 1) + 1
        <4>1. i # 1 /\ i - 1 = d + 1 /\ d + 1 \in 1..d + 1
          BY <3>1
        <4>2. f[i - 1] = g[d + 1]
          BY <2>3, <4>1
        <4>3. f[i] = g[d + 1] \o q[i]
          BY <2>3, <3>1
        <4> QED
          BY <4>1, <4>2, <4>3
      <3>2. CASE i \in 1..d + 1
        <4>1. i # 1 => i - 1 \in 1..d + 1
          BY <3>2
        <4>2. f[i] = g[i]
          BY <2>3, <3>2
        <4>3. i # 1 => f[i - 1] = g[i - 1]
          BY <2>3, <4>1
        <4> QED
          BY <2>2, <3>2, <4>2, <4>3
      <3> QED
        BY <3>1, <3>2
    <2>5. f = body(f, (d + 1) + 1)
      BY <2>3, <2>4
    <2> HIDE DEF body
    <2>6. d + 1 \in Nat /\ \E h : h = body(h, (d + 1) + 1)
      BY <2>5
    <2> QED
      BY <2>6
  <1>5. n - 1 \in N /\ (n - 1) + 1 = n
    <2>1. Nat \subseteq N
      <3> HIDE DEF N
      <3> QED
        BY <1>3, <1>4, NatSetInduction
    <2> HIDE DEF N
    <2> QED
      BY <2>1
  <1>6. \E f : f = body(f, n)
    BY <1>5
  <1>7. flatten = body(flatten, n)
    <2>1. flatten = CHOOSE f : f = body(f, n)
      BY <1>1
    <2> HIDE DEF body, flatten
    <2> QED
      BY <1>6, <2>1
  <1> HIDE DEF flatten
  <1>8. \A i \in 1..n : flatten[i] = IF i = 1 THEN q[i] ELSE flatten[i - 1] \o q[i]
    BY <1>7
  <1> DEFINE S == {d \in Nat : d + 1 \in 1..n => /\ flatten[d + 1] \in Seq(X)
                                                  /\ Joined(flatten[d + 1], q, d + 1)}
  <1>9. 0 \in S
    <2>1. 1 \in 1..n /\ 0 + 1 = 1
      OBVIOUS
    <2>2. flatten[1] = q[1] /\ q[1] \in Seq(X)
      BY <1>8, <2>1
    <2>3. Joined(q[1], q, 1)
      BY JoinedOne
    <2> QED
      BY <2>1, <2>2, <2>3
  <1>10. ASSUME NEW d \in Nat, d \in S PROVE d + 1 \in S
    <2> SUFFICES ASSUME (d + 1) + 1 \in 1..n
                 PROVE  /\ flatten[(d + 1) + 1] \in Seq(X)
                        /\ Joined(flatten[(d + 1) + 1], q, (d + 1) + 1)
      OBVIOUS
    <2>1. d + 1 \in 1..n /\ d + 1 \in Nat \ {0} /\ (d + 1) + 1 # 1 /\ ((d + 1) + 1) - 1 = d + 1
      OBVIOUS
    <2>2. flatten[d + 1] \in Seq(X) /\ Joined(flatten[d + 1], q, d + 1)
      BY <1>10, <2>1
    <2>3. q[(d + 1) + 1] \in Seq(X)
      OBVIOUS
    <2>4. flatten[(d + 1) + 1] = flatten[d + 1] \o q[(d + 1) + 1]
      BY <1>8, <2>1
    <2>5. Joined(flatten[d + 1] \o q[(d + 1) + 1], q, (d + 1) + 1)
      BY <2>1, <2>2, <2>3, JoinedMore
    <2>6. flatten[d + 1] \o q[(d + 1) + 1] \in Seq(X)
      BY <2>2, <2>3, ConcatProperties
    <2> QED
      BY <2>4, <2>5, <2>6
  <1> HIDE DEF S
  <1>11. n - 1 \in S
    <2>1. Nat \subseteq S
      BY <1>9, <1>10, NatSetInduction
    <2> QED
      BY <2>1
  <1>12. flatten[n] \in Seq(X) /\ Joined(flatten[n], q, n)
    <2>1. (n - 1) + 1 = n /\ n \in 1..n
      OBVIOUS
    <2> QED
      BY <1>11, <2>1 DEF S
  <1> QED
    BY <1>2, <1>12

(* The classes of the segmentation model are all the sets of speakers up   *)
(* to the largest size, the smaller sets first and those of one size in    *)
(* lexicographic order, for any number of speakers: the enumeration of     *)
(* combinations in powerset.rs neither misses nor repeats one.             *)
THEOREM ClassesInOrder ==
  ASSUME NEW speakers \in Nat, NEW maxSet \in Nat
  PROVE  AllSetsInOrder(PowersetMapping(speakers, maxSet), speakers, maxSet)
  <1> DEFINE q == [s \in 1..maxSet + 1 |-> SizeClasses(speakers, s - 1)]
             X == SUBSET (0..speakers - 1)
             out == PowersetMapping(speakers, maxSet)
             n == maxSet + 1
  <1>1. out = FlattenSeq(q)
    BY DEF PowersetMapping, SizeClasses
  <1>2. \A a \in 1..n : a - 1 \in Nat /\ a - 1 \in 0..maxSet /\ q[a] = SizeClasses(speakers, a - 1)
    OBVIOUS
  <1>3. n \in Nat \ {0} /\ DOMAIN q = 1..n /\ q = [a \in 1..n |-> q[a]]
    OBVIOUS
  <1> HIDE DEF q, out, n
  <1>4. ASSUME NEW a \in 1..n
        PROVE  /\ q[a] \in Seq(X)
               /\ \A i \in 1..Len(q[a]) : q[a][i] \in Subsets(speakers, a - 1)
               /\ \A S \in Subsets(speakers, a - 1) : \E i \in 1..Len(q[a]) : q[a][i] = S
               /\ \A i, j \in 1..Len(q[a]) : i < j => Before(q[a][i], q[a][j])
    <2>1. PICK l : ListsSubsets(q[a], l, speakers, a - 1)
      BY <1>2, SizeClassesListed
    <2> QED
      BY <2>1 DEF ListsSubsets
  <1>5. q \in [1..n -> Seq(X)]
    BY <1>3, <1>4
  <1>6. out \in Seq(X) /\ Joined(out, q, n)
    BY <1>1, <1>3, <1>5, FlattenJoins
  <1>7. DOMAIN out = 1..Len(out)
    BY <1>6, LenProperties
  <1>8. \A p \in 1..Len(out) : \E a \in 1..n : \E i \in 1..Len(q[a]) : out[p] = q[a][i]
    BY <1>6 DEF Joined
  <1>9. \A a \in 1..n : \A i \in 1..Len(q[a]) : \E p \in 1..Len(out) : out[p] = q[a][i]
    BY <1>6 DEF Joined
  <1>10. ASSUME NEW p \in DOMAIN out
         PROVE  out[p] \in UNION {Subsets(speakers, k) : k \in 0..maxSet}
    <2>1. PICK a \in 1..n : \E i \in 1..Len(q[a]) : out[p] = q[a][i]
      BY <1>7, <1>8
    <2>2. out[p] \in Subsets(speakers, a - 1)
      BY <1>4, <2>1
    <2> QED
      BY <1>2, <2>2
  <1>11. ASSUME NEW k \in 0..maxSet, NEW S \in Subsets(speakers, k)
         PROVE  S \in Range(out)
    <2>1. k + 1 \in 1..n /\ (k + 1) - 1 = k
      BY DEF n
    <2>2. PICK i \in 1..Len(q[k + 1]) : q[k + 1][i] = S
      BY <1>4, <2>1
    <2>3. PICK p \in 1..Len(out) : out[p] = q[k + 1][i]
      BY <1>9, <2>1
    <2> QED
      BY <1>7, <2>2, <2>3 DEF Range
  <1>12. Range(out) = UNION {Subsets(speakers, k) : k \in 0..maxSet}
    BY <1>10, <1>11 DEF Range
  <1>13. ASSUME NEW p \in DOMAIN out, NEW r \in DOMAIN out, p < r
         PROVE  \/ Cardinality(out[p]) < Cardinality(out[r])
                \/ Cardinality(out[p]) = Cardinality(out[r]) /\ Before(out[p], out[r])
    <2>1. PICK a \in 1..n, b \in 1..n : \E i \in 1..Len(q[a]), j \in 1..Len(q[b]) :
            out[p] = q[a][i] /\ out[r] = q[b][j] /\ (a < b \/ (a = b /\ i < j))
      <3>1. p \in 1..Len(out) /\ r \in 1..Len(out)
        BY <1>7
      <3> QED
        <4>1. FromInOrder(out, q, n, p, r)
          BY <1>6, <1>13, <3>1 DEF Joined
        <4> QED
          BY <4>1 DEF FromInOrder
    <2>2. PICK i \in 1..Len(q[a]), j \in 1..Len(q[b]) :
            out[p] = q[a][i] /\ out[r] = q[b][j] /\ (a < b \/ (a = b /\ i < j))
      BY <2>1
    <2>3. q[a][i] \in Subsets(speakers, a - 1) /\ q[b][j] \in Subsets(speakers, b - 1)
      BY <1>4
    <2>4. Cardinality(out[p]) = a - 1 /\ Cardinality(out[r]) = b - 1
      BY <2>2, <2>3 DEF Subsets
    <2>5. CASE a < b
      BY <2>4, <2>5
    <2>6. CASE a = b /\ i < j
      <3>1. Before(q[a][i], q[a][j])
        BY <1>4, <2>6
      <3> QED
        BY <2>2, <2>4, <2>6, <3>1
    <2> QED
      BY <2>2, <2>5, <2>6
  <1>14. AllSetsInOrder(out, speakers, maxSet)
    BY <1>12, <1>13 DEF AllSetsInOrder
  <1> QED
    BY <1>14 DEF out
-----------------------------------------------------------------------------
(* A strict total order on a finite set lists it.                          *)
Orders(R, S) ==
  /\ \A a \in S : <<a, a>> \notin R
  /\ \A a, b, c \in S : <<a, b>> \in R /\ <<b, c>> \in R => <<a, c>> \in R
  /\ \A a, b \in S : a = b \/ <<a, b>> \in R \/ <<b, a>> \in R

Under(R, S, a) == {b \in S : <<b, a>> \in R}

InOrder(R, S) ==
  [i \in 1..Cardinality(S) |-> CHOOSE a \in S : Cardinality(Under(R, S, a)) = i - 1]

ListsAll(q, m, R, S) ==
  /\ q = [i \in 1..m |-> q[i]]
  /\ \A i \in 1..m : q[i] \in S
  /\ \A a \in S : \E i \in 1..m : q[i] = a
  /\ \A i, j \in 1..m : i < j => <<q[i], q[j]>> \in R

LEMMA RankRises ==
  ASSUME NEW S, IsFiniteSet(S), NEW R, Orders(R, S), NEW a \in S, NEW b \in S, <<a, b>> \in R
  PROVE  Cardinality(Under(R, S, a)) < Cardinality(Under(R, S, b))
  <1> DEFINE A == Under(R, S, a)
             B == Under(R, S, b)
  <1>1. A \subseteq B /\ a \in B /\ a \notin A
    BY DEF Under, Orders
  <1>2. IsFiniteSet(B)
    BY FS_Subset DEF Under
  <1> HIDE DEF A, B
  <1>3. A # B
    BY <1>1
  <1>4. IsFiniteSet(A) /\ Cardinality(A) <= Cardinality(B) /\ Cardinality(A) # Cardinality(B)
    BY <1>1, <1>2, <1>3, FS_Subset
  <1>5. Cardinality(A) \in Nat /\ Cardinality(B) \in Nat
    BY <1>2, <1>4, FS_CardinalityType
  <1>6. Cardinality(A) < Cardinality(B)
    BY <1>4, <1>5
  <1> QED
    BY <1>6 DEF A, B

LEMMA OrderLists ==
  ASSUME NEW S, IsFiniteSet(S), NEW R, Orders(R, S)
  PROVE  \E m \in Nat : m = Cardinality(S) /\ ListsAll(InOrder(R, S), m, R, S)
  <1>1. PICK m \in Nat : m = Cardinality(S)
    BY FS_CardinalityType
  <1> DEFINE D == 0..m - 1
             rank == [a \in S |-> Cardinality(Under(R, S, a))]
             q == InOrder(R, S)
  <1>2. ASSUME NEW a \in S PROVE Cardinality(Under(R, S, a)) \in D
    <2> DEFINE A == Under(R, S, a)
    <2>1. A \subseteq S /\ a \notin A
      BY DEF Under, Orders
    <2> HIDE DEF A
    <2>2. A # S
      BY <2>1
    <2>3. IsFiniteSet(A) /\ Cardinality(A) <= Cardinality(S) /\ Cardinality(A) # Cardinality(S)
      BY <2>1, <2>2, FS_Subset
    <2>4. Cardinality(A) \in Nat
      BY <2>3, FS_CardinalityType
    <2>5. Cardinality(A) \in D
      BY <1>1, <2>3, <2>4
    <2> QED
      BY <2>5 DEF A
  <1>3. rank \in [S -> D]
    BY <1>2
  <1>4. \A a, b \in S : <<a, b>> \in R => rank[a] < rank[b]
    BY RankRises
  <1>5. \A a \in S : rank[a] = Cardinality(Under(R, S, a))
    OBVIOUS
  <1> HIDE DEF rank
  <1>6. \A a, b \in S : rank[a] = rank[b] => a = b
    <2> SUFFICES ASSUME NEW a \in S, NEW b \in S, rank[a] = rank[b] PROVE a = b
      OBVIOUS
    <2>1. rank[a] \in Int /\ rank[b] \in Int
      BY <1>3
    <2>2. <<a, b>> \notin R /\ <<b, a>> \notin R
      BY <1>4, <2>1
    <2> QED
      BY <2>2 DEF Orders
  <1>7. rank \in Injection(S, D)
    BY <1>3, <1>6 DEF Injection, IsInjective
  <1>8. IsFiniteSet(D) /\ Cardinality(D) = m
    BY FirstNaturals
  <1> HIDE DEF D
  <1>9. rank \in Surjection(S, D)
    BY <1>1, <1>7, <1>8, FS_Injection
  <1>10. q = [i \in 1..m |-> q[i]]
    BY <1>1 DEF InOrder
  <1>11. ASSUME NEW i \in 1..m PROVE q[i] \in S /\ rank[q[i]] = i - 1
    <2>1. q[i] = CHOOSE a \in S : Cardinality(Under(R, S, a)) = i - 1
      BY <1>1 DEF InOrder
    <2>2. i - 1 \in D
      BY DEF D
    <2>3. PICK a \in S : rank[a] = i - 1
      BY <1>9, <2>2 DEF Surjection
    <2>4. Cardinality(Under(R, S, a)) = i - 1
      BY <1>5, <2>3
    <2> HIDE DEF q
    <2>5. q[i] \in S /\ Cardinality(Under(R, S, q[i])) = i - 1
      BY <2>1, <2>4
    <2> QED
      BY <1>5, <2>5
  <1> HIDE DEF q
  <1>12. ASSUME NEW a \in S PROVE \E i \in 1..m : q[i] = a
    <2>1. rank[a] \in 0..m - 1
      BY <1>3 DEF D
    <2>2. rank[a] + 1 \in 1..m /\ (rank[a] + 1) - 1 = rank[a]
      BY <2>1
    <2>3. q[rank[a] + 1] \in S /\ rank[q[rank[a] + 1]] = rank[a]
      BY <1>11, <2>2
    <2> QED
      BY <1>6, <2>2, <2>3
  <1>13. ASSUME NEW i \in 1..m, NEW j \in 1..m, i < j PROVE <<q[i], q[j]>> \in R
    <2>1. q[i] \in S /\ q[j] \in S /\ rank[q[i]] = i - 1 /\ rank[q[j]] = j - 1
      BY <1>11
    <2>2. q[i] # q[j]
      BY <1>13, <2>1
    <2>3. <<q[j], q[i]>> \notin R
      BY <1>4, <1>13, <2>1
    <2> QED
      BY <2>1, <2>2, <2>3 DEF Orders
  <1>14. ListsAll(q, m, R, S)
    BY <1>10, <1>11, <1>12, <1>13 DEF ListsAll
  <1> QED
    BY <1>1, <1>14 DEF q

-----------------------------------------------------------------------------
(* The turn of speaker k whose region is the frames x .. y - 1.            *)
TurnOf(x, y, n, k) == [start |-> x, end |-> IF y <= n - 1 THEN y ELSE n - 1, speaker |-> k]
FromRun(g, active, n, k, x, y) == IsRun(active[k], TRUE, n, x, y) /\ g = TurnOf(x, y, n, k)
IsTurn(g, active, n, k) == \E x, y \in Nat : FromRun(g, active, n, k, x, y)

Turn == [start : Nat, end : Nat, speaker : Int]

SegmentsAreTurns(a, n, k) ==
  \A g : g \in SpeakerSegments(a, k) <=>
           \E x, y \in Nat : IsRun(a, TRUE, n, x, y) /\ g = TurnOf(x, y, n, k)

LEMMA SpeakerTurns ==
  ASSUME NEW n \in Nat, NEW a \in [0..n - 1 -> BOOLEAN], NEW k
  PROVE  SegmentsAreTurns(a, n, k)
  <1>1. FramesOf(a) = n
    BY FramesCount
  <1>2. RunsAre(a, TRUE, n)
    BY RunsFound
  <1>3. ASSUME NEW r, NEW x \in Nat, NEW y \in Nat, r = <<x, y>>
        PROVE  [start |-> r[1], end |-> Min({r[2], FramesOf(a) - 1}), speaker |-> k] = TurnOf(x, y, n, k)
    <2>1. r[1] = x /\ r[2] = y
      BY <1>3
    <2>2. Min({y, n - 1}) = IF y <= n - 1 THEN y ELSE n - 1
      BY MinTwo
    <2> QED
      BY <1>1, <2>1, <2>2 DEF TurnOf
  <1>4. ASSUME NEW g, g \in SpeakerSegments(a, k)
        PROVE  \E x, y \in Nat : IsRun(a, TRUE, n, x, y) /\ g = TurnOf(x, y, n, k)
    <2>1. PICK r \in FindRuns(a, TRUE) :
            g = [start |-> r[1], end |-> Min({r[2], FramesOf(a) - 1}), speaker |-> k]
      BY <1>4 DEF SpeakerSegments
    <2>2. PICK x \in Nat, y \in Nat : r = <<x, y>> /\ IsRun(a, TRUE, n, x, y)
      BY <1>2 DEF RunsAre
    <2>3. g = TurnOf(x, y, n, k)
      BY <1>3, <2>1, <2>2
    <2> QED
      BY <2>2, <2>3
  <1>5. ASSUME NEW x \in Nat, NEW y \in Nat, IsRun(a, TRUE, n, x, y)
        PROVE  TurnOf(x, y, n, k) \in SpeakerSegments(a, k)
    <2>1. PICK r : r = <<x, y>>
      OBVIOUS
    <2>2. r \in FindRuns(a, TRUE)
      BY <1>2, <1>5, <2>1 DEF RunsAre
    <2>3. [start |-> r[1], end |-> Min({r[2], FramesOf(a) - 1}), speaker |-> k] = TurnOf(x, y, n, k)
      BY <1>3, <2>1
    <2> QED
      BY <2>2, <2>3 DEF SpeakerSegments
  <1> QED
    BY <1>4, <1>5 DEF SegmentsAreTurns

TurnSpans(g, n, k, x, y) ==
  /\ g \in Turn /\ g.speaker = k /\ g.start = x /\ x \in 0..n - 1
  /\ g.end <= n - 1 /\ g.start <= g.end /\ g.end <= y
  /\ g.end < n - 1 => g.end = y

LEMMA TurnFacts ==
  ASSUME NEW n \in Nat, NEW active, NEW k \in Int, NEW x \in Nat, NEW y \in Nat,
         NEW g, FromRun(g, active, n, k, x, y)
  PROVE  TurnSpans(g, n, k, x, y)
  <1>1. x \in 0..n - 1 /\ y \in 1..n /\ x < y
    BY DEF FromRun, IsRun
  <1>2. g.start = x /\ g.speaker = k /\ g.end = (IF y <= n - 1 THEN y ELSE n - 1)
    BY DEF FromRun, TurnOf
  <1>3. g.end \in Nat /\ g.end <= n - 1 /\ x <= g.end /\ g.end <= y /\ (g.end < n - 1 => g.end = y)
    BY <1>1, <1>2
  <1>4. g \in Turn
    BY <1>1, <1>3 DEF FromRun, TurnOf, Turn
  <1> QED
    BY <1>1, <1>2, <1>3, <1>4 DEF TurnSpans

(* Two turns of a speaker are the same or the later starts after the end   *)
(* of the earlier.                                                         *)
LEMMA TurnsApart ==
  ASSUME NEW n \in Nat, NEW active, NEW k \in Int,
         NEW g, IsTurn(g, active, n, k), NEW h, IsTurn(h, active, n, k)
  PROVE  /\ g.start = h.start => g = h
         /\ g.start < h.start => g.end < h.start
  <1>1. PICK x \in Nat, y \in Nat : FromRun(g, active, n, k, x, y)
    BY DEF IsTurn
  <1>2. PICK p \in Nat, q \in Nat : FromRun(h, active, n, k, p, q)
    BY DEF IsTurn
  <1>3. g.start = x /\ g.end <= y /\ g.end \in Nat
    <2>1. TurnSpans(g, n, k, x, y)
      BY <1>1, TurnFacts
    <2> QED
      BY <2>1 DEF TurnSpans, Turn
  <1>4. h.start = p
    <2>1. TurnSpans(h, n, k, p, q)
      BY <1>2, TurnFacts
    <2> QED
      BY <2>1 DEF TurnSpans
  <1>5. /\ x \in 0..n - 1 /\ y \in 1..n /\ x < y /\ (y < n => active[k][y] # TRUE)
        /\ p \in 0..n - 1 /\ q \in 1..n /\ p < q /\ \A f \in p..q - 1 : active[k][f] = TRUE
    BY <1>1, <1>2 DEF FromRun, IsRun
  <1>6. ASSUME p \in x..y - 1 PROVE x = p /\ y = q
    <2>1. p \in p..q - 1
      BY <1>5
    <2>2. SameRun(x, y, p, q)
      BY <1>1, <1>2, <1>6, <2>1, RunsDisjoint DEF FromRun
    <2> QED
      BY <2>2 DEF SameRun
  <1>7. ASSUME x = p PROVE g = h
    <2>1. p \in x..y - 1
      BY <1>5, <1>7
    <2> QED
      BY <1>1, <1>2, <1>6, <2>1 DEF FromRun
  <1>8. ASSUME x < p PROVE g.end < p
    <2>1. p \notin x..y - 1
      BY <1>6, <1>8, <1>5
    <2>2. p # y
      <3>1. p \in p..q - 1 /\ p < n
        BY <1>5
      <3> QED
        BY <1>5, <3>1
    <2>3. y < p
      BY <1>5, <1>8, <2>1, <2>2
    <2> QED
      BY <1>3, <2>3
  <1> QED
    BY <1>3, <1>4, <1>7, <1>8

(* The list of all turns by start and, among equal starts, by speaker.     *)
Listed(q, m, active, n) ==
  /\ q \in Seq(Turn) /\ Len(q) = m
  /\ \A i \in 1..m : q[i].speaker \in DOMAIN active /\ IsTurn(q[i], active, n, q[i].speaker)
  /\ \A k \in DOMAIN active : \A g : IsTurn(g, active, n, k) => \E i \in 1..m : q[i] = g
  /\ \A i, j \in 1..m : i < j =>
       /\ q[i].start <= q[j].start
       /\ q[i].speaker = q[j].speaker => q[i].end < q[j].start

LEMMA TurnsListed ==
  ASSUME NEW n \in Nat, NEW K \in SUBSET Int, IsFiniteSet(K),
         NEW active \in [K -> [0..n - 1 -> BOOLEAN]]
  PROVE  \E m \in Nat : Listed(ToSegments(active), m, active, n)
  <1> DEFINE all == UNION {SpeakerSegments(active[s], s) : s \in DOMAIN active}
             R == {p \in all \X all : Earlier(p[1], p[2])}
             Key(g) == <<g.start, g.speaker>>
             key == [g \in all |-> Key(g)]
             T == (0..n - 1) \X K
  <1>1. DOMAIN active = K
    OBVIOUS
  <1>2. ASSUME NEW k \in K, NEW g PROVE g \in SpeakerSegments(active[k], k) <=> IsTurn(g, active, n, k)
    <2>1. PICK a \in [0..n - 1 -> BOOLEAN] : a = active[k]
      OBVIOUS
    <2>2. SegmentsAreTurns(a, n, k)
      BY SpeakerTurns
    <2> QED
      BY <2>1, <2>2 DEF SegmentsAreTurns, IsTurn, FromRun
  <1>3. ASSUME NEW k \in K, NEW g, IsTurn(g, active, n, k)
        PROVE  g \in Turn /\ g.speaker = k /\ g.start \in 0..n - 1
    <2>1. PICK x \in Nat, y \in Nat : FromRun(g, active, n, k, x, y)
      BY <1>3 DEF IsTurn
    <2>2. k \in Int
      OBVIOUS
    <2>3. TurnSpans(g, n, k, x, y)
      BY <2>1, <2>2, TurnFacts
    <2> QED
      BY <2>3 DEF TurnSpans
  <1>4. ASSUME NEW g \in all
        PROVE  g \in Turn /\ g.speaker \in K /\ g.start \in 0..n - 1 /\ IsTurn(g, active, n, g.speaker)
    <2>1. PICK k \in K : g \in SpeakerSegments(active[k], k)
      BY <1>1
    <2>2. IsTurn(g, active, n, k)
      BY <1>2, <2>1
    <2>3. g \in Turn /\ g.speaker = k /\ g.start \in 0..n - 1
      BY <1>3, <2>2
    <2> QED
      BY <2>2, <2>3
  <1>0. \A k \in K : k \in Int
    OBVIOUS
  <1>5. ASSUME NEW k \in K, NEW g, IsTurn(g, active, n, k) PROVE g \in all
    BY <1>1, <1>2, <1>5
  <1> HIDE DEF all
  <1>6. ASSUME NEW g \in all, NEW h \in all, g.start = h.start, g.speaker = h.speaker PROVE g = h
    <2>1. PICK k \in Int : k = g.speaker
      BY <1>0, <1>4
    <2>2. IsTurn(g, active, n, k) /\ IsTurn(h, active, n, k)
      BY <1>4, <1>6, <2>1
    <2> QED
      BY <1>6, <2>2, TurnsApart
  <1>7. key \in Injection(all, T)
    <2>1. \A g \in all : Key(g) \in T
      BY <1>4
    <2>2. ASSUME NEW g \in all, NEW h \in all, key[g] = key[h] PROVE g = h
      <3>1. g.start = h.start /\ g.speaker = h.speaker
        BY <2>2
      <3> QED
        BY <1>6, <3>1
    <2> HIDE DEF Key, T
    <2>3. key \in [all -> T] /\ DOMAIN key = all
      BY <2>1
    <2> HIDE DEF key
    <2> QED
      BY <2>2, <2>3 DEF Injection, IsInjective
  <1>8. IsFiniteSet(T)
    <2>1. IsFiniteSet(0..n - 1)
      BY FirstNaturals
    <2> QED
      BY <2>1, FS_Product
  <1>9. IsFiniteSet(all)
    <2> HIDE DEF key, T
    <2> QED
      BY <1>7, <1>8, FS_Injection
  <1>10. \A g, h \in all : <<g, h>> \in R <=> Earlier(g, h)
    OBVIOUS
  <1> HIDE DEF R, key, T
  <1>11. Orders(R, all)
    <2>0. \A g \in all : g.start \in Int /\ g.speaker \in Int
      BY <1>4 DEF Turn
    <2>1. \A g \in all : <<g, g>> \notin R
      BY <1>10, <2>0 DEF Earlier
    <2>2. ASSUME NEW g \in all, NEW h \in all, NEW e \in all, Earlier(g, h), Earlier(h, e)
          PROVE  Earlier(g, e)
      BY <2>0, <2>2 DEF Earlier
    <2>3. ASSUME NEW g \in all, NEW h \in all PROVE g = h \/ Earlier(g, h) \/ Earlier(h, g)
      <3>1. CASE g.start = h.start /\ g.speaker = h.speaker
        BY <1>6, <3>1
      <3>2. CASE ~(g.start = h.start /\ g.speaker = h.speaker)
        BY <2>0, <3>2 DEF Earlier
      <3> QED
        BY <3>1, <3>2
    <2> QED
      BY <1>10, <2>1, <2>2, <2>3 DEF Orders
  <1>12. ToSegments(active) = InOrder(R, all)
    <2>1. \A a \in all : Under(R, all, a) = {b \in all : Earlier(b, a)}
      BY <1>10 DEF Under
    <2>2. ToSegments(active) = [i \in 1..Cardinality(all) |->
                                  CHOOSE a \in all : Cardinality({b \in all : Earlier(b, a)}) = i - 1]
      BY DEF ToSegments, all
    <2>3. ASSUME NEW i
          PROVE  (CHOOSE a \in all : Cardinality({b \in all : Earlier(b, a)}) = i - 1)
                   = (CHOOSE a \in all : Cardinality(Under(R, all, a)) = i - 1)
      BY <2>1
    <2> QED
      BY <2>2, <2>3 DEF InOrder
  <1>13. PICK m \in Nat : ListsAll(InOrder(R, all), m, R, all)
    BY <1>9, <1>11, OrderLists
  <1>14. PICK q : q = ToSegments(active)
    OBVIOUS
  <1>15. /\ q = [i \in 1..m |-> q[i]]
         /\ \A i \in 1..m : q[i] \in all
         /\ \A a \in all : \E i \in 1..m : q[i] = a
         /\ \A i, j \in 1..m : i < j => <<q[i], q[j]>> \in R
    BY <1>12, <1>13, <1>14 DEF ListsAll
  <1>16. q \in Seq(Turn) /\ Len(q) = m
    BY <1>4, <1>15
  <1>17. \A i \in 1..m : q[i].speaker \in DOMAIN active /\ IsTurn(q[i], active, n, q[i].speaker)
    BY <1>1, <1>4, <1>15
  <1>18. \A k \in DOMAIN active : \A g : IsTurn(g, active, n, k) => \E i \in 1..m : q[i] = g
    BY <1>1, <1>5, <1>15
  <1>19. ASSUME NEW i \in 1..m, NEW j \in 1..m, i < j
         PROVE  q[i].start <= q[j].start /\ (q[i].speaker = q[j].speaker => q[i].end < q[j].start)
    <2>1. PICK g \in all, h \in all : g = q[i] /\ h = q[j]
      BY <1>15
    <2>2. Earlier(g, h)
      BY <1>10, <1>15, <1>19, <2>1
    <2>3. g.start \in Int /\ h.start \in Int /\ g.speaker \in Int /\ h.speaker \in Int
      BY <1>4 DEF Turn
    <2>4. g.start <= h.start /\ (g.speaker = h.speaker => g.start < h.start)
      BY <2>2, <2>3 DEF Earlier
    <2>5. ASSUME g.speaker = h.speaker PROVE g.end < h.start
      <3>1. PICK k \in Int : k = g.speaker
        BY <2>3
      <3>2. IsTurn(g, active, n, k) /\ IsTurn(h, active, n, k)
        BY <1>4, <2>5, <3>1
      <3> QED
        BY <2>4, <2>5, <3>2, TurnsApart
    <2> QED
      BY <2>1, <2>4, <2>5
  <1>20. Listed(q, m, active, n)
    BY <1>16, <1>17, <1>18, <1>19 DEF Listed
  <1> QED
    BY <1>14, <1>20

-----------------------------------------------------------------------------
(* Merging goes through the list from its start.                           *)
MergeStep(merged, seg, maxGap) ==
  IF merged # <<>> /\ Last(merged).speaker = seg.speaker /\ seg.start - Last(merged).end < maxGap
  THEN [merged EXCEPT ![Len(merged)].end = seg.end]
  ELSE Append(merged, seg)

Merges(it, q, maxGap, A) ==
  it = [s \in A |-> IF s = {} THEN <<>> ELSE MergeStep(it[s \ {Max(s)}], q[Max(s)], maxGap)]

LEMMA MaxTakesOff ==
  ASSUME NEW n \in Nat, NEW s \in SUBSET (1..n + 1), s # {}
  PROVE  Max(s) \in s /\ s \ {Max(s)} \in SUBSET (1..n)
  <1>1. IsFiniteSet(1..n + 1)
    <2>1. 1 \in Int /\ n + 1 \in Int
      OBVIOUS
    <2> QED
      BY <2>1, FS_Interval
  <1>2. IsFiniteSet(s) /\ s \in SUBSET Int
    <2>1. IsFiniteSet(s)
      BY <1>1, FS_Subset
    <2>2. s \in SUBSET Int
      OBVIOUS
    <2> QED
      BY <2>1, <2>2
  <1>3. PICK x : x = Max(s)
    OBVIOUS
  <1>4. x \in s /\ \A y \in s : x >= y
    BY <1>2, <1>3, FiniteMax
  <1>5. \A y \in s : y # x => y \in 1..n
    BY <1>4
  <1>6. s \ {x} \in SUBSET (1..n)
    BY <1>5
  <1> QED
    BY <1>3, <1>4, <1>6

LEMMA MaxOfUpto ==
  ASSUME NEW n \in Nat
  PROVE  Max(1..n + 1) = n + 1 /\ (1..n + 1) \ {n + 1} = 1..n /\ 1..n + 1 # {}
  <1>1. n + 1 \in 1..n + 1 /\ \A y \in 1..n + 1 : n + 1 >= y
    OBVIOUS
  <1>2. \A x \in 1..n + 1 : (\A y \in 1..n + 1 : x >= y) => x = n + 1
    BY <1>1
  <1>3. Max(1..n + 1) = n + 1
    BY <1>1, <1>2 DEF Max
  <1> QED
    BY <1>1, <1>3

LEMMA MergesExist ==
  ASSUME NEW m \in Nat, NEW q, NEW maxGap
  PROVE  \E it : Merges(it, q, maxGap, SUBSET (1..m))
  <1> DEFINE N == {n \in Nat : \E it : Merges(it, q, maxGap, SUBSET (1..n))}
  <1>1. 0 \in N
    <2> DEFINE it == [s \in SUBSET (1..0) |-> <<>>]
    <2>1. \A s \in SUBSET (1..0) : s = {}
      OBVIOUS
    <2>2. it = [s \in SUBSET (1..0) |->
                  IF s = {} THEN <<>> ELSE MergeStep(it[s \ {Max(s)}], q[Max(s)], maxGap)]
      BY <2>1
    <2> HIDE DEF it
    <2>3. Merges(it, q, maxGap, SUBSET (1..0))
      BY <2>2 DEF Merges
    <2> QED
      BY <2>3
  <1>2. ASSUME NEW n \in Nat, n \in N PROVE n + 1 \in N
    <2>1. PICK it : Merges(it, q, maxGap, SUBSET (1..n))
      BY <1>2
    <2> DEFINE A == SUBSET (1..n)
               B == SUBSET (1..n + 1)
               big == [s \in B |-> IF s = {} THEN <<>>
                                   ELSE MergeStep(it[s \ {Max(s)}], q[Max(s)], maxGap)]
    <2>2. A \subseteq B
      OBVIOUS
    <2>3. \A s \in A : it[s] = IF s = {} THEN <<>> ELSE MergeStep(it[s \ {Max(s)}], q[Max(s)], maxGap)
      BY <2>1 DEF Merges
    <2>4. \A s \in B : s # {} => s \ {Max(s)} \in A
      BY MaxTakesOff
    <2> HIDE DEF A, B
    <2>5. \A s \in B : big[s] = IF s = {} THEN <<>> ELSE MergeStep(it[s \ {Max(s)}], q[Max(s)], maxGap)
      OBVIOUS
    <2>6. \A s \in A : big[s] = it[s]
      BY <2>2, <2>3, <2>5
    <2>7. big = [s \in B |-> IF s = {} THEN <<>>
                             ELSE MergeStep(big[s \ {Max(s)}], q[Max(s)], maxGap)]
      <3>1. \A s \in B : s # {} => big[s \ {Max(s)}] = it[s \ {Max(s)}]
        BY <2>4, <2>6
      <3>2. big = [s \in B |-> IF s = {} THEN <<>>
                               ELSE MergeStep(it[s \ {Max(s)}], q[Max(s)], maxGap)]
        OBVIOUS
      <3> HIDE DEF big
      <3> QED
        BY <3>1, <3>2
    <2> HIDE DEF big
    <2>8. Merges(big, q, maxGap, SUBSET (1..n + 1))
      BY <2>7 DEF Merges, B
    <2> QED
      BY <2>8
  <1> HIDE DEF N
  <1>3. m \in N
    BY <1>1, <1>2, NatSetInduction
  <1> QED
    BY <1>3 DEF N

(* What has been merged after each turn of the list.                       *)
MergeRun(it, q, m, maxGap) ==
  /\ it[0] = <<>>
  /\ \A k \in 0..m - 1 : it[k + 1] = MergeStep(it[k], q[k + 1], maxGap)

LEMMA MergingRuns ==
  ASSUME NEW X, NEW q \in Seq(X), NEW m \in Nat, Len(q) = m, NEW maxGap
  PROVE  \E it : MergeRun(it, q, m, maxGap) /\ MergeSegments(q, maxGap) = it[m]
  <1> DEFINE body(t) == [s \in SUBSET (1..m) |->
                           IF s = {} THEN <<>>
                           ELSE IF t[s \ {Max(s)}] # <<>> /\ Last(t[s \ {Max(s)}]).speaker = q[Max(s)].speaker
                                   /\ q[Max(s)].start - Last(t[s \ {Max(s)}]).end < maxGap
                                THEN [t[s \ {Max(s)}] EXCEPT ![Len(t[s \ {Max(s)}])].end = q[Max(s)].end]
                                ELSE Append(t[s \ {Max(s)}], q[Max(s)])]
             it == CHOOSE t : t = body(t)
  <1>1. DOMAIN q = 1..m
    BY LenProperties
  <1>2. MergeSegments(q, maxGap) = it[1..m]
    BY <1>1 DEF MergeSegments, FoldLeft, MapThenFoldSet
  <1>3. PICK t : Merges(t, q, maxGap, SUBSET (1..m))
    BY MergesExist
  <1>4. t = body(t)
    BY <1>3 DEF Merges, MergeStep
  <1>5. it = body(it)
    <2> HIDE DEF body
    <2> QED
      BY <1>4
  <1> HIDE DEF it
  <1>6. it = [s \in SUBSET (1..m) |->
                IF s = {} THEN <<>> ELSE MergeStep(it[s \ {Max(s)}], q[Max(s)], maxGap)]
    BY <1>5 DEF MergeStep
  <1> HIDE DEF body
  <1> DEFINE run == [k \in 0..m |-> it[1..k]]
  <1>7. run[0] = <<>>
    <2>1. 1..0 = {} /\ {} \in SUBSET (1..m) /\ 0 \in 0..m
      OBVIOUS
    <2>2. it[{}] = <<>>
      BY <1>6, <2>1
    <2> QED
      BY <2>1, <2>2
  <1>8. ASSUME NEW k \in 0..m - 1 PROVE run[k + 1] = MergeStep(run[k], q[k + 1], maxGap)
    <2>1. k \in Nat /\ k \in 0..m /\ k + 1 \in 0..m /\ 1..k + 1 \in SUBSET (1..m)
      OBVIOUS
    <2>2. Max(1..k + 1) = k + 1 /\ (1..k + 1) \ {k + 1} = 1..k /\ 1..k + 1 # {}
      BY <2>1, MaxOfUpto
    <2>3. it[1..k + 1] = MergeStep(it[(1..k + 1) \ {Max(1..k + 1)}], q[Max(1..k + 1)], maxGap)
      BY <1>6, <2>1, <2>2
    <2>4. it[1..k + 1] = MergeStep(it[1..k], q[k + 1], maxGap)
      BY <2>2, <2>3
    <2> QED
      BY <2>1, <2>4
  <1>9. run[m] = it[1..m]
    OBVIOUS
  <1> HIDE DEF run
  <1>10. MergeRun(run, q, m, maxGap)
    BY <1>7, <1>8 DEF MergeRun
  <1> QED
    BY <1>2, <1>9, <1>10

-----------------------------------------------------------------------------
(* What k turns have been merged into: every merged turn starts with the   *)
(* first and ends with the last of those it is made of, and between two of *)
(* them there is only a gap short enough to merge.                         *)
FromSegments(m, l, q, k) ==
  \A i \in 1..l :
    /\ m[i].start <= m[i].end
    /\ \E p \in 1..k : m[i].start = q[p].start /\ m[i].speaker = q[p].speaker
    /\ \E p \in 1..k : m[i].end = q[p].end /\ m[i].speaker = q[p].speaker

EndsWith(m, l, q, k) ==
  /\ l = 0 <=> k = 0
  /\ k > 0 => m[l].speaker = q[k].speaker /\ m[l].end = q[k].end /\ m[l].start <= q[k].start

Apart(m, l) ==
  \A i, j \in 1..l : i < j =>
    /\ m[i].start <= m[j].start
    /\ m[i].speaker = m[j].speaker => m[i].end < m[j].start

Inside(m, l, q, k) ==
  \A p \in 1..k : \E i \in 1..l :
    m[i].speaker = q[p].speaker /\ m[i].start <= q[p].start /\ q[p].end <= m[i].end

MadeOf(m, l, q, k, maxGap) ==
  \A i \in 1..l, f \in Nat : m[i].start <= f /\ f < m[i].end =>
    \/ \E p \in 1..k : q[p].speaker = m[i].speaker /\ q[p].start <= f /\ f < q[p].end
    \/ \E p, r \in 1..k :
         /\ q[p].speaker = m[i].speaker /\ q[r].speaker = m[i].speaker
         /\ q[p].end <= f /\ f < q[r].start /\ q[r].start - q[p].end < maxGap

Merged(m, l, q, k, maxGap) ==
  /\ m \in Seq(Turn) /\ Len(m) = l
  /\ FromSegments(m, l, q, k) /\ EndsWith(m, l, q, k) /\ Apart(m, l)
  /\ Inside(m, l, q, k) /\ MadeOf(m, l, q, k, maxGap)

(* The facts about the list of turns on which merging relies.              *)
Spread(q, n) ==
  /\ \A i \in 1..n : q[i] \in Turn /\ q[i].start <= q[i].end
  /\ \A i, j \in 1..n : i < j =>
       /\ q[i].start <= q[j].start
       /\ q[i].speaker = q[j].speaker => q[i].end < q[j].start

(* A turn that is not merged begins a new one.                             *)
LEMMA TurnAdded ==
  ASSUME NEW n \in Nat, NEW q, Spread(q, n), NEW maxGap \in Int, NEW k \in 0..n - 1,
         NEW m, NEW l \in Nat, Merged(m, l, q, k, maxGap)
  PROVE  Merged(Append(m, q[k + 1]), l + 1, q, k + 1, maxGap)
  <1>1. PICK seg \in Turn : seg = q[k + 1] /\ seg.start <= seg.end
    BY DEF Spread
  <1>2. PICK e : e = Append(m, seg)
    OBVIOUS
  <1>3. m \in Seq(Turn) /\ Len(m) = l
    BY DEF Merged
  <1>4. e \in Seq(Turn) /\ Len(e) = l + 1 /\ e[l + 1] = seg /\ \A i \in 1..l : e[i] = m[i]
    BY <1>2, <1>3, AppendFacts
  <1>5. \A i \in 1..l + 1 : i \in 1..l \/ i = l + 1
    OBVIOUS
  <1>6. k \in Nat /\ k + 1 \in 1..k + 1 /\ \A p \in 1..k : p \in 1..k + 1 /\ p \in 1..n /\ p < k + 1
    OBVIOUS
  <1>7. k + 1 \in 1..n /\ \A p \in 1..k + 1 : p \in 1..k \/ p = k + 1
    OBVIOUS
  <1>8. \A i \in 1..l : e[i] \in Turn /\ m[i] \in Turn
    BY <1>3, <1>4
  <1>9. FromSegments(e, l + 1, q, k + 1)
    <2> SUFFICES ASSUME NEW i \in 1..l + 1
                 PROVE  /\ e[i].start <= e[i].end
                        /\ \E p \in 1..k + 1 : e[i].start = q[p].start /\ e[i].speaker = q[p].speaker
                        /\ \E p \in 1..k + 1 : e[i].end = q[p].end /\ e[i].speaker = q[p].speaker
      BY DEF FromSegments
    <2>1. CASE i \in 1..l
      <3>1. /\ m[i].start <= m[i].end
            /\ \E p \in 1..k : m[i].start = q[p].start /\ m[i].speaker = q[p].speaker
            /\ \E p \in 1..k : m[i].end = q[p].end /\ m[i].speaker = q[p].speaker
        BY <2>1 DEF Merged, FromSegments
      <3> QED
        BY <1>4, <1>6, <2>1, <3>1
    <2>2. CASE i = l + 1
      BY <1>1, <1>4, <1>6, <2>2
    <2> QED
      BY <1>5, <2>1, <2>2
  <1>10. EndsWith(e, l + 1, q, k + 1)
    <2>1. e[l + 1].speaker = q[k + 1].speaker /\ e[l + 1].end = q[k + 1].end
          /\ e[l + 1].start <= q[k + 1].start
      BY <1>1, <1>4 DEF Turn
    <2>2. l + 1 # 0 /\ k + 1 # 0
      BY <1>6
    <2> QED
      BY <2>1, <2>2 DEF EndsWith
  <1>11. Apart(e, l + 1)
    <2> SUFFICES ASSUME NEW i \in 1..l + 1, NEW j \in 1..l + 1, i < j
                 PROVE  /\ e[i].start <= e[j].start
                        /\ e[i].speaker = e[j].speaker => e[i].end < e[j].start
      BY DEF Apart
    <2>1. i \in 1..l
      OBVIOUS
    <2>2. CASE j \in 1..l
      <3>1. /\ m[i].start <= m[j].start
            /\ m[i].speaker = m[j].speaker => m[i].end < m[j].start
        BY <2>1, <2>2 DEF Merged, Apart
      <3> QED
        BY <1>4, <2>1, <2>2, <3>1
    <2>3. CASE j = l + 1
      <3>1. PICK p \in 1..k : m[i].start = q[p].start /\ m[i].speaker = q[p].speaker
        BY <2>1 DEF Merged, FromSegments
      <3>2. PICK r \in 1..k : m[i].end = q[r].end /\ m[i].speaker = q[r].speaker
        BY <2>1 DEF Merged, FromSegments
      <3>3. q[p].start <= q[k + 1].start
        BY <1>6, <1>7 DEF Spread
      <3>4. q[r].speaker = q[k + 1].speaker => q[r].end < q[k + 1].start
        BY <1>6, <1>7 DEF Spread
      <3> QED
        BY <1>1, <1>4, <2>1, <2>3, <3>1, <3>2, <3>3, <3>4
    <2> QED
      BY <1>5, <2>2, <2>3
  <1>12. Inside(e, l + 1, q, k + 1)
    <2> SUFFICES ASSUME NEW p \in 1..k + 1
                 PROVE  \E i \in 1..l + 1 :
                          e[i].speaker = q[p].speaker /\ e[i].start <= q[p].start /\ q[p].end <= e[i].end
      BY DEF Inside
    <2>1. CASE p \in 1..k
      <3>1. PICK i \in 1..l :
              m[i].speaker = q[p].speaker /\ m[i].start <= q[p].start /\ q[p].end <= m[i].end
        BY <2>1 DEF Merged, Inside
      <3>2. i \in 1..l + 1 /\ e[i] = m[i]
        BY <1>4
      <3> QED
        BY <3>1, <3>2
    <2>2. CASE p = k + 1
      <3>1. l + 1 \in 1..l + 1 /\ e[l + 1] = q[p]
        BY <1>1, <1>4, <2>2
      <3>2. q[p].start <= q[p].start /\ q[p].end <= q[p].end
        BY <1>1, <2>2 DEF Turn
      <3> QED
        BY <3>1, <3>2
    <2> QED
      BY <1>7, <2>1, <2>2
  <1>13. MadeOf(e, l + 1, q, k + 1, maxGap)
    <2> SUFFICES ASSUME NEW i \in 1..l + 1, NEW f \in Nat, e[i].start <= f, f < e[i].end
                 PROVE  \/ \E p \in 1..k + 1 :
                             q[p].speaker = e[i].speaker /\ q[p].start <= f /\ f < q[p].end
                        \/ \E p, r \in 1..k + 1 :
                             /\ q[p].speaker = e[i].speaker /\ q[r].speaker = e[i].speaker
                             /\ q[p].end <= f /\ f < q[r].start /\ q[r].start - q[p].end < maxGap
      BY DEF MadeOf
    <2>1. CASE i \in 1..l
      <3>1. \/ \E p \in 1..k : q[p].speaker = m[i].speaker /\ q[p].start <= f /\ f < q[p].end
            \/ \E p, r \in 1..k :
                 /\ q[p].speaker = m[i].speaker /\ q[r].speaker = m[i].speaker
                 /\ q[p].end <= f /\ f < q[r].start /\ q[r].start - q[p].end < maxGap
        BY <1>4, <2>1 DEF Merged, MadeOf
      <3>2. e[i] = m[i]
        BY <1>4, <2>1
      <3> QED
        BY <1>6, <3>1, <3>2
    <2>2. CASE i = l + 1
      BY <1>1, <1>4, <1>6, <2>2
    <2> QED
      BY <1>5, <2>1, <2>2
  <1>14. Merged(e, l + 1, q, k + 1, maxGap)
    BY <1>4, <1>9, <1>10, <1>11, <1>12, <1>13 DEF Merged
  <1> QED
    BY <1>1, <1>2, <1>14

(* A turn that is merged moves the end of the last one.                    *)
LEMMA TurnExtended ==
  ASSUME NEW n \in Nat, NEW q, Spread(q, n), NEW maxGap \in Int, NEW k \in 0..n - 1,
         NEW m, NEW l \in Nat, Merged(m, l, q, k, maxGap), l > 0,
         m[l].speaker = q[k + 1].speaker, q[k + 1].start - m[l].end < maxGap
  PROVE  Merged([m EXCEPT ![l].end = q[k + 1].end], l, q, k + 1, maxGap)
  <1>1. PICK seg \in Turn : seg = q[k + 1] /\ seg.start <= seg.end
    BY DEF Spread
  <1>2. PICK e : e = [m EXCEPT ![l].end = seg.end]
    OBVIOUS
  <1>3. m \in Seq(Turn) /\ Len(m) = l /\ l \in 1..l
    BY DEF Merged
  <1>4. PICK last \in Turn : last = m[l]
    BY <1>3
  <1>5. /\ e \in Seq(Turn) /\ Len(e) = l
        /\ e[l] = [last EXCEPT !.end = seg.end]
        /\ \A i \in 1..l - 1 : e[i] = m[i]
    <2>1. DOMAIN m = 1..l /\ m \in [1..l -> Turn]
      BY <1>3
    <2>2. [last EXCEPT !.end = seg.end] \in Turn
      BY <1>1, <1>4 DEF Turn
    <2>3. e = [m EXCEPT ![l] = [last EXCEPT !.end = seg.end]]
      BY <1>2, <1>4
    <2>4. e \in [1..l -> Turn]
      BY <2>1, <2>2, <2>3
    <2>5. e \in Seq(Turn) /\ Len(e) = l
      BY <2>4
    <2>6. e[l] = [last EXCEPT !.end = seg.end] /\ \A i \in 1..l - 1 : e[i] = m[i]
      BY <1>3, <2>1, <2>3
    <2> QED
      BY <2>5, <2>6
  <1>6. e[l].start = last.start /\ e[l].speaker = last.speaker /\ e[l].end = seg.end
    BY <1>1, <1>4, <1>5 DEF Turn
  <1>7. \A i \in 1..l : i \in 1..l - 1 \/ i = l
    OBVIOUS
  <1>8. \A i \in 1..l - 1 : i \in 1..l
    OBVIOUS
  <1>9. k > 0 /\ k \in 1..k /\ k \in 1..n
    BY DEF Merged, EndsWith
  <1>10. k + 1 \in 1..k + 1 /\ k + 1 \in 1..n /\ \A p \in 1..k : p \in 1..k + 1
    OBVIOUS
  <1>11. \A p \in 1..k + 1 : p \in 1..k \/ p = k + 1
    OBVIOUS
  <1>12. last.speaker = q[k].speaker /\ last.end = q[k].end /\ last.start <= q[k].start
    BY <1>4, <1>9 DEF Merged, EndsWith
  <1>13. q[k].start <= seg.start /\ last.end < seg.start /\ seg.speaker = last.speaker
    <2>1. k < k + 1
      OBVIOUS
    <2>2. q[k].start <= q[k + 1].start /\ (q[k].speaker = q[k + 1].speaker => q[k].end < q[k + 1].start)
      BY <1>9, <1>10, <2>1 DEF Spread
    <2> QED
      BY <1>1, <1>4, <1>12, <2>2
  <1>14. last.start \in Int /\ last.end \in Int /\ seg.start \in Int /\ seg.end \in Int /\ q[k].start \in Int
    BY <1>1, <1>4, <1>9 DEF Turn, Spread
  <1>15. last.start <= seg.start /\ last.start <= seg.end /\ last.end < seg.end
    BY <1>1, <1>12, <1>13, <1>14
  <1>16. FromSegments(e, l, q, k + 1)
    <2> SUFFICES ASSUME NEW i \in 1..l
                 PROVE  /\ e[i].start <= e[i].end
                        /\ \E p \in 1..k + 1 : e[i].start = q[p].start /\ e[i].speaker = q[p].speaker
                        /\ \E p \in 1..k + 1 : e[i].end = q[p].end /\ e[i].speaker = q[p].speaker
      BY DEF FromSegments
    <2>1. /\ m[i].start <= m[i].end
          /\ \E p \in 1..k : m[i].start = q[p].start /\ m[i].speaker = q[p].speaker
          /\ \E p \in 1..k : m[i].end = q[p].end /\ m[i].speaker = q[p].speaker
      BY DEF Merged, FromSegments
    <2>2. CASE i \in 1..l - 1
      BY <1>5, <1>10, <2>1, <2>2
    <2>3. CASE i = l
      <3>1. e[i].start <= e[i].end
        BY <1>6, <1>15, <2>3
      <3>2. \E p \in 1..k + 1 : e[i].start = q[p].start /\ e[i].speaker = q[p].speaker
        BY <1>4, <1>6, <1>10, <2>1, <2>3
      <3>3. e[i].end = q[k + 1].end /\ e[i].speaker = q[k + 1].speaker
        BY <1>1, <1>6, <1>13, <2>3
      <3> QED
        BY <1>10, <3>1, <3>2, <3>3
    <2> QED
      BY <1>7, <2>2, <2>3
  <1>17. EndsWith(e, l, q, k + 1)
    <2>1. e[l].speaker = q[k + 1].speaker /\ e[l].end = q[k + 1].end /\ e[l].start <= q[k + 1].start
      BY <1>1, <1>6, <1>13, <1>15
    <2> QED
      BY <2>1 DEF EndsWith
  <1>18. Apart(e, l)
    <2> SUFFICES ASSUME NEW i \in 1..l, NEW j \in 1..l, i < j
                 PROVE  /\ e[i].start <= e[j].start
                        /\ e[i].speaker = e[j].speaker => e[i].end < e[j].start
      BY DEF Apart
    <2>1. i \in 1..l - 1
      OBVIOUS
    <2>2. /\ m[i].start <= m[j].start
          /\ m[i].speaker = m[j].speaker => m[i].end < m[j].start
      BY DEF Merged, Apart
    <2>3. e[j].start = m[j].start /\ e[j].speaker = m[j].speaker
      BY <1>4, <1>5, <1>6, <1>7
    <2> QED
      BY <1>5, <2>1, <2>2, <2>3
  <1>19. Inside(e, l, q, k + 1)
    <2> SUFFICES ASSUME NEW p \in 1..k + 1
                 PROVE  \E i \in 1..l :
                          e[i].speaker = q[p].speaker /\ e[i].start <= q[p].start /\ q[p].end <= e[i].end
      BY DEF Inside
    <2>1. CASE p \in 1..k
      <3>1. PICK i \in 1..l :
              m[i].speaker = q[p].speaker /\ m[i].start <= q[p].start /\ q[p].end <= m[i].end
        BY <2>1 DEF Merged, Inside
      <3>2. CASE i \in 1..l - 1
        BY <1>5, <3>1, <3>2
      <3>3. CASE i = l
        <4>1. q[p].end \in Int
          BY <2>1 DEF Turn, Spread
        <4>2. q[p].end <= e[l].end
          BY <1>4, <1>6, <1>14, <1>15, <3>1, <3>3, <4>1
        <4> QED
          BY <1>4, <1>6, <3>1, <3>3, <4>2
      <3> QED
        BY <1>7, <3>2, <3>3
    <2>2. CASE p = k + 1
      <3>1. e[l].speaker = q[p].speaker /\ e[l].start <= q[p].start /\ q[p].end <= e[l].end
        BY <1>1, <1>6, <1>13, <1>14, <1>15, <2>2
      <3> QED
        BY <1>3, <3>1
    <2> QED
      BY <1>11, <2>1, <2>2
  <1>20. MadeOf(e, l, q, k + 1, maxGap)
    <2> SUFFICES ASSUME NEW i \in 1..l, NEW f \in Nat, e[i].start <= f, f < e[i].end
                 PROVE  \/ \E p \in 1..k + 1 :
                             q[p].speaker = e[i].speaker /\ q[p].start <= f /\ f < q[p].end
                        \/ \E p, r \in 1..k + 1 :
                             /\ q[p].speaker = e[i].speaker /\ q[r].speaker = e[i].speaker
                             /\ q[p].end <= f /\ f < q[r].start /\ q[r].start - q[p].end < maxGap
      BY DEF MadeOf
    <2>1. ASSUME m[i].start <= f, f < m[i].end
          PROVE  \/ \E p \in 1..k : q[p].speaker = m[i].speaker /\ q[p].start <= f /\ f < q[p].end
                 \/ \E p, r \in 1..k :
                      /\ q[p].speaker = m[i].speaker /\ q[r].speaker = m[i].speaker
                      /\ q[p].end <= f /\ f < q[r].start /\ q[r].start - q[p].end < maxGap
      BY <2>1 DEF Merged, MadeOf
    <2>2. CASE i \in 1..l - 1
      <3>1. e[i] = m[i]
        BY <1>5, <2>2
      <3> QED
        BY <1>10, <2>1, <3>1
    <2>3. CASE i = l /\ f < last.end
      <3>1. m[i].start <= f /\ f < m[i].end /\ e[i].speaker = m[i].speaker
        BY <1>4, <1>6, <2>3
      <3> QED
        BY <1>10, <2>1, <3>1
    <2>4. CASE i = l /\ last.end <= f /\ f < seg.start
      <3>1. /\ q[k].speaker = e[i].speaker /\ q[k + 1].speaker = e[i].speaker
            /\ q[k].end <= f /\ f < q[k + 1].start /\ q[k + 1].start - q[k].end < maxGap
        BY <1>1, <1>4, <1>6, <1>12, <1>13, <2>4
      <3> QED
        BY <1>9, <1>10, <3>1
    <2>5. CASE i = l /\ seg.start <= f
      <3>1. q[k + 1].speaker = e[i].speaker /\ q[k + 1].start <= f /\ f < q[k + 1].end
        BY <1>1, <1>6, <1>13, <2>5
      <3> QED
        BY <1>10, <3>1
    <2> QED
      BY <1>7, <1>14, <2>2, <2>3, <2>4, <2>5
  <1>21. Merged(e, l, q, k + 1, maxGap)
    BY <1>5, <1>16, <1>17, <1>18, <1>19, <1>20 DEF Merged
  <1> QED
    BY <1>1, <1>2, <1>21

LEMMA MergingMerges ==
  ASSUME NEW n \in Nat, NEW q, Spread(q, n), NEW maxGap \in Int,
         NEW it, MergeRun(it, q, n, maxGap)
  PROVE  \E l \in Nat : Merged(it[n], l, q, n, maxGap)
  <1> DEFINE N == {k \in Nat : k <= n => \E l \in Nat : Merged(it[k], l, q, k, maxGap)}
  <1>1. 0 \in N
    <2>1. PICK m : m = it[0]
      OBVIOUS
    <2>2. m \in Seq(Turn) /\ Len(m) = 0
      BY <2>1, EmptyFacts DEF MergeRun
    <2>3. Merged(m, 0, q, 0, maxGap)
      BY <2>2 DEF Merged, FromSegments, EndsWith, Apart, Inside, MadeOf
    <2> QED
      BY <2>1, <2>3
  <1>2. ASSUME NEW k \in Nat, k \in N PROVE k + 1 \in N
    <2> SUFFICES ASSUME k + 1 <= n PROVE \E l \in Nat : Merged(it[k + 1], l, q, k + 1, maxGap)
      OBVIOUS
    <2>1. k \in 0..n - 1
      OBVIOUS
    <2>2. PICK m, seg : m = it[k] /\ seg = q[k + 1]
      OBVIOUS
    <2>3. PICK l \in Nat : Merged(m, l, q, k, maxGap)
      BY <1>2, <2>2
    <2>4. it[k + 1] = MergeStep(m, seg, maxGap)
      BY <2>1, <2>2 DEF MergeRun
    <2>5. m \in Seq(Turn) /\ Len(m) = l
      BY <2>3 DEF Merged
    <2>6. CASE m # <<>> /\ Last(m).speaker = seg.speaker /\ seg.start - Last(m).end < maxGap
      <3>1. l > 0 /\ Last(m) = m[l]
        BY <2>5, <2>6 DEF Last
      <3>2. it[k + 1] = [m EXCEPT ![l].end = seg.end]
        BY <2>4, <2>5, <2>6 DEF MergeStep
      <3>3. Merged([m EXCEPT ![l].end = q[k + 1].end], l, q, k + 1, maxGap)
        BY <2>1, <2>2, <2>3, <2>6, <3>1, TurnExtended
      <3> QED
        BY <2>2, <3>2, <3>3
    <2>7. CASE ~(m # <<>> /\ Last(m).speaker = seg.speaker /\ seg.start - Last(m).end < maxGap)
      <3>1. it[k + 1] = Append(m, seg)
        BY <2>4, <2>7 DEF MergeStep
      <3>2. Merged(Append(m, q[k + 1]), l + 1, q, k + 1, maxGap)
        BY <2>1, <2>3, TurnAdded
      <3>3. l + 1 \in Nat
        OBVIOUS
      <3> QED
        BY <2>2, <3>1, <3>2, <3>3
    <2> QED
      BY <2>6, <2>7
  <1> HIDE DEF N
  <1>3. n \in N
    BY <1>1, <1>2, NatSetInduction
  <1> QED
    BY <1>3 DEF N

-----------------------------------------------------------------------------
TurnsWithin(q, c, n) == \A i \in 1..c : q[i] \in Turn /\ q[i].end <= n - 1

CoveredIn(m, l, k, f, last) == \E i \in 1..l : m[i].speaker = k /\ Covers(m[i], f, last)

(* An active frame lies in the turn of its region.                         *)
LEMMA ActiveCovered ==
  ASSUME NEW n \in Nat, NEW active, NEW q, NEW c \in Nat, Listed(q, c, active, n),
         NEW maxGap, NEW m, NEW l \in Nat, Merged(m, l, q, c, maxGap),
         TurnsWithin(q, c, n),
         NEW k \in DOMAIN active, k \in Int, active[k] \in [0..n - 1 -> BOOLEAN],
         NEW f \in 0..n - 1, active[k][f]
  PROVE  CoveredIn(m, l, k, f, n - 1)
  <1>1. InRun(active[k], TRUE, n, f)
    BY RunAround
  <1>2. PICK x \in Nat, y \in Nat : IsRun(active[k], TRUE, n, x, y) /\ f \in x..y - 1
    BY <1>1 DEF InRun
  <1>3. PICK g : g = TurnOf(x, y, n, k)
    OBVIOUS
  <1>4. FromRun(g, active, n, k, x, y)
    BY <1>2, <1>3 DEF FromRun
  <1>5. TurnSpans(g, n, k, x, y)
    BY <1>4, TurnFacts
  <1>6. PICK p \in 1..c : q[p] = g
    BY <1>4 DEF IsTurn, Listed
  <1>7. PICK i \in 1..l : m[i].speaker = g.speaker /\ m[i].start <= g.start /\ g.end <= m[i].end
    BY <1>6 DEF Merged, Inside
  <1>8. PICK r \in 1..c : m[i].end = q[r].end
    BY DEF Merged, FromSegments
  <1>9. m[i] \in Turn /\ m[i].end <= n - 1
    BY <1>8 DEF Merged, TurnsWithin
  <1>10. g.start <= f /\ (f < g.end \/ (f = n - 1 /\ g.end = n - 1))
    BY <1>2, <1>5 DEF TurnSpans, Turn
  <1>11. Covers(m[i], f, n - 1)
    <2>1. m[i].start \in Int /\ m[i].end \in Int /\ g.start \in Int /\ g.end \in Int
      BY <1>5, <1>9 DEF TurnSpans, Turn
    <2> QED
      BY <1>7, <1>9, <1>10, <2>1 DEF Covers
  <1> QED
    BY <1>5, <1>7, <1>11 DEF TurnSpans, CoveredIn

(* A frame between two turns of a speaker that is not active lies in a gap *)
(* that is no longer than the distance between them.                       *)
LEMMA GapBetween ==
  ASSUME NEW n \in Nat, NEW active, NEW k \in Int, active[k] \in [0..n - 1 -> BOOLEAN],
         NEW f \in 0..n - 1, ~active[k][f],
         NEW g, IsTurn(g, active, n, k), NEW h, IsTurn(h, active, n, k),
         g.end <= f, f < h.start, NEW maxGap \in Int, h.start - g.end < maxGap
  PROVE  \E r \in FindRuns(active[k], FALSE) : f \in Frames(r) /\ r[2] - r[1] < maxGap
  <1>1. PICK x \in Nat, y \in Nat : FromRun(g, active, n, k, x, y)
    BY DEF IsTurn
  <1>2. PICK p \in Nat, q \in Nat : FromRun(h, active, n, k, p, q)
    BY DEF IsTurn
  <1>3. g.end \in Nat /\ (g.end < n - 1 => g.end = y)
    <2>1. TurnSpans(g, n, k, x, y)
      BY <1>1, TurnFacts
    <2> QED
      BY <2>1 DEF TurnSpans, Turn
  <1>4. h.start = p
    <2>1. TurnSpans(h, n, k, p, q)
      BY <1>2, TurnFacts
    <2> QED
      BY <2>1 DEF TurnSpans
  <1>5. /\ x < y /\ \A e \in x..y - 1 : active[k][e] = TRUE
        /\ p \in 0..n - 1 /\ p < q /\ \A e \in p..q - 1 : active[k][e] = TRUE
    BY <1>1, <1>2 DEF FromRun, IsRun
  <1>6. y <= f /\ f < p /\ p - y < maxGap
    BY <1>3, <1>4, <1>5
  <1>7. active[k][f] = FALSE
    OBVIOUS
  <1>8. InRun(active[k], FALSE, n, f)
    BY <1>7, RunAround
  <1>9. PICK a \in Nat, b \in Nat : IsRun(active[k], FALSE, n, a, b) /\ f \in a..b - 1
    BY <1>8 DEF InRun
  <1>10. \A e \in a..b - 1 : active[k][e] = FALSE
    BY <1>9 DEF IsRun
  <1>11. y <= a
    <2> SUFFICES ASSUME a < y PROVE FALSE
      OBVIOUS
    <2>1. y - 1 \in a..b - 1 /\ y - 1 \in x..y - 1
      BY <1>5, <1>6, <1>9
    <2>2. active[k][y - 1] = FALSE /\ active[k][y - 1] = TRUE
      BY <1>5, <1>10, <2>1
    <2> QED
      BY <2>2
  <1>12. b <= p
    <2> SUFFICES ASSUME p < b PROVE FALSE
      OBVIOUS
    <2>1. p \in a..b - 1 /\ p \in p..q - 1
      BY <1>5, <1>6, <1>9
    <2>2. active[k][p] = FALSE /\ active[k][p] = TRUE
      BY <1>5, <1>10, <2>1
    <2> QED
      BY <2>2
  <1>13. b - a < maxGap
    BY <1>6, <1>11, <1>12
  <1>14. PICK r : r = <<a, b>>
    OBVIOUS
  <1>15. r[1] = a /\ r[2] = b
    BY <1>14
  <1>16. r \in FindRuns(active[k], FALSE)
    BY <1>9, <1>14, PairIsRun
  <1>17. f \in Frames(r) /\ r[2] - r[1] < maxGap
    BY <1>9, <1>13, <1>15 DEF Frames
  <1> QED
    BY <1>16, <1>17

(* For every activity of finitely many speakers over n frames, the merged  *)
(* list of their segments (segment.rs) is ordered by start, the turns of   *)
(* one speaker are disjoint, every active frame is in a turn of its        *)
(* speaker, and a turn has an inactive frame only inside a gap shorter     *)
(* than the one that may be merged, the last frame excepted.               *)
THEOREM TurnsFollowActivity ==
  ASSUME NEW n \in Nat, NEW K \in SUBSET Int, IsFiniteSet(K),
         NEW active \in [K -> [0..n - 1 -> BOOLEAN]], NEW maxGap \in Int
  PROVE  TurnsAre(MergeSegments(ToSegments(active), maxGap), active, n - 1, maxGap)
  <1>1. PICK q : q = ToSegments(active)
    OBVIOUS
  <1>2. PICK c \in Nat : Listed(q, c, active, n)
    BY <1>1, TurnsListed
  <1>3. PICK m : m = MergeSegments(q, maxGap)
    OBVIOUS
  <1>4. q \in Seq(Turn) /\ Len(q) = c /\ DOMAIN active = K
    BY <1>2 DEF Listed
  <1>5. ASSUME NEW i \in 1..c
        PROVE  /\ q[i] \in Turn /\ q[i].start <= q[i].end /\ q[i].end <= n - 1
               /\ q[i].speaker \in K /\ IsTurn(q[i], active, n, q[i].speaker)
    <2>1. PICK k \in K : k = q[i].speaker /\ IsTurn(q[i], active, n, k)
      BY <1>2, <1>4 DEF Listed
    <2>2. PICK x \in Nat, y \in Nat : FromRun(q[i], active, n, k, x, y)
      BY <2>1 DEF IsTurn
    <2>3. k \in Int
      OBVIOUS
    <2>4. TurnSpans(q[i], n, k, x, y)
      BY <2>2, <2>3, TurnFacts
    <2> QED
      BY <2>1, <2>4 DEF TurnSpans
  <1>6. Spread(q, c)
    BY <1>2, <1>5 DEF Spread, Listed
  <1>7. PICK it : MergeRun(it, q, c, maxGap) /\ m = it[c]
    BY <1>3, <1>4, MergingRuns
  <1>8. PICK l \in Nat : Merged(m, l, q, c, maxGap)
    BY <1>6, <1>7, MergingMerges
  <1>9. m \in Seq(Turn) /\ DOMAIN m = 1..l
    BY <1>8, LenProperties DEF Merged
  <1>10. \A i \in DOMAIN m : m[i].start <= m[i].end
    BY <1>8, <1>9 DEF Merged, FromSegments
  <1>11. \A i, j \in DOMAIN m : i < j =>
           /\ m[i].start <= m[j].start
           /\ m[i].speaker = m[j].speaker => m[i].end < m[j].start
    BY <1>8, <1>9 DEF Merged, Apart
  <1>12. ASSUME NEW k \in K, NEW f \in 0..n - 1
         PROVE  /\ active[k][f] => \E i \in DOMAIN m : m[i].speaker = k /\ Covers(m[i], f, n - 1)
                /\ ~active[k][f] /\ (\E i \in DOMAIN m : m[i].speaker = k /\ Covers(m[i], f, n - 1)) =>
                     f = n - 1 \/ \E r \in FindRuns(active[k], FALSE) :
                                    f \in Frames(r) /\ r[2] - r[1] < maxGap
    <2>1. k \in Int /\ active[k] \in [0..n - 1 -> BOOLEAN] /\ k \in DOMAIN active
      OBVIOUS
    <2>2. TurnsWithin(q, c, n)
      BY <1>5 DEF TurnsWithin
    <2>3. ASSUME active[k][f] PROVE \E i \in DOMAIN m : m[i].speaker = k /\ Covers(m[i], f, n - 1)
      <3>1. CoveredIn(m, l, k, f, n - 1)
        BY <1>2, <1>8, <2>1, <2>2, <2>3, ActiveCovered
      <3> QED
        BY <1>9, <3>1 DEF CoveredIn
    <2>4. ASSUME ~active[k][f], NEW i \in 1..l, m[i].speaker = k, Covers(m[i], f, n - 1), f # n - 1
          PROVE  \E r \in FindRuns(active[k], FALSE) : f \in Frames(r) /\ r[2] - r[1] < maxGap
      <3>1. f \in Nat /\ m[i].start <= f /\ f < m[i].end
        BY <2>4 DEF Covers
      <3>2. \/ \E p \in 1..c : q[p].speaker = k /\ q[p].start <= f /\ f < q[p].end
            \/ \E p, r \in 1..c :
                 /\ q[p].speaker = k /\ q[r].speaker = k
                 /\ q[p].end <= f /\ f < q[r].start /\ q[r].start - q[p].end < maxGap
        BY <1>8, <2>4, <3>1 DEF Merged, MadeOf
      <3>3. ASSUME NEW p \in 1..c, q[p].speaker = k, q[p].start <= f, f < q[p].end PROVE FALSE
        <4>1. IsTurn(q[p], active, n, k)
          BY <1>5, <3>3
        <4>2. PICK x \in Nat, y \in Nat : FromRun(q[p], active, n, k, x, y)
          BY <4>1 DEF IsTurn
        <4>3. TurnSpans(q[p], n, k, x, y)
          BY <2>1, <4>2, TurnFacts
        <4>4. f \in x..y - 1
          BY <3>3, <4>3 DEF TurnSpans, Turn
        <4>5. active[k][f] = TRUE
          BY <4>2, <4>4 DEF FromRun, IsRun
        <4> QED
          BY <2>4, <4>5
      <3>4. PICK p \in 1..c, r \in 1..c :
              /\ q[p].speaker = k /\ q[r].speaker = k
              /\ q[p].end <= f /\ f < q[r].start /\ q[r].start - q[p].end < maxGap
        BY <3>2, <3>3
      <3>5. IsTurn(q[p], active, n, k) /\ IsTurn(q[r], active, n, k)
        BY <1>5, <3>4
      <3> QED
        BY <2>1, <2>4, <3>4, <3>5, GapBetween
    <2> QED
      BY <1>9, <2>3, <2>4
  <1>13. ASSUME NEW k \in DOMAIN active, NEW f \in DOMAIN active[k]
         PROVE  LET covered == \E i \in DOMAIN m : m[i].speaker = k /\ Covers(m[i], f, n - 1)
                    gap == {r \in FindRuns(active[k], FALSE) : f \in Frames(r)}
                IN  /\ active[k][f] => covered
                    /\ ~active[k][f] /\ covered => f = n - 1 \/ \E r \in gap : r[2] - r[1] < maxGap
    <2>1. k \in K /\ f \in 0..n - 1
      OBVIOUS
    <2> DEFINE covered == \E i \in DOMAIN m : m[i].speaker = k /\ Covers(m[i], f, n - 1)
    <2>2. /\ active[k][f] => covered
          /\ ~active[k][f] /\ covered => f = n - 1 \/ \E r \in FindRuns(active[k], FALSE) :
                                                        f \in Frames(r) /\ r[2] - r[1] < maxGap
      BY <1>12, <2>1
    <2> HIDE DEF covered
    <2>3. /\ active[k][f] => covered
          /\ ~active[k][f] /\ covered => f = n - 1 \/ \E r \in {e \in FindRuns(active[k], FALSE) : f \in Frames(e)} :
                                                        r[2] - r[1] < maxGap
      BY <2>2
    <2> QED
      BY <2>3 DEF covered
  <1>14. TurnsAre(m, active, n - 1, maxGap)
    BY <1>10, <1>11, <1>13, Zenon DEF TurnsAre
  <1> QED
    BY <1>1, <1>3, <1>14

(* A number has one quotient and one remainder.                            *)
LEMMA DivModUnique ==
  ASSUME NEW n \in Nat \ {0}, NEW a \in Nat, NEW b \in 0..n - 1, NEW x, x = a * n + b
  PROVE  x \in Nat /\ x \div n = a /\ x % n = b
  <1>1. PICK y \in Nat : y = a * n
    OBVIOUS
  <1>2. x \in Nat /\ x = y + b
    BY <1>1
  <1>3. PICK d \in Nat : d = x \div n
    BY <1>2, DivBounds
  <1>4. PICK z \in Nat : z = d * n
    OBVIOUS
  <1>5. z <= x /\ x < z + n
    BY <1>2, <1>3, <1>4, DivBounds
  <1>6. ~(d < a)
    <2>1. SUFFICES ASSUME d < a PROVE FALSE
      OBVIOUS
    <2>2. (d + 1) * n <= a * n
      BY <2>1, TimesMonotone
    <2>3. (d + 1) * n = z + n
      BY <1>4, Distribute
    <2> QED
      BY <1>1, <1>2, <1>5, <2>2, <2>3
  <1>7. ~(a < d)
    <2>1. SUFFICES ASSUME a < d PROVE FALSE
      OBVIOUS
    <2>2. (a + 1) * n <= d * n
      BY <2>1, TimesMonotone
    <2>3. (a + 1) * n = y + n
      BY <1>1, Distribute
    <2> QED
      BY <1>2, <1>4, <1>5, <2>2, <2>3
  <1>8. d = a
    BY <1>6, <1>7
  <1>9. x % n = x - n * (x \div n)
    BY <1>2, Remainder
  <1>10. n * (x \div n) = y
    BY <1>1, <1>3, <1>8
  <1> QED
    BY <1>2, <1>3, <1>8, <1>9, <1>10

(* The members of a sequence of one more.                                  *)
LEMMA RangeAppends ==
  ASSUME NEW X, NEW s \in Seq(X), NEW x \in X
  PROVE  Append(s, x) \in Seq(X) /\ Range(Append(s, x)) = Range(s) \cup {x}
  <1>1. PICK l \in Nat : l = Len(s)
    BY LenProperties
  <1>2. PICK t : t = Append(s, x)
    OBVIOUS
  <1>3. t \in Seq(X) /\ Len(t) = l + 1 /\ (\A i \in 1..l : t[i] = s[i]) /\ t[l + 1] = x
    BY <1>1, <1>2, AppendFacts
  <1>4. DOMAIN t = 1..l + 1 /\ DOMAIN s = 1..l
    BY <1>1, <1>3, LenProperties
  <1>5. \A i \in 1..l + 1 : i \in 1..l \/ i = l + 1
    OBVIOUS
  <1>6. \A i \in 1..l : i \in 1..l + 1
    OBVIOUS
  <1>7. l + 1 \in 1..l + 1
    OBVIOUS
  <1>8. Range(t) = Range(s) \cup {x}
    BY <1>3, <1>4, <1>5, <1>6, <1>7 DEF Range
  <1> QED
    BY <1>2, <1>3, <1>8

LEMMA RangeTyped ==
  ASSUME NEW X, NEW s \in Seq(X), NEW x \in Range(s)
  PROVE  x \in X
  <1>1. PICK k \in DOMAIN s : s[k] = x
    BY DEF Range
  <1>2. k \in 1..Len(s)
    BY LenProperties
  <1> QED
    BY <1>1, <1>2, ElementOfSeq

(* A piece of a sequence: the h elements after the first a.                *)
IsPiece(t, s, a, h) == t = SubSeq(s, a + 1, a + h)

PieceOf(t, s, a, h, X) == t \in Seq(X) /\ Len(t) = h /\ \A i \in 1..h : t[i] = s[a + i]

LEMMA PieceIs ==
  ASSUME NEW X, NEW s \in Seq(X), NEW a \in Nat, NEW h \in Nat, a + h <= Len(s),
         NEW t, IsPiece(t, s, a, h)
  PROVE  PieceOf(t, s, a, h, X)
  <1>1. PICK l \in Nat : l = Len(s)
    BY LenProperties
  <1>2. PICK b \in Nat : b = a + 1
    OBVIOUS
  <1>3. PICK e \in Nat : e = a + h
    OBVIOUS
  <1>4. b \in 1..l + 1 /\ e \in b - 1..l /\ t = SubSeq(s, b, e)
    BY <1>1, <1>2, <1>3 DEF IsPiece
  <1>5. /\ t \in Seq(X)
        /\ Len(t) = IF b <= e THEN e - b + 1 ELSE 0
        /\ \A i \in 1..e - b + 1 : t[i] = s[b + i - 1]
    BY <1>1, <1>4, SubSeqProperties
  <1>6. e - b + 1 = h /\ (b <= e <=> h > 0)
    BY <1>2, <1>3
  <1>7. Len(t) = h
    BY <1>5, <1>6
  <1>8. \A i \in 1..h : t[i] = s[a + i]
    <2>1. \A i \in 1..h : b + i - 1 = a + i
      BY <1>2
    <2> QED
      BY <1>5, <1>6, <2>1
  <1> QED
    BY <1>5, <1>7, <1>8 DEF PieceOf

Between(s, a, h) == {s[i] : i \in a + 1..a + h}

LEMMA SubSeqMembers ==
  ASSUME NEW X, NEW s \in Seq(X), NEW a \in Nat, NEW h \in Nat, a + h <= Len(s),
         NEW t, IsPiece(t, s, a, h)
  PROVE  t \in Seq(X) /\ Range(t) = Between(s, a, h)
  <1>0. PieceOf(t, s, a, h, X)
    BY PieceIs
  <1>1. t \in Seq(X) /\ Len(t) = h /\ \A i \in 1..h : t[i] = s[a + i]
    BY <1>0 DEF PieceOf
  <1>2. Range(t) = {s[i] : i \in a + 1..a + h}
    <2>1. \A i \in 1..h : a + i \in a + 1..a + h
      OBVIOUS
    <2>2. \A j \in a + 1..a + h : j - a \in 1..h /\ a + (j - a) = j
      OBVIOUS
    <2>3. DOMAIN t = 1..h
      BY <1>1, LenProperties
    <2>4. \A x \in Range(t) : x \in {s[i] : i \in a + 1..a + h}
      BY <1>1, <2>1, <2>3 DEF Range
    <2>5. ASSUME NEW j \in a + 1..a + h PROVE s[j] \in Range(t)
      <3>1. t[j - a] = s[j]
        BY <1>1, <2>2
      <3> QED
        BY <2>2, <2>3, <3>1 DEF Range
    <2> QED
      BY <2>4, <2>5
  <1> QED
    BY <1>1, <1>2 DEF Between

(* A total may take off any term first.                                    *)
TakesAny(it, h, A) == \A s \in A : \A x \in s : it[s] = h[x] + it[s \ {x}]

LEMMA TotalsTake ==
  ASSUME NEW S, IsFiniteSet(S), NEW h \in [S -> Int], NEW it, Totals(it, h, SUBSET S)
  PROVE  TakesAny(it, h, SUBSET S)
  <1> DEFINE Small(n) == {s \in SUBSET S : Cardinality(s) <= n}
             N == {n \in Nat : \A s \in Small(n) : \A x \in s : it[s] = h[x] + it[s \ {x}]}
  <1>1. \A s \in SUBSET S : IsFiniteSet(s) /\ Cardinality(s) \in Nat
    BY FS_Subset, FS_CardinalityType
  <1>2. it \in [SUBSET S -> Int] /\ \A s \in SUBSET S : s # {} => it[s] = h[Pick(s)] + it[s \ {Pick(s)}]
    BY DEF Totals
  <1>3. 0 \in N
    <2>1. ASSUME NEW s \in Small(0) PROVE s = {}
      <3>1. Cardinality(s) = 0
        BY <1>1
      <3> QED
        BY <1>1, <3>1, FS_EmptySet
    <2> HIDE DEF Small
    <2> QED
      BY <2>1
  <1>4. ASSUME NEW n \in Nat, n \in N PROVE n + 1 \in N
    <2> SUFFICES ASSUME NEW s \in Small(n + 1), NEW x \in s PROVE it[s] = h[x] + it[s \ {x}]
      OBVIOUS
    <2>1. s \in SUBSET S /\ s # {} /\ Cardinality(s) <= n + 1
      OBVIOUS
    <2>2. PICK y : y = Pick(s)
      OBVIOUS
    <2>3. y \in s
      BY <2>1, <2>2 DEF Pick
    <2>4. it[s] = h[y] + it[s \ {y}]
      BY <1>2, <2>1, <2>2
    <2>5. CASE x = y
      BY <2>4, <2>5
    <2>6. CASE x # y
      <3>1. s \ {x} \in Small(n) /\ s \ {y} \in Small(n)
        <4>1. /\ Cardinality(s \ {x}) = Cardinality(s) - 1
              /\ Cardinality(s \ {y}) = Cardinality(s) - 1
          BY <1>1, <2>1, <2>3, FS_RemoveElement
        <4> QED
          BY <1>1, <2>1, <4>1
      <3>2. PICK rest : rest = (s \ {x}) \ {y}
        OBVIOUS
      <3>3. (s \ {y}) \ {x} = rest /\ y \in s \ {x} /\ x \in s \ {y}
        BY <2>3, <2>6, <3>2
      <3>4. it[s \ {x}] = h[y] + it[rest] /\ it[s \ {y}] = h[x] + it[rest]
        <4>1. PICK u, v : u = s \ {x} /\ v = s \ {y}
          OBVIOUS
        <4>2. u \ {y} = rest /\ v \ {x} = rest /\ y \in u /\ x \in v /\ u \in Small(n) /\ v \in Small(n)
          BY <3>1, <3>2, <3>3, <4>1
        <4> HIDE DEF Small
        <4>3. \A t \in Small(n) : \A z \in t : it[t] = h[z] + it[t \ {z}]
          BY <1>4
        <4>4. it[u] = h[y] + it[rest] /\ it[v] = h[x] + it[rest]
          BY <4>2, <4>3
        <4> QED
          BY <4>1, <4>4
      <3>5. h[x] \in Int /\ h[y] \in Int /\ it[rest] \in Int
        BY <1>2, <2>1, <2>3, <3>2
      <3> QED
        BY <2>4, <3>4, <3>5
    <2> QED
      BY <2>5, <2>6
  <1> HIDE DEF N
  <1>5. PICK n \in Nat : n = Cardinality(S)
    BY FS_CardinalityType
  <1>6. n \in N
    BY <1>3, <1>4, NatSetInduction
  <1>7. \A s \in SUBSET S : s \in Small(n)
    BY <1>5, FS_Subset
  <1> HIDE DEF Small
  <1> QED
    BY <1>6, <1>7 DEF N, TakesAny

(* Terms that are zero may be left out of a sum.                           *)
ZeroBut(h, D, C) == [f \in D |-> IF f \in C THEN h[f] ELSE 0]
Only(h, C) == [f \in C |-> h[f]]

LEMMA SumLeavesOut ==
  ASSUME NEW D, IsFiniteSet(D), NEW C \in SUBSET D, NEW h \in [D -> Int]
  PROVE  SumFunction(ZeroBut(h, D, C)) = SumFunction(Only(h, C))
  <1>1. PICK g \in [D -> Int] : g = [f \in D |-> IF f \in C THEN h[f] ELSE 0] /\ g = ZeroBut(h, D, C)
    <2>1. [f \in D |-> IF f \in C THEN h[f] ELSE 0] \in [D -> Int]
      OBVIOUS
    <2> QED
      BY <2>1 DEF ZeroBut
  <1>2. PICK k \in [C -> Int] : k = [f \in C |-> h[f]] /\ k = Only(h, C)
    <2>1. [f \in C |-> h[f]] \in [C -> Int]
      OBVIOUS
    <2> QED
      BY <2>1 DEF Only
  <1>3. IsFiniteSet(C)
    BY FS_Subset
  <1>4. PICK it : Totals(it, g, SUBSET D) /\ SumFunction(g) = it[D]
    BY SumIsTotal
  <1>5. PICK jt : Totals(jt, k, SUBSET C) /\ SumFunction(k) = jt[C]
    BY <1>3, SumIsTotal
  <1>6. \A s \in SUBSET C : \A x \in s : jt[s] = k[x] + jt[s \ {x}]
    <2>1. TakesAny(jt, k, SUBSET C)
      BY <1>3, <1>5, TotalsTake
    <2> QED
      BY <2>1 DEF TakesAny
  <1> DEFINE F == {s \in SUBSET D : it[s] = jt[s \cap C]}
  <1>7. {} \in F
    <2>1. it[{}] = 0 /\ jt[{}] = 0
      BY <1>4, <1>5 DEF Totals
    <2>2. {} \cap C = {}
      OBVIOUS
    <2> QED
      BY <2>1, <2>2
  <1>8. ASSUME NEW s \in SUBSET D, s # {}, s \ {Pick(s)} \in F PROVE s \in F
    <2>1. PICK x : x = Pick(s)
      OBVIOUS
    <2>2. x \in s
      BY <1>8, <2>1 DEF Pick
    <2>3. it[s] = g[x] + it[s \ {x}] /\ it[s \ {x}] \in Int
      BY <1>4, <1>8, <2>1 DEF Totals
    <2>4. it[s \ {x}] = jt[(s \ {x}) \cap C]
      BY <1>8, <2>1
    <2>5. CASE x \in C
      <3>1. s \cap C \in SUBSET C /\ x \in s \cap C /\ (s \cap C) \ {x} = (s \ {x}) \cap C
        BY <2>2, <2>5
      <3>2. jt[s \cap C] = k[x] + jt[(s \cap C) \ {x}]
        BY <1>6, <3>1
      <3>3. g[x] = k[x]
        BY <1>1, <1>2, <2>2, <2>5
      <3> QED
        BY <2>3, <2>4, <3>1, <3>2, <3>3
    <2>6. CASE x \notin C
      <3>1. s \cap C = (s \ {x}) \cap C
        BY <2>6
      <3>2. g[x] = 0
        BY <1>1, <2>2, <2>6
      <3>3. it[s] = it[s \ {x}]
        BY <2>3, <3>2
      <3>4. jt[s \cap C] = jt[(s \ {x}) \cap C]
        BY <3>1, Zenon
      <3>5. it[s] = jt[s \cap C]
        BY <2>4, <3>3, <3>4, Zenon
      <3> QED
        BY <3>5
    <2> QED
      BY <2>5, <2>6
  <1>9. D \in F
    <2> HIDE DEF F
    <2> QED
      BY <1>7, <1>8, SubsetInduction
  <1>10. D \cap C = C
    OBVIOUS
  <1> QED
    BY <1>1, <1>2, <1>4, <1>5, <1>9, <1>10

(* The folds of the calls: what one turn of each loop does.                *)
FoldStep(kind, ctx, acc, x) ==
  CASE kind = "split" -> SplitStep(ctx[1], ctx[2], acc, x)
    [] kind = "masked" -> MaskedStep(ctx[1], ctx[2], acc, x)
    [] kind = "rest" -> FlushMasked(acc, x)
    [] kind = "multi" -> MultiMaskStep(ctx[1], ctx[2], acc, x)
    [] kind = "store" -> StoreChunk(ctx[1], ctx[2], ctx[3], acc, x)

FoldTable(it, kind, ctx, base, q, A) ==
  it = [s \in A |-> IF s = {} THEN base
                    ELSE FoldStep(kind, ctx, it[s \ {Max(s)}], q[Max(s)])]

FoldRun(run, kind, ctx, base, q, m) ==
  /\ run[0] = base
  /\ \A k \in 0..m - 1 : run[k + 1] = FoldStep(kind, ctx, run[k], q[k + 1])

RunsTo(end, kind, ctx, base, q, m) == \E run : FoldRun(run, kind, ctx, base, q, m) /\ run[m] = end

LEMMA FoldTablesExist ==
  ASSUME NEW m \in Nat, NEW kind, NEW ctx, NEW base, NEW q
  PROVE  \E it : FoldTable(it, kind, ctx, base, q, SUBSET (1..m))
  <1> DEFINE N == {n \in Nat : \E it : FoldTable(it, kind, ctx, base, q, SUBSET (1..n))}
  <1>1. 0 \in N
    <2> DEFINE it == [s \in SUBSET (1..0) |-> base]
    <2>1. \A s \in SUBSET (1..0) : s = {}
      OBVIOUS
    <2>2. it = [s \in SUBSET (1..0) |->
                  IF s = {} THEN base ELSE FoldStep(kind, ctx, it[s \ {Max(s)}], q[Max(s)])]
      BY <2>1
    <2> HIDE DEF it
    <2>3. FoldTable(it, kind, ctx, base, q, SUBSET (1..0))
      BY <2>2 DEF FoldTable
    <2> QED
      BY <2>3
  <1>2. ASSUME NEW n \in Nat, n \in N PROVE n + 1 \in N
    <2>1. PICK it : FoldTable(it, kind, ctx, base, q, SUBSET (1..n))
      BY <1>2
    <2> DEFINE A == SUBSET (1..n)
               B == SUBSET (1..n + 1)
               big == [s \in B |-> IF s = {} THEN base
                                   ELSE FoldStep(kind, ctx, it[s \ {Max(s)}], q[Max(s)])]
    <2>2. A \subseteq B
      OBVIOUS
    <2>3. \A s \in A : it[s] = IF s = {} THEN base ELSE FoldStep(kind, ctx, it[s \ {Max(s)}], q[Max(s)])
      BY <2>1 DEF FoldTable
    <2>4. \A s \in B : s # {} => s \ {Max(s)} \in A
      BY MaxTakesOff
    <2> HIDE DEF A, B
    <2>5. \A s \in B : big[s] = IF s = {} THEN base ELSE FoldStep(kind, ctx, it[s \ {Max(s)}], q[Max(s)])
      OBVIOUS
    <2>6. \A s \in A : big[s] = it[s]
      BY <2>2, <2>3, <2>5
    <2>7. big = [s \in B |-> IF s = {} THEN base
                             ELSE FoldStep(kind, ctx, big[s \ {Max(s)}], q[Max(s)])]
      <3>1. \A s \in B : s # {} => big[s \ {Max(s)}] = it[s \ {Max(s)}]
        BY <2>4, <2>6
      <3>2. big = [s \in B |-> IF s = {} THEN base
                               ELSE FoldStep(kind, ctx, it[s \ {Max(s)}], q[Max(s)])]
        OBVIOUS
      <3> HIDE DEF big
      <3> QED
        BY <3>1, <3>2
    <2> HIDE DEF big
    <2>8. FoldTable(big, kind, ctx, base, q, SUBSET (1..n + 1))
      BY <2>7 DEF FoldTable, B
    <2> QED
      BY <2>8
  <1> HIDE DEF N
  <1>3. m \in N
    BY <1>1, <1>2, NatSetInduction
  <1> QED
    BY <1>3 DEF N

LEMMA FoldTableRuns ==
  ASSUME NEW m \in Nat, NEW kind, NEW ctx, NEW base, NEW q, NEW it,
         FoldTable(it, kind, ctx, base, q, SUBSET (1..m))
  PROVE  RunsTo(it[1..m], kind, ctx, base, q, m)
  <1> DEFINE run == [k \in 0..m |-> it[1..k]]
  <1>1. it = [s \in SUBSET (1..m) |-> IF s = {} THEN base
                                      ELSE FoldStep(kind, ctx, it[s \ {Max(s)}], q[Max(s)])]
    BY DEF FoldTable
  <1>2. run[0] = base
    <2>1. 1..0 = {} /\ {} \in SUBSET (1..m) /\ 0 \in 0..m
      OBVIOUS
    <2>2. it[{}] = base
      BY <1>1, <2>1
    <2> QED
      BY <2>1, <2>2
  <1>3. ASSUME NEW k \in 0..m - 1 PROVE run[k + 1] = FoldStep(kind, ctx, run[k], q[k + 1])
    <2>1. k \in Nat /\ k \in 0..m /\ k + 1 \in 0..m /\ 1..k + 1 \in SUBSET (1..m)
      OBVIOUS
    <2>2. Max(1..k + 1) = k + 1 /\ (1..k + 1) \ {k + 1} = 1..k /\ 1..k + 1 # {}
      BY <2>1, MaxOfUpto
    <2>3. it[1..k + 1] = FoldStep(kind, ctx, it[(1..k + 1) \ {Max(1..k + 1)}], q[Max(1..k + 1)])
      BY <1>1, <2>1, <2>2
    <2>4. it[1..k + 1] = FoldStep(kind, ctx, it[1..k], q[k + 1])
      BY <2>2, <2>3
    <2> QED
      BY <2>1, <2>4
  <1>4. run[m] = it[1..m]
    OBVIOUS
  <1> HIDE DEF run
  <1>5. FoldRun(run, kind, ctx, base, q, m)
    BY <1>2, <1>3 DEF FoldRun
  <1> QED
    BY <1>4, <1>5 DEF RunsTo

NoneSplit(active) == [fbanks |-> <<>>, current |-> 0, pending |-> <<>>, out |-> NoEmbeddings(active)]

LEMMA SplitFolds ==
  ASSUME NEW active, NEW batchSize, NEW m \in Nat, NEW q, q = Positions(active), DOMAIN q = 1..m
  PROVE  \E run : /\ FoldRun(run, "split", <<active, batchSize>>, NoneSplit(active), q, m)
                  /\ ExtractSplit(active, batchSize) = Embedded(run[m].out, Resolved(run[m]))
  <1> DEFINE base == [fbanks |-> <<>>, current |-> 0, pending |-> <<>>, out |-> NoEmbeddings(active)]
             body(t) == [s \in SUBSET (1..m) |->
                           IF s = {} THEN base
                           ELSE SplitStep(active, batchSize, t[s \ {Max(s)}], q[Max(s)])]
             it == CHOOSE t : t = body(t)
             ctx == <<active, batchSize>>
  <1>1. ExtractSplit(active, batchSize) = Embedded(it[1..m].out, Resolved(it[1..m]))
    BY DEF ExtractSplit, FoldLeft, MapThenFoldSet
  <1>2. \A acc, x : FoldStep("split", ctx, acc, x) = SplitStep(active, batchSize, acc, x)
    BY DEF FoldStep
  <1> HIDE DEF ctx, base
  <1>3. PICK t : FoldTable(t, "split", ctx, base, q, SUBSET (1..m))
    BY FoldTablesExist
  <1>4. t = body(t)
    BY <1>2, <1>3 DEF FoldTable
  <1>5. it = body(it)
    <2> HIDE DEF body
    <2> QED
      BY <1>4
  <1> HIDE DEF it
  <1>6. FoldTable(it, "split", ctx, base, q, SUBSET (1..m))
    BY <1>2, <1>5, ZenonT(30) DEF FoldTable
  <1> HIDE DEF body
  <1>7. PICK run : FoldRun(run, "split", ctx, base, q, m) /\ run[m] = it[1..m]
    BY <1>6, FoldTableRuns DEF RunsTo
  <1>8. ExtractSplit(active, batchSize) = Embedded(run[m].out, Resolved(run[m]))
    BY <1>1, <1>7
  <1> QED
    BY <1>7, <1>8 DEF ctx, base, NoneSplit

(* The places of the speakers of len chunks, and the order of the loops.   *)
Grid(len, n) == (1..len) \X (0..n - 1)
InOrderOfLoops(q, m, len, n) ==
  /\ Range(q) = Grid(len, n)
  /\ m > 0 => q[1][2] = 0
  /\ \A j \in 1..m - 1 : IF q[j][2] + 1 < n THEN q[j + 1] = <<q[j][1], q[j][2] + 1>>
                                          ELSE q[j + 1][2] = 0
Place(j, n) == <<(j - 1) \div n + 1, (j - 1) % n>>

IsPlace(j, c, k, n) == j = c * n + k + 1
Cells(l, c, n) == l = c * n

LEMMA PlaceOf ==
  ASSUME NEW n \in Nat \ {0}, NEW c \in Nat, NEW k \in 0..n - 1, NEW j, IsPlace(j, c, k, n)
  PROVE  Place(j, n) = <<c + 1, k>>
  <1>1. PICK x : x = c * n + k
    OBVIOUS
  <1>2. x \in Nat /\ x \div n = c /\ x % n = k
    BY <1>1, DivModUnique
  <1>3. j - 1 = x
    BY <1>1, <1>2 DEF IsPlace
  <1> QED
    BY <1>1, <1>2, <1>3 DEF Place

PlaceIn(j, len, n) ==
  \E c \in 0..len - 1, k \in 0..n - 1 : IsPlace(j, c, k, n) /\ Place(j, n) = <<c + 1, k>>

LEMMA PlaceSplits ==
  ASSUME NEW n \in Nat \ {0}, NEW len \in Nat, NEW l \in Nat, Cells(l, len, n), NEW j \in 1..l
  PROVE  PlaceIn(j, len, n)
  <1>1. l = len * n
    BY DEF Cells
  <1>2. PICK x \in Nat : x = j - 1 /\ x < l
    OBVIOUS
  <1>3. PICK c \in Nat : c = x \div n
    BY DivBounds
  <1>4. PICK z \in Nat : z = c * n
    OBVIOUS
  <1>5. z <= x /\ x < z + n
    BY <1>3, <1>4, DivBounds
  <1>6. c < len
    <2>1. SUFFICES ASSUME len <= c PROVE FALSE
      OBVIOUS
    <2>2. len * n <= c * n
      BY <2>1, TimesMonotone
    <2> QED
      BY <1>1, <1>2, <1>4, <1>5, <2>2
  <1>7. PICK k \in 0..n - 1 : k = x - z
    BY <1>5
  <1>8. IsPlace(j, c, k, n)
    BY <1>2, <1>4, <1>7 DEF IsPlace
  <1>9. Place(j, n) = <<c + 1, k>>
    BY <1>8, PlaceOf
  <1> QED
    BY <1>6, <1>8, <1>9 DEF PlaceIn

LEMMA PlacesInOrder ==
  ASSUME NEW n \in Nat \ {0}, NEW len \in Nat, NEW m \in Nat, Cells(m, len, n),
         NEW q, q = [j \in 1..m |-> Place(j, n)]
  PROVE  q \in Seq(Grid(len, n)) /\ InOrderOfLoops(q, m, len, n)
  <1>1. \A j \in 1..m : q[j] = Place(j, n)
    OBVIOUS
  <1>2. ASSUME NEW j \in 1..m PROVE q[j] \in Grid(len, n)
    <2>1. PICK c \in 0..len - 1, k \in 0..n - 1 : Place(j, n) = <<c + 1, k>>
      <3>1. PlaceIn(j, len, n)
        BY PlaceSplits
      <3> QED
        BY <3>1 DEF PlaceIn
    <2> QED
      BY <1>1, <2>1 DEF Grid
  <1>3. ASSUME NEW p \in Grid(len, n) PROVE p \in Range(q)
    <2>1. PICK a \in 1..len, k \in 0..n - 1 : p = <<a, k>>
      BY DEF Grid
    <2>2. PICK c \in Nat : c = a - 1 /\ c + 1 <= len
      BY <2>1
    <2>3. PICK z \in Nat : z = c * n
      OBVIOUS
    <2>4. z + n <= m
      <3>1. (c + 1) * n <= len * n
        BY <2>2, TimesMonotone
      <3>2. (c + 1) * n = z + n
        BY <2>3, Distribute
      <3> QED
        BY <3>1, <3>2 DEF Cells
    <2>5. z + k + 1 \in 1..m
      BY <2>4
    <2>6. Place(z + k + 1, n) = <<c + 1, k>>
      <3>1. IsPlace(z + k + 1, c, k, n)
        BY <2>3 DEF IsPlace
      <3> QED
        BY <3>1, PlaceOf
    <2>7. q[z + k + 1] = p
      BY <1>1, <2>1, <2>2, <2>5, <2>6
    <2> QED
      BY <2>5, <2>7 DEF Range
  <1>4. DOMAIN q = 1..m /\ q \in Seq(Grid(len, n))
    BY <1>2
  <1>5. Range(q) = Grid(len, n)
    <2>1. Range(q) \subseteq Grid(len, n)
      BY <1>2, <1>4 DEF Range
    <2> QED
      BY <1>3, <2>1
  <1>6. m > 0 => q[1][2] = 0
    <2>1. SUFFICES ASSUME m > 0 PROVE q[1][2] = 0
      OBVIOUS
    <2>2. IsPlace(1, 0, 0, n) /\ 0 \in 0..n - 1 /\ 1 \in 1..m
      BY <2>1 DEF IsPlace
    <2>3. Place(1, n) = <<0 + 1, 0>>
      BY <2>2, PlaceOf
    <2> QED
      BY <1>1, <2>2, <2>3
  <1>7. ASSUME NEW j \in 1..m - 1
        PROVE  IF q[j][2] + 1 < n THEN q[j + 1] = <<q[j][1], q[j][2] + 1>> ELSE q[j + 1][2] = 0
    <2>1. PICK c \in 0..len - 1, k \in 0..n - 1 : IsPlace(j, c, k, n) /\ Place(j, n) = <<c + 1, k>>
      <3>1. PlaceIn(j, len, n)
        BY PlaceSplits
      <3> QED
        BY <3>1 DEF PlaceIn
    <2>5. c \in Nat /\ j \in 1..m /\ j = c * n + k + 1
      BY <2>1 DEF IsPlace
    <2>2. q[j] = <<c + 1, k>> /\ j + 1 \in 1..m /\ q[j + 1] = Place(j + 1, n)
      BY <1>1, <2>1, <2>5
    <2>6. q[j][1] = c + 1 /\ q[j][2] = k
      <3>1. \A x : x = <<c + 1, k>> => x[1] = c + 1 /\ x[2] = k
        OBVIOUS
      <3> QED
        BY <2>2, <3>1
    <2>3. CASE k + 1 < n
      <3>1. k + 1 \in 0..n - 1 /\ IsPlace(j + 1, c, k + 1, n)
        BY <2>3, <2>5 DEF IsPlace
      <3>2. Place(j + 1, n) = <<c + 1, k + 1>>
        BY <2>5, <3>1, PlaceOf
      <3> QED
        BY <2>2, <2>3, <2>6, <3>2
    <2>4. CASE ~(k + 1 < n)
      <3>1. (c + 1) * n = c * n + n
        BY <2>5, Distribute
      <3>2. k + 1 = n /\ c + 1 \in Nat /\ 0 \in 0..n - 1
        BY <2>4, <2>5
      <3>3. IsPlace(j + 1, c + 1, 0, n)
        BY <2>5, <3>1, <3>2 DEF IsPlace
      <3>4. Place(j + 1, n) = <<c + 1 + 1, 0>>
        BY <3>2, <3>3, PlaceOf
      <3> QED
        BY <2>2, <2>4, <2>6, <3>4
    <2> QED
      BY <2>3, <2>4
  <1> QED
    BY <1>4, <1>5, <1>6, <1>7 DEF InOrderOfLoops

(* The positions of the loops over chunks and over their speakers.         *)
LEMMA PositionsInOrder ==
  ASSUME NEW n \in Nat, NEW len \in Nat, NEW active, DOMAIN active = 1..len,
         len > 0 => NumSpeakers(active) = n
  PROVE  \E m \in Nat : /\ Positions(active) \in Seq(Grid(len, n))
                        /\ DOMAIN Positions(active) = 1..m
                        /\ InOrderOfLoops(Positions(active), m, len, n)
  <1> DEFINE blocks == [c \in 1..len |-> [k \in 1..n |-> <<c, k - 1>>]]
             r == [i \in 1..len |-> [j \in 1..i * n |-> Place(j, n)]]
             X == Nat \X Nat
  <1>1. Positions(active) = FlattenSeq(blocks)
    <2>1. len = 0 => 1..len = {}
      OBVIOUS
    <2>2. blocks = [c \in DOMAIN active |-> [k \in 1..NumSpeakers(active) |-> <<c, k - 1>>]]
      BY <2>1
    <2> QED
      BY <2>2 DEF Positions
  <1>2. CASE len = 0
    <2>1. blocks = <<>>
      BY <1>2
    <2>2. FlattenSeq(<<>>) = <<>>
      BY DEF FlattenSeq
    <2>3. Positions(active) = <<>>
      BY <1>1, <2>1, <2>2
    <2>4. Grid(len, n) = {} /\ <<>> \in Seq({}) /\ DOMAIN <<>> = 1..0 /\ Range(<<>>) = {}
      BY <1>2 DEF Grid, Range
    <2>5. InOrderOfLoops(<<>>, 0, len, n)
      BY <2>4 DEF InOrderOfLoops
    <2> QED
      BY <2>3, <2>4, <2>5
  <1>3. CASE len > 0 /\ n = 0
    <2>1. len \in Nat \ {0} /\ blocks \in [1..len -> Seq(X)] /\ \A c \in 1..len : blocks[c] = <<>>
      BY <1>3
    <2> HIDE DEF blocks
    <2> DEFINE e == [i \in 1..len |-> <<>>]
    <2>2. FlattenRun(e, blocks, len)
      <3>1. \A i \in 1..len - 1 : i \in 1..len /\ i + 1 \in 1..len
        OBVIOUS
      <3>2. 1 \in 1..len
        BY <2>1
      <3>3. <<>> \o <<>> = <<>>
        OBVIOUS
      <3> QED
        BY <2>1, <3>1, <3>2, <3>3 DEF FlattenRun
    <2>3. FlattenSeq(blocks) = e[len] /\ e[len] = <<>>
      <3>1. len \in 1..len
        BY <2>1
      <3> QED
        BY <2>1, <2>2, <3>1, FlattenOfRun
    <2>4. Positions(active) = <<>>
      BY <1>1, <2>3
    <2>5. Grid(len, n) = {} /\ <<>> \in Seq({}) /\ DOMAIN <<>> = 1..0 /\ Range(<<>>) = {}
      BY <1>3 DEF Grid, Range
    <2>6. InOrderOfLoops(<<>>, 0, len, n)
      BY <2>5 DEF InOrderOfLoops
    <2> QED
      BY <2>4, <2>5, <2>6
  <1>4. CASE len > 0 /\ n > 0
    <2>1. len \in Nat \ {0} /\ n \in Nat \ {0} /\ blocks \in [1..len -> Seq(X)]
      BY <1>4
    <2>2. ASSUME NEW i \in Nat, NEW l \in Nat, Cells(l, i, n)
          PROVE  [j \in 1..l |-> Place(j, n)] \in Seq(X)
      <3>1. ASSUME NEW j \in 1..l PROVE Place(j, n) \in X
        <4>2. PICK c \in 0..i - 1, k \in 0..n - 1 : Place(j, n) = <<c + 1, k>>
          <5>1. PlaceIn(j, i, n)
            BY <2>1, <2>2, PlaceSplits
          <5> QED
            BY <5>1 DEF PlaceIn
        <4> QED
          BY <4>2
      <3> QED
        BY <3>1
    <2>3. ASSUME NEW i \in 1..len - 1 PROVE r[i + 1] = r[i] \o blocks[i + 1]
      <3>1. PICK l \in Nat : l = i * n
        OBVIOUS
      <3>2. (i + 1) * n = l + n
        BY <3>1, Distribute
      <3>3. i \in Nat /\ i \in 1..len /\ i + 1 \in 1..len
        OBVIOUS
      <3>4. r[i] = [j \in 1..l |-> Place(j, n)] /\ r[i + 1] = [j \in 1..l + n |-> Place(j, n)]
            /\ blocks[i + 1] = [k \in 1..n |-> <<i + 1, k - 1>>]
        BY <3>1, <3>2, <3>3
      <3>5. r[i] \in Seq(X) /\ Len(r[i]) = l
        <4>1. [j \in 1..l |-> Place(j, n)] \in Seq(X)
          BY <2>2, <3>1, <3>3 DEF Cells
        <4> QED
          BY <3>4, <4>1
      <3>6. blocks[i + 1] \in Seq(X) /\ Len(blocks[i + 1]) = n
        <4>1. i + 1 \in Nat /\ \A k \in 1..n : k - 1 \in Nat
          OBVIOUS
        <4>2. [k \in 1..n |-> <<i + 1, k - 1>>] \in Seq(X)
          BY <4>1
        <4> QED
          BY <3>4, <4>2
      <3> HIDE DEF r, blocks
      <3>7. IsConcat(r[i], blocks[i + 1], l, n)
        BY <3>5, <3>6, ConcatFunction
      <3>8. r[i] \o blocks[i + 1] =
              [j \in 1..l + n |-> IF j <= l THEN r[i][j] ELSE blocks[i + 1][j - l]]
        BY <3>7 DEF IsConcat
      <3>9. ASSUME NEW j \in 1..l + n
            PROVE  (IF j <= l THEN r[i][j] ELSE blocks[i + 1][j - l]) = Place(j, n)
        <4>1. CASE j <= l
          BY <3>4, <4>1
        <4>2. CASE ~(j <= l)
          <5>1. j - l \in 1..n /\ (j - l) - 1 \in 0..n - 1 /\ j = l + ((j - l) - 1) + 1
            BY <4>2
          <5>2. IsPlace(j, i, (j - l) - 1, n)
            BY <3>1, <5>1 DEF IsPlace
          <5>3. Place(j, n) = <<i + 1, (j - l) - 1>>
            BY <2>1, <3>3, <5>1, <5>2, PlaceOf
          <5> QED
            BY <3>4, <4>2, <5>1, <5>3
        <4> QED
          BY <4>1, <4>2
      <3> QED
        BY <3>4, <3>8, <3>9
    <2>4. r[1] = blocks[1]
      <3>1. 1 \in 1..len /\ 1 * n = n
        BY <2>1
      <3>2. r[1] = [j \in 1..n |-> Place(j, n)] /\ blocks[1] = [k \in 1..n |-> <<1, k - 1>>]
        BY <3>1
      <3>3. ASSUME NEW j \in 1..n PROVE Place(j, n) = <<1, j - 1>>
        <4>1. j - 1 \in 0..n - 1 /\ IsPlace(j, 0, j - 1, n)
          BY DEF IsPlace
        <4>2. Place(j, n) = <<0 + 1, j - 1>>
          BY <2>1, <4>1, PlaceOf
        <4> QED
          BY <4>1, <4>2
      <3> QED
        BY <3>2, <3>3
    <2>5. FlattenRun(r, blocks, len)
      <3> HIDE DEF r, blocks
      <3> QED
        BY <2>3, <2>4 DEF FlattenRun
    <2>6. FlattenSeq(blocks) = r[len]
      <3> HIDE DEF r, blocks
      <3> QED
        BY <2>1, <2>5, FlattenOfRun
    <2>7. PICK m \in Nat : Cells(m, len, n)
      BY DEF Cells
    <2>8. r[len] = [j \in 1..m |-> Place(j, n)]
      BY <2>1, <2>7 DEF Cells
    <2>9. PICK q : q = [j \in 1..m |-> Place(j, n)]
      OBVIOUS
    <2>10. q \in Seq(Grid(len, n)) /\ InOrderOfLoops(q, m, len, n)
      BY <2>1, <2>7, <2>9, PlacesInOrder
    <2>11. Positions(active) = q /\ DOMAIN q = 1..m
      <3> HIDE DEF r, blocks
      <3> QED
        BY <1>1, <2>6, <2>8, <2>9
    <2> QED
      BY <2>10, <2>11
  <1> QED
    BY <1>2, <1>3, <1>4

(* An embedding is the pair of the chunk its features are of and the       *)
(* speaker its mask is of: those of D have theirs, the others none.        *)
Aligned(embs, All, D) == embs = [p \in All |-> IF p \in D THEN p ELSE Missing]
ItemAligned(i, All) == i.at \in All /\ i.features = i.at[1] /\ i.mask = i.at[2]

LEMMA GridPairs ==
  ASSUME NEW len \in Nat, NEW n \in Nat, NEW p \in Grid(len, n)
  PROVE  p[1] \in 1..len /\ p[2] \in 0..n - 1 /\ p[1] \in Nat /\ p[2] \in Nat /\ <<p[1], p[2]>> = p
  BY DEF Grid

LEMMA EmbeddedAligned ==
  ASSUME NEW len \in Nat, NEW n \in Nat, NEW D, NEW embs, Aligned(embs, Grid(len, n), D),
         NEW items, \A i \in items : ItemAligned(i, Grid(len, n))
  PROVE  Aligned(Embedded(embs, items), Grid(len, n), D \cup {i.at : i \in items})
  <1> DEFINE All == Grid(len, n)
             ats == {i.at : i \in items}
             pick(p) == CHOOSE j \in items : j.at = p
             new(p) == <<pick(p).features, pick(p).mask>>
  <1>1. Embedded(embs, items) =
          [p \in DOMAIN embs \cup ats |-> IF \E i \in items : i.at = p THEN new(p) ELSE embs[p]]
    BY DEF Embedded, Over
  <1>2. ASSUME NEW p \in ats PROVE p \in All /\ new(p) = p
    <2>1. PICK j \in items : j.at = p
      OBVIOUS
    <2>2. pick(p) \in items /\ pick(p).at = p
      BY <2>1
    <2> HIDE DEF pick
    <2>3. pick(p).features = p[1] /\ pick(p).mask = p[2] /\ p \in All
      BY <2>2 DEF ItemAligned
    <2>4. <<p[1], p[2]>> = p
      BY <2>3, GridPairs
    <2> QED
      BY <2>3, <2>4
  <1>3. DOMAIN embs = All /\ \A p \in All : embs[p] = IF p \in D THEN p ELSE Missing
    BY DEF Aligned
  <1>4. \A p : (\E i \in items : i.at = p) <=> p \in ats
    OBVIOUS
  <1> HIDE DEF new, ats, All
  <1>5. All \cup ats = All
    BY <1>2
  <1>6. Embedded(embs, items) = [p \in All |-> IF \E i \in items : i.at = p THEN new(p) ELSE embs[p]]
    BY <1>1, <1>3, <1>5
  <1>7. \A p \in All : (IF \E i \in items : i.at = p THEN new(p) ELSE embs[p])
                       = IF p \in D \cup ats THEN p ELSE Missing
    BY <1>2, <1>3, <1>4
  <1>8. Embedded(embs, items) = [p \in All |-> IF p \in D \cup ats THEN p ELSE Missing]
    BY <1>6, <1>7
  <1> QED
    BY <1>8 DEF Aligned, All, ats

(* The active speakers among the first j places.                           *)
Heard(active, q, j) == {q[i] : i \in {k \in 1..j : active[q[k][1]][q[k][2]]}}

LEMMA HeardGrows ==
  ASSUME NEW active, NEW q, NEW j \in Nat, NEW p, p = q[j + 1]
  PROVE  Heard(active, q, j + 1) = Heard(active, q, j) \cup (IF active[p[1]][p[2]] THEN {p} ELSE {})
  <1>1. \A k \in 1..j + 1 : k \in 1..j \/ k = j + 1
    OBVIOUS
  <1>2. \A k \in 1..j : k \in 1..j + 1
    OBVIOUS
  <1>3. j + 1 \in 1..j + 1
    OBVIOUS
  <1> QED
    BY <1>1, <1>2, <1>3 DEF Heard

(* A pending speaker refers to the features of its chunk.                  *)
Refers(i, fbanks) ==
  i.features \in 1..Len(fbanks) /\ fbanks[i.features] = i.at[1] /\ i.mask = i.at[2]
Waits(pending, embs, All, done) ==
  \E D : Aligned(embs, All, D) /\ D \cup {i.at : i \in Range(pending)} = done
SplitState(st, len, n) ==
  /\ st = [fbanks |-> st.fbanks, current |-> st.current, pending |-> st.pending, out |-> st.out]
  /\ st.fbanks \in Seq(Nat) /\ st.current \in Nat
  /\ st.pending \in Seq([at : Grid(len, n), features : Nat, mask : Nat])
  /\ \A i \in Range(st.pending) : Refers(i, st.fbanks)
Continues(st, p) ==
  p[2] # 0 => st.current \in 1..Len(st.fbanks) /\ st.fbanks[st.current] = p[1]

LEMMA ResolvedAligned ==
  ASSUME NEW len \in Nat, NEW n \in Nat, NEW st, SplitState(st, len, n)
  PROVE  /\ \A x \in Resolved(st) : ItemAligned(x, Grid(len, n))
         /\ {x.at : x \in Resolved(st)} = {i.at : i \in Range(st.pending)}
  <1>1. ASSUME NEW i \in Range(st.pending) PROVE i \in [at : Grid(len, n), features : Nat, mask : Nat]
    <2> DEFINE X == [at : Grid(len, n), features : Nat, mask : Nat]
    <2>1. st.pending \in Seq(X)
      BY DEF SplitState
    <2> HIDE DEF X
    <2>2. i \in X
      BY <2>1, RangeTyped
    <2> QED
      BY <2>2 DEF X
  <1> DEFINE resolve(i) == [i EXCEPT !.features = st.fbanks[i.features]]
  <1>2. Resolved(st) = {resolve(i) : i \in Range(st.pending)}
    BY DEF Resolved
  <1>3. ASSUME NEW i \in Range(st.pending)
        PROVE  resolve(i).at = i.at /\ ItemAligned(resolve(i), Grid(len, n))
    <2>1. resolve(i).at = i.at /\ resolve(i).features = st.fbanks[i.features]
          /\ resolve(i).mask = i.mask /\ i.at \in Grid(len, n)
      BY <1>1
    <2>2. st.fbanks[i.features] = i.at[1] /\ i.mask = i.at[2]
      BY DEF SplitState, Refers
    <2> HIDE DEF resolve
    <2> QED
      BY <2>1, <2>2 DEF ItemAligned
  <1> HIDE DEF resolve
  <1> QED
    BY <1>2, <1>3

LEMMA WaitersFlushed ==
  ASSUME NEW len \in Nat, NEW n \in Nat, NEW pending, NEW embs, NEW done,
         Waits(pending, embs, Grid(len, n), done),
         NEW items, \A x \in items : ItemAligned(x, Grid(len, n)),
         {x.at : x \in items} = {i.at : i \in Range(pending)}
  PROVE  Aligned(Embedded(embs, items), Grid(len, n), done)
  <1>1. PICK D : Aligned(embs, Grid(len, n), D) /\ D \cup {i.at : i \in Range(pending)} = done
    BY DEF Waits
  <1>2. Aligned(Embedded(embs, items), Grid(len, n), D \cup {x.at : x \in items})
    BY <1>1, EmbeddedAligned
  <1> QED
    BY <1>1, <1>2

LEMMA WaitsEmpty ==
  ASSUME NEW embs, NEW All, NEW done, Aligned(embs, All, done)
  PROVE  Waits(<<>>, embs, All, done)
  <1>1. {i.at : i \in Range(<<>>)} = {}
    BY DEF Range
  <1>2. done \cup {} = done
    OBVIOUS
  <1> QED
    BY <1>1, <1>2 DEF Waits

LEMMA WaitsMore ==
  ASSUME NEW embs, NEW All, NEW done, NEW X, NEW pending \in Seq(X), NEW x \in X, Waits(pending, embs, All, done)
  PROVE  Waits(Append(pending, x), embs, All, done \cup {x.at})
  <1>1. PICK D : Aligned(embs, All, D) /\ D \cup {i.at : i \in Range(pending)} = done
    BY DEF Waits
  <1>2. Range(Append(pending, x)) = Range(pending) \cup {x}
    BY RangeAppends
  <1>3. {i.at : i \in Range(Append(pending, x))} = {i.at : i \in Range(pending)} \cup {x.at}
    BY <1>2
  <1>4. D \cup {i.at : i \in Range(Append(pending, x))} = done \cup {x.at}
    BY <1>1, <1>3
  <1> QED
    BY <1>1, <1>4 DEF Waits

(* One turn of the loop at place p, after which more have their embedding  *)
(* or wait for it.                                                         *)
SplitAt(st, done, p, len, n) ==
  SplitState(st, len, n) /\ Waits(st.pending, st.out, Grid(len, n), done) /\ Continues(st, p)
Adds(done, more, active, p) == more = done \cup (IF active[p[1]][p[2]] THEN {p} ELSE {})
SplitPast(r, more, p, len, n) ==
  /\ SplitState(r, len, n)
  /\ Waits(r.pending, r.out, Grid(len, n), more)
  /\ p[2] + 1 < n => r.current \in 1..Len(r.fbanks) /\ r.fbanks[r.current] = p[1]

LEMMA SplitStepAligned ==
  ASSUME NEW len \in Nat, NEW n \in Nat, NEW active, NumSpeakers(active) = n, NEW batchSize,
         NEW st, NEW done, NEW p \in Grid(len, n), SplitAt(st, done, p, len, n),
         NEW more, Adds(done, more, active, p)
  PROVE  SplitPast(SplitStep(active, batchSize, st, p), more, p, len, n)
  <1> SUFFICES ASSUME NEW r, r = SplitStep(active, batchSize, st, p)
               PROVE  /\ SplitState(r, len, n)
                      /\ Waits(r.pending, r.out, Grid(len, n), more)
                      /\ p[2] + 1 < n => r.current \in 1..Len(r.fbanks) /\ r.fbanks[r.current] = p[1]
    BY DEF SplitPast
  <1> USE DEF SplitAt, Adds
  <1> DEFINE fbanks == IF p[2] = 0 THEN Append(st.fbanks, p[1]) ELSE st.fbanks
             current == IF p[2] = 0 THEN Len(fbanks) ELSE st.current
             item == [at |-> p, features |-> current, mask |-> p[2]]
             skipped == [fbanks |-> fbanks, current |-> current, pending |-> st.pending, out |-> st.out]
             pushed == [fbanks |-> fbanks, current |-> current,
                        pending |-> Append(st.pending, item), out |-> st.out]
             X == [at : Grid(len, n), features : Nat, mask : Nat]
  <1>1. st = [fbanks |-> st.fbanks, current |-> st.current, pending |-> st.pending, out |-> st.out]
    BY DEF SplitState
  <1>2. r = IF ~active[p[1]][p[2]] THEN skipped
            ELSE IF Len(pushed.pending) = batchSize THEN SplitFlush(active, pushed, p) ELSE pushed
    <2> HIDE DEF skipped, pushed
    <2> QED
      BY DEF SplitStep, skipped, pushed
  <1>3. p[1] \in Nat /\ p[2] \in Nat
    BY GridPairs
  <1>4. st.fbanks \in Seq(Nat) /\ Len(st.fbanks) \in Nat
    BY LenProperties DEF SplitState
  <1>5. /\ fbanks \in Seq(Nat) /\ Len(fbanks) \in Nat
        /\ current \in 1..Len(fbanks) /\ fbanks[current] = p[1]
        /\ Len(st.fbanks) <= Len(fbanks) /\ \A i \in 1..Len(st.fbanks) : fbanks[i] = st.fbanks[i]
    <2>1. CASE p[2] = 0
      <3>1. PICK l \in Nat : l = Len(st.fbanks)
        BY <1>4
      <3>2. PICK f : f = Append(st.fbanks, p[1])
        OBVIOUS
      <3>3. f \in Seq(Nat) /\ Len(f) = l + 1 /\ (\A i \in 1..l : f[i] = st.fbanks[i]) /\ f[l + 1] = p[1]
        BY <1>3, <1>4, <3>1, <3>2, AppendFacts
      <3>4. fbanks = f /\ current = l + 1
        BY <2>1, <3>2, <3>3
      <3>5. Len(f) \in Nat /\ l + 1 \in 1..Len(f) /\ l <= Len(f)
        BY <3>1, <3>3
      <3>6. \A i \in 1..Len(st.fbanks) : f[i] = st.fbanks[i]
        BY <3>1, <3>3
      <3> HIDE DEF fbanks, current
      <3> QED
        BY <3>1, <3>3, <3>4, <3>5, <3>6
    <2>2. CASE p[2] # 0
      <3>1. fbanks = st.fbanks /\ current = st.current
        BY <2>2
      <3>2. st.current \in 1..Len(st.fbanks) /\ st.fbanks[st.current] = p[1]
        BY <2>2 DEF Continues
      <3> HIDE DEF fbanks, current
      <3> QED
        BY <1>4, <3>1, <3>2
    <2> QED
      BY <2>1, <2>2
  <1> HIDE DEF fbanks, current
  <1>6. st.pending \in Seq(X) /\ item \in X
    BY <1>3, <1>5 DEF SplitState
  <1>7. \A i \in Range(st.pending) : Refers(i, fbanks)
    <2>1. \A i \in Range(st.pending) : Refers(i, st.fbanks)
      BY DEF SplitState
    <2>2. \A i \in 1..Len(st.fbanks) : i \in 1..Len(fbanks)
      BY <1>4, <1>5
    <2> QED
      BY <1>5, <2>1, <2>2 DEF Refers
  <1>8. current \in Nat
    BY <1>5
  <1>9. CASE ~active[p[1]][p[2]]
    <2>1. r = skipped /\ more = done
      BY <1>2, <1>9
    <2>2. r.fbanks = fbanks /\ r.current = current /\ r.pending = st.pending /\ r.out = st.out
      BY <2>1
    <2>3. r = [fbanks |-> r.fbanks, current |-> r.current, pending |-> r.pending, out |-> r.out]
      BY <2>1, <2>2
    <2> HIDE DEF skipped, pushed, item, X
    <2>4. SplitState(r, len, n)
      BY <1>5, <1>6, <1>7, <1>8, <2>2, <2>3 DEF SplitState, X
    <2> QED
      BY <1>5, <2>1, <2>2, <2>4
  <1>10. CASE active[p[1]][p[2]]
    <2>1. more = done \cup {p} /\ item.at = p
      BY <1>10
    <2>2. pushed.fbanks = fbanks /\ pushed.current = current /\ pushed.out = st.out
          /\ pushed.pending = Append(st.pending, item)
      OBVIOUS
    <2>3. pushed = [fbanks |-> pushed.fbanks, current |-> pushed.current,
                    pending |-> pushed.pending, out |-> pushed.out]
      OBVIOUS
    <2>4. Refers(item, fbanks)
      BY <1>5 DEF Refers
    <2> HIDE DEF skipped, pushed, item, X
    <2>5. Append(st.pending, item) \in Seq(X) /\ Range(Append(st.pending, item)) = Range(st.pending) \cup {item}
      BY <1>6, RangeAppends
    <2>6. SplitState(pushed, len, n)
      <3>1. \A i \in Range(pushed.pending) : Refers(i, pushed.fbanks)
        BY <1>7, <2>2, <2>4, <2>5
      <3> QED
        BY <1>5, <1>8, <2>2, <2>3, <2>5, <3>1 DEF SplitState, X
    <2>7. Waits(pushed.pending, pushed.out, Grid(len, n), more)
      BY <1>6, <2>1, <2>2, WaitsMore
    <2>8. CASE Len(pushed.pending) # batchSize
      <3>1. r = pushed
        BY <1>2, <1>10, <2>8
      <3> QED
        BY <1>5, <2>2, <2>6, <2>7, <3>1
    <2>9. CASE Len(pushed.pending) = batchSize
      <3>1. r = SplitFlush(active, pushed, p)
        BY <1>2, <1>10, <2>9
      <3>2. Aligned(Embedded(pushed.out, Resolved(pushed)), Grid(len, n), more)
        BY <2>6, <2>7, ResolvedAligned, WaitersFlushed
      <3> DEFINE kept == IF p[2] + 1 < n THEN <<fbanks[current]>> ELSE <<>>
                 at == IF p[2] + 1 < n THEN 1 ELSE current
                 flushed == Embedded(pushed.out, Resolved(pushed))
      <3>3. r = [fbanks |-> kept, current |-> at, pending |-> <<>>, out |-> flushed]
        BY <2>2, <3>1 DEF SplitFlush, KeptFeatures
      <3>4. kept \in Seq(Nat) /\ at \in Nat
        BY <1>3, <1>5, <1>8
      <3>5. p[2] + 1 < n => at \in 1..Len(kept) /\ kept[at] = p[1]
        BY <1>5
      <3> HIDE DEF kept, at, flushed
      <3>6. r.fbanks = kept /\ r.current = at /\ r.pending = <<>> /\ r.out = flushed
        BY <3>3
      <3>7. Range(<<>>) = {} /\ <<>> \in Seq(X)
        BY DEF Range
      <3>8. SplitState(r, len, n)
        BY <3>3, <3>4, <3>6, <3>7 DEF SplitState, X
      <3>9. Waits(r.pending, r.out, Grid(len, n), more)
        BY <3>2, <3>6, WaitsEmpty DEF flushed
      <3> QED
        BY <3>5, <3>6, <3>8, <3>9
    <2> QED
      BY <2>8, <2>9
  <1> QED
    BY <1>9, <1>10

(* The speakers that speak, in the chunks of a grid.                       *)
Speaking(active, len, n) == {p \in Grid(len, n) : active[p[1]][p[2]]}

LEMMA NoneAligned ==
  ASSUME NEW active, NEW All, Range(Positions(active)) = All
  PROVE  Aligned(NoEmbeddings(active), All, {})
  BY DEF Aligned, NoEmbeddings

LEMMA HeardNone ==
  ASSUME NEW active, NEW q
  PROVE  Heard(active, q, 0) = {}
  <1>1. \A k \in 1..0 : FALSE
    OBVIOUS
  <1> QED
    BY <1>1 DEF Heard

LEMMA HeardAll ==
  ASSUME NEW active, NEW q, NEW m \in Nat, NEW len, NEW n, DOMAIN q = 1..m, Range(q) = Grid(len, n)
  PROVE  Heard(active, q, m) = Speaking(active, len, n)
  BY DEF Heard, Speaking, Range

SplitInv(st, active, q, j, m, len, n) ==
  /\ SplitState(st, len, n)
  /\ Waits(st.pending, st.out, Grid(len, n), Heard(active, q, j))
  /\ j < m => Continues(st, q[j + 1])

LEMMA SplitRunAligned ==
  ASSUME NEW len \in Nat, NEW n \in Nat, NEW active, NumSpeakers(active) = n, NEW batchSize,
         NEW m \in Nat, NEW q \in Seq(Grid(len, n)), q = Positions(active), DOMAIN q = 1..m,
         InOrderOfLoops(q, m, len, n), NEW run,
         FoldRun(run, "split", <<active, batchSize>>, NoneSplit(active), q, m)
  PROVE  SplitInv(run[m], active, q, m, m, len, n)
  <1> DEFINE S == {j \in Nat : j <= m => SplitInv(run[j], active, q, j, m, len, n)}
  <1>1. 0 \in S
    <2>1. run[0] = NoneSplit(active)
      BY DEF FoldRun
    <2>2. PICK st : st = run[0]
      OBVIOUS
    <2>3. /\ st = [fbanks |-> st.fbanks, current |-> st.current, pending |-> st.pending, out |-> st.out]
          /\ st.fbanks = <<>> /\ st.current = 0 /\ st.pending = <<>> /\ st.out = NoEmbeddings(active)
      BY <2>1, <2>2 DEF NoneSplit
    <2>4. Range(<<>>) = {} /\ \A X : <<>> \in Seq(X)
      BY DEF Range
    <2>5. SplitState(st, len, n)
      <3>1. st.pending \in Seq([at : Grid(len, n), features : Nat, mask : Nat])
        BY <2>3, <2>4
      <3>2. st.fbanks \in Seq(Nat) /\ st.current \in Nat
        BY <2>3, <2>4
      <3>3. \A i \in Range(st.pending) : Refers(i, st.fbanks)
        BY <2>3, <2>4
      <3> QED
        BY <2>3, <3>1, <3>2, <3>3 DEF SplitState
    <2>6. Waits(st.pending, st.out, Grid(len, n), Heard(active, q, 0))
      <3>1. Aligned(NoEmbeddings(active), Grid(len, n), {})
        BY NoneAligned DEF InOrderOfLoops
      <3>2. Heard(active, q, 0) = {}
        BY HeardNone
      <3> QED
        BY <2>3, <3>1, <3>2, WaitsEmpty
    <2>7. 0 < m => Continues(st, q[0 + 1])
      BY DEF InOrderOfLoops, Continues
    <2> QED
      BY <2>2, <2>5, <2>6, <2>7 DEF SplitInv
  <1>2. ASSUME NEW j \in Nat, j \in S PROVE j + 1 \in S
    <2> SUFFICES ASSUME j + 1 <= m PROVE SplitInv(run[j + 1], active, q, j + 1, m, len, n)
      OBVIOUS
    <2>1. SplitInv(run[j], active, q, j, m, len, n) /\ j < m /\ j \in 0..m - 1 /\ j + 1 \in 1..m
      BY <1>2
    <2>2. PICK st : st = run[j]
      OBVIOUS
    <2>3. PICK p : p = q[j + 1]
      OBVIOUS
    <2>4. p \in Grid(len, n)
      BY <2>1, <2>3, ElementOfSeq, LenProperties
    <2>5. PICK r : r = SplitStep(active, batchSize, st, p)
      OBVIOUS
    <2>6. run[j + 1] = r
      <3>1. FoldStep("split", <<active, batchSize>>, st, p) = r
        BY <2>5 DEF FoldStep
      <3>2. run[j + 1] = FoldStep("split", <<active, batchSize>>, run[j], q[j + 1])
        BY <2>1 DEF FoldRun
      <3> QED
        BY <2>2, <2>3, <3>1, <3>2
    <2>7. SplitState(st, len, n) /\ Continues(st, p)
          /\ Waits(st.pending, st.out, Grid(len, n), Heard(active, q, j))
      BY <2>1, <2>2, <2>3 DEF SplitInv
    <2>8. Heard(active, q, j + 1) = Heard(active, q, j) \cup (IF active[p[1]][p[2]] THEN {p} ELSE {})
      BY <2>3, HeardGrows
    <2>9. /\ SplitState(r, len, n)
          /\ Waits(r.pending, r.out, Grid(len, n), Heard(active, q, j + 1))
          /\ p[2] + 1 < n => r.current \in 1..Len(r.fbanks) /\ r.fbanks[r.current] = p[1]
      <3>1. PICK done : done = Heard(active, q, j)
        OBVIOUS
      <3>2. PICK more : more = Heard(active, q, j + 1)
        OBVIOUS
      <3>3. Waits(st.pending, st.out, Grid(len, n), done)
        BY <2>7, <3>1
      <3>4. Adds(done, more, active, p)
        BY <2>8, <3>1, <3>2 DEF Adds
      <3>5. SplitAt(st, done, p, len, n)
        BY <2>7, <3>3 DEF SplitAt
      <3>6. SplitPast(r, more, p, len, n)
        BY <2>4, <2>5, <3>4, <3>5, SplitStepAligned
      <3> QED
        BY <3>2, <3>6 DEF SplitPast
    <2>10. ASSUME j + 1 < m PROVE Continues(r, q[(j + 1) + 1])
      <3>1. j + 1 \in 1..m - 1
        BY <2>10
      <3>2. IF p[2] + 1 < n THEN q[(j + 1) + 1] = <<p[1], p[2] + 1>> ELSE q[(j + 1) + 1][2] = 0
        BY <2>3, <3>1 DEF InOrderOfLoops
      <3>3. CASE p[2] + 1 < n
        <4>1. q[(j + 1) + 1][1] = p[1]
          BY <3>2, <3>3
        <4> QED
          BY <2>9, <3>3, <4>1 DEF Continues
      <3>4. CASE ~(p[2] + 1 < n)
        BY <3>2, <3>4 DEF Continues
      <3> QED
        BY <3>3, <3>4
    <2> QED
      BY <2>6, <2>9, <2>10 DEF SplitInv
  <1> HIDE DEF S
  <1>3. m \in S
    BY <1>1, <1>2, NatSetInduction
  <1> QED
    BY <1>3 DEF S

LEMMA SplitAligned ==
  ASSUME NEW len \in Nat, NEW n \in Nat, NEW active, DOMAIN active = 1..len,
         NumSpeakers(active) = n, NEW batchSize
  PROVE  Aligned(ExtractSplit(active, batchSize), Grid(len, n), Speaking(active, len, n))
  <1>1. PICK q : q = Positions(active)
    OBVIOUS
  <1>2. PICK m \in Nat : q \in Seq(Grid(len, n)) /\ DOMAIN q = 1..m /\ InOrderOfLoops(q, m, len, n)
    BY <1>1, PositionsInOrder
  <1>3. PICK run : /\ FoldRun(run, "split", <<active, batchSize>>, NoneSplit(active), q, m)
                   /\ ExtractSplit(active, batchSize) = Embedded(run[m].out, Resolved(run[m]))
    BY <1>1, <1>2, SplitFolds
  <1>4. PICK st : st = run[m]
    OBVIOUS
  <1>5. SplitInv(st, active, q, m, m, len, n)
    BY <1>1, <1>2, <1>3, <1>4, SplitRunAligned
  <1>6. SplitState(st, len, n) /\ Waits(st.pending, st.out, Grid(len, n), Speaking(active, len, n))
    BY <1>2, <1>5, HeardAll DEF SplitInv, InOrderOfLoops
  <1>7. Aligned(Embedded(st.out, Resolved(st)), Grid(len, n), Speaking(active, len, n))
    BY <1>6, ResolvedAligned, WaitersFlushed
  <1> QED
    BY <1>3, <1>4, <1>7

(* The loop of ExtractMasked.                                              *)
NoneMasked(active) == [pending |-> <<>>, out |-> NoEmbeddings(active)]

LEMMA MaskedFolds ==
  ASSUME NEW active, NEW batchSize, NEW largest, NEW m \in Nat, NEW q, q = Positions(active), DOMAIN q = 1..m
  PROVE  \E run : /\ FoldRun(run, "masked", <<active, batchSize>>, NoneMasked(active), q, m)
                  /\ ExtractMasked(active, batchSize, largest)
                       = FlushRest(run[m].out, LastBatches(run[m].pending, largest))
  <1> DEFINE base == [pending |-> <<>>, out |-> NoEmbeddings(active)]
             body(t) == [s \in SUBSET (1..m) |->
                           IF s = {} THEN base
                           ELSE MaskedStep(active, batchSize, t[s \ {Max(s)}], q[Max(s)])]
             it == CHOOSE t : t = body(t)
             ctx == <<active, batchSize>>
  <1>1. ExtractMasked(active, batchSize, largest) = FlushRest(it[1..m].out, LastBatches(it[1..m].pending, largest))
    BY DEF ExtractMasked, FoldLeft, MapThenFoldSet
  <1>2. \A acc, x : FoldStep("masked", ctx, acc, x) = MaskedStep(active, batchSize, acc, x)
    BY DEF FoldStep
  <1> HIDE DEF ctx, base
  <1>3. PICK t : FoldTable(t, "masked", ctx, base, q, SUBSET (1..m))
    BY FoldTablesExist
  <1>4. t = body(t)
    BY <1>2, <1>3 DEF FoldTable
  <1>5. it = body(it)
    <2> HIDE DEF body
    <2> QED
      BY <1>4
  <1> HIDE DEF it
  <1>6. FoldTable(it, "masked", ctx, base, q, SUBSET (1..m))
    BY <1>2, <1>5, ZenonT(30) DEF FoldTable
  <1> HIDE DEF body
  <1>7. PICK run : FoldRun(run, "masked", ctx, base, q, m) /\ run[m] = it[1..m]
    BY <1>6, FoldTableRuns DEF RunsTo
  <1>8. ExtractMasked(active, batchSize, largest) = FlushRest(run[m].out, LastBatches(run[m].pending, largest))
    BY <1>1, <1>7
  <1> QED
    BY <1>7, <1>8 DEF ctx, base, NoneMasked

IsListOf(q, m) == DOMAIN q = 1..m

LEMMA RestFolds ==
  ASSUME NEW base, NEW m \in Nat, NEW q, IsListOf(q, m)
  PROVE  \E run : FoldRun(run, "rest", <<>>, base, q, m) /\ FlushRest(base, q) = run[m]
  <1> DEFINE body(t) == [s \in SUBSET (1..m) |->
                           IF s = {} THEN base
                           ELSE FlushMasked(t[s \ {Max(s)}], q[Max(s)])]
             it == CHOOSE t : t = body(t)
             ctx == <<>>
  <1>1. FlushRest(base, q) = it[1..m]
    BY DEF FlushRest, FoldLeft, MapThenFoldSet, IsListOf
  <1>2. \A acc, x : FoldStep("rest", ctx, acc, x) = FlushMasked(acc, x)
    BY DEF FoldStep
  <1> HIDE DEF ctx
  <1>3. PICK t : FoldTable(t, "rest", ctx, base, q, SUBSET (1..m))
    BY FoldTablesExist
  <1>4. t = body(t)
    BY <1>2, <1>3 DEF FoldTable
  <1>5. it = body(it)
    <2> HIDE DEF body
    <2> QED
      BY <1>4
  <1> HIDE DEF it
  <1>6. FoldTable(it, "rest", ctx, base, q, SUBSET (1..m))
    BY <1>2, <1>5 DEF FoldTable
  <1> HIDE DEF body
  <1>7. PICK run : FoldRun(run, "rest", ctx, base, q, m) /\ run[m] = it[1..m]
    <2>1. RunsTo(it[1..m], "rest", ctx, base, q, m)
      BY <1>6, FoldTableRuns
    <2> QED
      BY <2>1 DEF RunsTo
  <1>8. FlushRest(base, q) = run[m]
    BY <1>1, <1>7
  <1> QED
    BY <1>7, <1>8 DEF ctx

LEMMA FlushAligned ==
  ASSUME NEW len \in Nat, NEW n \in Nat, NEW D, NEW embs, Aligned(embs, Grid(len, n), D),
         NEW batch, Range(batch) \subseteq Grid(len, n)
  PROVE  Aligned(FlushMasked(embs, batch), Grid(len, n), D \cup Range(batch))
  <1> DEFINE item(p) == [at |-> p, features |-> p[1], mask |-> p[2]]
             items == {item(p) : p \in Range(batch)}
  <1>1. FlushMasked(embs, batch) = Embedded(embs, items)
    BY DEF FlushMasked
  <1>2. \A p : item(p).at = p
    OBVIOUS
  <1>3. \A i \in items : ItemAligned(i, Grid(len, n))
    BY DEF ItemAligned
  <1>4. {i.at : i \in items} = Range(batch)
    <2> HIDE DEF item
    <2> QED
      BY <1>2
  <1> HIDE DEF items
  <1>5. Aligned(Embedded(embs, items), Grid(len, n), D \cup {i.at : i \in items})
    BY <1>3, EmbeddedAligned
  <1> QED
    BY <1>1, <1>4, <1>5

WaitsMasked(pending, embs, All, done) ==
  \E D : Aligned(embs, All, D) /\ D \cup Range(pending) = done
MaskedInv(st, done, len, n) ==
  st.pending \in Seq(Grid(len, n)) /\ WaitsMasked(st.pending, st.out, Grid(len, n), done)

LEMMA RangeInside ==
  ASSUME NEW X, NEW s \in Seq(X)
  PROVE  Range(s) \subseteq X
  BY RangeTyped

LEMMA MaskedStepAligned ==
  ASSUME NEW len \in Nat, NEW n \in Nat, NEW active, NEW batchSize, NEW st, NEW done,
         MaskedInv(st, done, len, n), NEW p \in Grid(len, n), NEW more, Adds(done, more, active, p)
  PROVE  MaskedInv(MaskedStep(active, batchSize, st, p), more, len, n)
  <1>1. PICK X : X = Grid(len, n)
    OBVIOUS
  <1>2. PICK D : Aligned(st.out, X, D) /\ D \cup Range(st.pending) = done
    BY <1>1 DEF MaskedInv, WaitsMasked
  <1>3. PICK pending : pending = Append(st.pending, p)
    OBVIOUS
  <1>4. st.pending \in Seq(X) /\ p \in X
    BY <1>1 DEF MaskedInv
  <1>5. pending \in Seq(X) /\ Range(pending) = Range(st.pending) \cup {p}
    BY <1>3, <1>4, RangeAppends
  <1>6. PICK r : r = MaskedStep(active, batchSize, st, p)
    OBVIOUS
  <1>7. CASE ~active[p[1]][p[2]]
    <2>1. r = st /\ more = done
      BY <1>6, <1>7 DEF MaskedStep, Adds
    <2> QED
      BY <1>6, <2>1
  <1>8. CASE active[p[1]][p[2]] /\ Len(pending) = batchSize
    <2>1. r = [pending |-> <<>>, out |-> FlushMasked(st.out, pending)]
      BY <1>3, <1>6, <1>8 DEF MaskedStep
    <2>2. more = done \cup {p}
      BY <1>8 DEF Adds
    <2>3. Range(pending) \subseteq Grid(len, n)
      BY <1>1, <1>5, RangeInside
    <2>4. Aligned(FlushMasked(st.out, pending), X, D \cup Range(pending))
      BY <1>1, <1>2, <2>3, FlushAligned
    <2>5. D \cup Range(pending) = more
      BY <1>2, <1>5, <2>2
    <2>6. Range(<<>>) = {} /\ <<>> \in Seq(X)
      BY DEF Range
    <2>7. more \cup {} = more
      OBVIOUS
    <2>8. r.pending = <<>> /\ r.out = FlushMasked(st.out, pending)
      BY <2>1
    <2>9. WaitsMasked(r.pending, r.out, X, more)
      BY <2>4, <2>5, <2>6, <2>7, <2>8 DEF WaitsMasked
    <2> QED
      BY <1>1, <1>6, <2>6, <2>8, <2>9 DEF MaskedInv
  <1>9. CASE active[p[1]][p[2]] /\ Len(pending) # batchSize
    <2>1. r = [pending |-> pending, out |-> st.out]
      BY <1>3, <1>6, <1>9 DEF MaskedStep
    <2>2. more = done \cup {p}
      BY <1>9 DEF Adds
    <2>3. D \cup Range(pending) = more
      BY <1>2, <1>5, <2>2
    <2>4. r.pending = pending /\ r.out = st.out
      BY <2>1
    <2>5. WaitsMasked(r.pending, r.out, X, more)
      BY <1>2, <2>3, <2>4 DEF WaitsMasked
    <2> QED
      BY <1>1, <1>5, <1>6, <2>4, <2>5 DEF MaskedInv
  <1> QED
    BY <1>7, <1>8, <1>9

LEMMA MaskedRunAligned ==
  ASSUME NEW len \in Nat, NEW n \in Nat, NEW active, NEW batchSize,
         NEW m \in Nat, NEW q \in Seq(Grid(len, n)), q = Positions(active), DOMAIN q = 1..m,
         InOrderOfLoops(q, m, len, n), NEW run,
         FoldRun(run, "masked", <<active, batchSize>>, NoneMasked(active), q, m)
  PROVE  MaskedInv(run[m], Heard(active, q, m), len, n)
  <1> DEFINE S == {j \in Nat : j <= m => MaskedInv(run[j], Heard(active, q, j), len, n)}
  <1>1. 0 \in S
    <2>1. run[0] = NoneMasked(active)
      BY DEF FoldRun
    <2>2. PICK st : st = run[0]
      OBVIOUS
    <2>3. st.pending = <<>> /\ st.out = NoEmbeddings(active)
      BY <2>1, <2>2 DEF NoneMasked
    <2>4. Range(<<>>) = {} /\ \A X : <<>> \in Seq(X)
      BY DEF Range
    <2>5. Aligned(NoEmbeddings(active), Grid(len, n), {})
      BY NoneAligned DEF InOrderOfLoops
    <2>6. Heard(active, q, 0) = {} /\ {} \cup {} = {}
      BY HeardNone
    <2>7. WaitsMasked(<<>>, NoEmbeddings(active), Grid(len, n), {})
      BY <2>4, <2>5, <2>6 DEF WaitsMasked
    <2>8. MaskedInv(st, {}, len, n)
      BY <2>3, <2>4, <2>7 DEF MaskedInv
    <2> QED
      BY <2>2, <2>6, <2>8
  <1>2. ASSUME NEW j \in Nat, j \in S PROVE j + 1 \in S
    <2> SUFFICES ASSUME j + 1 <= m PROVE MaskedInv(run[j + 1], Heard(active, q, j + 1), len, n)
      OBVIOUS
    <2>1. MaskedInv(run[j], Heard(active, q, j), len, n) /\ j \in 0..m - 1 /\ j + 1 \in 1..m
      BY <1>2
    <2>2. PICK st : st = run[j]
      OBVIOUS
    <2>3. PICK p : p = q[j + 1]
      OBVIOUS
    <2>4. p \in Grid(len, n)
      BY <2>1, <2>3, ElementOfSeq, LenProperties
    <2>5. PICK r : r = MaskedStep(active, batchSize, st, p)
      OBVIOUS
    <2>6. run[j + 1] = r
      <3>1. FoldStep("masked", <<active, batchSize>>, st, p) = r
        BY <2>5 DEF FoldStep
      <3>2. run[j + 1] = FoldStep("masked", <<active, batchSize>>, run[j], q[j + 1])
        BY <2>1 DEF FoldRun
      <3> QED
        BY <2>2, <2>3, <3>1, <3>2
    <2>7. PICK done : done = Heard(active, q, j)
      OBVIOUS
    <2>8. PICK more : more = Heard(active, q, j + 1)
      OBVIOUS
    <2>9. more = done \cup (IF active[p[1]][p[2]] THEN {p} ELSE {})
      BY <2>3, <2>7, <2>8, HeardGrows
    <2>10. Adds(done, more, active, p)
      BY <2>9 DEF Adds
    <2>11. MaskedInv(st, done, len, n)
      BY <2>1, <2>2, <2>7
    <2>12. MaskedInv(r, more, len, n)
      BY <2>4, <2>5, <2>10, <2>11, MaskedStepAligned
    <2> QED
      BY <2>6, <2>8, <2>12
  <1> HIDE DEF S
  <1>3. m \in S
    BY <1>1, <1>2, NatSetInduction
  <1> QED
    BY <1>3 DEF S

(* What the rest is cut into.                                              *)
Members(b) == UNION {Range(b[i]) : i \in DOMAIN b}
LastOnes(s, k) == {s[i] : i \in Len(s) - k + 1..Len(s)}
CutsOff(b, s, k, X) == b \in Seq(Seq(X)) /\ Members(b) = LastOnes(s, k)
BatchFor(largest, k) == IF k >= largest THEN largest ELSE 1
CutTable(f, s, largest, n) ==
  f = [k \in 0..n |->
         IF k = 0 THEN <<>>
         ELSE <<SubSeq(s, Len(s) - k + 1, Len(s) - k + BatchFor(largest, k))>>
                \o f[k - BatchFor(largest, k)]]

LEMMA CutTablesExist ==
  ASSUME NEW s, NEW largest \in Nat \ {0}, NEW m \in Nat
  PROVE  \E f : CutTable(f, s, largest, m)
  <1> DEFINE N == {n \in Nat : \E f : CutTable(f, s, largest, n)}
             piece(k) == <<SubSeq(s, Len(s) - k + 1, Len(s) - k + BatchFor(largest, k))>>
             less(k) == k - BatchFor(largest, k)
  <1>1. \A k \in Nat \ {0} : less(k) \in 0..k - 1
    BY DEF BatchFor
  <1>2. \A f, n : CutTable(f, s, largest, n)
                    <=> f = [k \in 0..n |-> IF k = 0 THEN <<>> ELSE piece(k) \o f[less(k)]]
    BY DEF CutTable
  <1> HIDE DEF piece, less
  <1>3. 0 \in N
    <2> DEFINE f == [k \in 0..0 |-> <<>>]
    <2>1. f = [k \in 0..0 |-> IF k = 0 THEN <<>> ELSE piece(k) \o f[less(k)]]
      OBVIOUS
    <2> HIDE DEF f
    <2> QED
      BY <1>2, <2>1
  <1>4. ASSUME NEW n \in Nat, n \in N PROVE n + 1 \in N
    <2>1. PICK f : CutTable(f, s, largest, n)
      BY <1>4
    <2> DEFINE big == [k \in 0..n + 1 |-> IF k = 0 THEN <<>> ELSE piece(k) \o f[less(k)]]
    <2>2. \A k \in 0..n : f[k] = big[k]
      <3>1. f = [k \in 0..n |-> IF k = 0 THEN <<>> ELSE piece(k) \o f[less(k)]]
        BY <1>2, <2>1
      <3>2. \A k \in 0..n : f[k] = IF k = 0 THEN <<>> ELSE piece(k) \o f[less(k)]
        BY <3>1
      <3>3. \A k \in 0..n : k \in 0..n + 1
        OBVIOUS
      <3>4. \A k \in 0..n + 1 : big[k] = IF k = 0 THEN <<>> ELSE piece(k) \o f[less(k)]
        OBVIOUS
      <3> HIDE DEF big
      <3> QED
        BY <3>2, <3>3, <3>4
    <2>3. \A k \in 0..n + 1 : k # 0 => less(k) \in 0..n
      BY <1>1
    <2>4. \A k \in 0..n + 1 : k # 0 => f[less(k)] = big[less(k)]
      <3> HIDE DEF big
      <3> QED
        BY <2>2, <2>3
    <2>5. big = [k \in 0..n + 1 |-> IF k = 0 THEN <<>> ELSE piece(k) \o big[less(k)]]
      <3>1. big = [k \in 0..n + 1 |-> IF k = 0 THEN <<>> ELSE piece(k) \o f[less(k)]]
        OBVIOUS
      <3> HIDE DEF big
      <3> QED
        BY <2>4, <3>1
    <2> HIDE DEF big
    <2>6. CutTable(big, s, largest, n + 1)
      BY <1>2, <2>5
    <2> QED
      BY <2>6
  <1> HIDE DEF N
  <1>5. m \in N
    BY <1>3, <1>4, NatSetInduction
  <1> QED
    BY <1>5 DEF N

LEMMA MembersBefore ==
  ASSUME NEW X, NEW x \in Seq(X), NEW b \in Seq(Seq(X))
  PROVE  <<x>> \o b \in Seq(Seq(X)) /\ Members(<<x>> \o b) = Range(x) \cup Members(b)
  <1>1. PICK m \in Nat : m = Len(b) /\ DOMAIN b = 1..m
    BY LenProperties
  <1>2. <<x>> \in Seq(Seq(X)) /\ Len(<<x>>) = 1 /\ <<x>>[1] = x
    OBVIOUS
  <1>3. <<x>> \o b \in Seq(Seq(X)) /\ IsConcat(<<x>>, b, 1, m)
    BY <1>1, <1>2, ConcatFunction
  <1>4. PICK r : r = <<x>> \o b
    OBVIOUS
  <1>5. r = [i \in 1..1 + m |-> IF i <= 1 THEN <<x>>[i] ELSE b[i - 1]]
    BY <1>3, <1>4 DEF IsConcat
  <1>6. DOMAIN r = 1..m + 1 /\ r[1] = x /\ \A i \in 1..m : r[i + 1] = b[i]
    BY <1>2, <1>5
  <1>7. \A i \in 1..m + 1 : i = 1 \/ (i - 1 \in 1..m /\ (i - 1) + 1 = i)
    OBVIOUS
  <1>8. 1 \in 1..m + 1 /\ \A i \in 1..m : i + 1 \in 1..m + 1
    OBVIOUS
  <1>9. \A e : e \in Members(r) <=> e \in Range(x) \/ e \in Members(b)
    <2>1. ASSUME NEW e, e \in Members(r) PROVE e \in Range(x) \/ e \in Members(b)
      <3>1. PICK i \in 1..m + 1 : e \in Range(r[i])
        BY <1>6, <2>1 DEF Members
      <3> QED
        BY <1>1, <1>6, <1>7, <3>1 DEF Members
    <2>2. ASSUME NEW e, e \in Range(x) PROVE e \in Members(r)
      BY <1>6, <1>8, <2>2 DEF Members
    <2>3. ASSUME NEW e, e \in Members(b) PROVE e \in Members(r)
      <3>1. PICK i \in 1..m : e \in Range(b[i])
        BY <1>1, <2>3 DEF Members
      <3> QED
        BY <1>6, <1>8, <3>1 DEF Members
    <2> QED
      BY <2>1, <2>2, <2>3
  <1> QED
    BY <1>3, <1>4, <1>9

LEMMA CutCovers ==
  ASSUME NEW X, NEW s \in Seq(X), NEW largest \in Nat \ {0}, NEW m \in Nat, m = Len(s),
         NEW f, CutTable(f, s, largest, m)
  PROVE  CutsOff(f[m], s, m, X)
  <1> DEFINE N == {n \in Nat : n <= m => \A k \in 0..n : CutsOff(f[k], s, k, X)}
  <1>1. \A k \in 0..m : f[k] = IF k = 0 THEN <<>>
                               ELSE <<SubSeq(s, m - k + 1, m - k + BatchFor(largest, k))>>
                                      \o f[k - BatchFor(largest, k)]
    BY DEF CutTable
  <1>2. CutsOff(f[0], s, 0, X)
    <2>1. f[0] = <<>> /\ <<>> \in Seq(Seq(X))
      <3>1. \A k \in 0..m : k = 0 => f[k] = <<>>
        BY <1>1
      <3>2. 0 \in 0..m /\ \A Y : <<>> \in Seq(Y)
        OBVIOUS
      <3>3. f[0] = <<>>
        BY <3>1, <3>2
      <3> QED
        BY <3>2, <3>3
    <2>2. Members(<<>>) = {}
      BY DEF Members
    <2>3. LastOnes(s, 0) = {}
      BY DEF LastOnes
    <2> QED
      BY <2>1, <2>2, <2>3 DEF CutsOff
  <1>3. 0 \in N
    BY <1>2
  <1>4. ASSUME NEW n \in Nat, n \in N PROVE n + 1 \in N
    <2> SUFFICES ASSUME n + 1 <= m PROVE CutsOff(f[n + 1], s, n + 1, X)
      <3>1. n + 1 <= m => \A k \in 0..n : CutsOff(f[k], s, k, X)
        BY <1>4
      <3>2. \A k \in 0..n + 1 : k \in 0..n \/ k = n + 1
        OBVIOUS
      <3> QED
        BY <3>1, <3>2
    <2>1. PICK k \in Nat : k = n + 1 /\ k \in 0..m /\ k # 0
      OBVIOUS
    <2>2. PICK h : h = BatchFor(largest, k)
      OBVIOUS
    <2>3. h \in 1..k /\ k - h \in 0..n
      BY <2>1, <2>2 DEF BatchFor
    <2>4. PICK a \in Nat : a = m - k
      <3>1. m - k \in Nat
        BY <2>1
      <3> QED
        BY <3>1
    <2>5. PICK piece : piece = SubSeq(s, a + 1, a + h)
      OBVIOUS
    <2>6. PICK rest : rest = f[k - h]
      OBVIOUS
    <2>7. f[k] = <<piece>> \o rest
      BY <1>1, <2>1, <2>2, <2>4, <2>5, <2>6
    <2>8. CutsOff(rest, s, k - h, X)
      BY <1>4, <2>3, <2>6
    <2>9. piece \in Seq(X) /\ Range(piece) = {s[i] : i \in a + 1..a + h}
      <3>1. h \in Nat /\ a \in Nat /\ a + h <= Len(s) /\ s \in Seq(X)
        BY <2>1, <2>3, <2>4
      <3>2. IsPiece(piece, s, a, h)
        BY <2>5 DEF IsPiece
      <3>3. piece \in Seq(X) /\ Range(piece) = Between(s, a, h)
        BY <3>1, <3>2, SubSeqMembers
      <3> QED
        BY <3>3 DEF Between
    <2>10. f[k] \in Seq(Seq(X)) /\ Members(f[k]) = Range(piece) \cup Members(rest)
      BY <2>7, <2>8, <2>9, MembersBefore DEF CutsOff
    <2>11. Range(piece) \cup LastOnes(s, k - h) = LastOnes(s, k)
      <3>1. LastOnes(s, k - h) = {s[i] : i \in a + h + 1..m} /\ LastOnes(s, k) = {s[i] : i \in a + 1..m}
        <4>1. Len(s) - (k - h) + 1 = a + h + 1 /\ Len(s) - k + 1 = a + 1
          BY <2>1, <2>3, <2>4
        <4> QED
          BY <4>1 DEF LastOnes
      <3>2. \A i \in a + 1..m : i \in a + 1..a + h \/ i \in a + h + 1..m
        BY <2>3
      <3>3. (\A i \in a + 1..a + h : i \in a + 1..m) /\ \A i \in a + h + 1..m : i \in a + 1..m
        BY <2>1, <2>3, <2>4
      <3> QED
        BY <2>9, <3>1, <3>2, <3>3
    <2> QED
      BY <2>1, <2>8, <2>10, <2>11 DEF CutsOff
  <1> HIDE DEF N
  <1>5. m \in N
    BY <1>3, <1>4, NatSetInduction
  <1> QED
    BY <1>5 DEF N

LEMMA LastBatchesCover ==
  ASSUME NEW X, NEW s \in Seq(X), NEW largest \in Nat \ {0}
  PROVE  LastBatches(s, largest) \in Seq(Seq(X)) /\ Members(LastBatches(s, largest)) = Range(s)
  <1>1. PICK m \in Nat : m = Len(s) /\ DOMAIN s = 1..m
    BY LenProperties
  <1> DEFINE best(k) == IF k >= largest THEN largest ELSE 1
             from(k) == Len(s) - k
             body(t) == [k \in 0..Len(s) |->
                           IF k = 0 THEN <<>>
                           ELSE <<SubSeq(s, from(k) + 1, from(k) + best(k))>> \o t[k - best(k)]]
             cut == CHOOSE t : t = body(t)
  <1>2. LastBatches(s, largest) = cut[Len(s)]
    BY DEF LastBatches
  <1>3. \A t : CutTable(t, s, largest, m) <=> t = body(t)
    BY <1>1 DEF CutTable, BatchFor
  <1>4. PICK t : CutTable(t, s, largest, m)
    BY CutTablesExist
  <1>5. cut = body(cut)
    <2>1. t = body(t)
      BY <1>3, <1>4
    <2> HIDE DEF body
    <2> QED
      BY <2>1
  <1> HIDE DEF body, cut
  <1>6. CutsOff(cut[m], s, m, X)
    <2>1. PICK f : f = cut
      OBVIOUS
    <2>2. CutTable(f, s, largest, m)
      BY <1>3, <1>5, <2>1
    <2>3. CutsOff(f[m], s, m, X)
      BY <1>1, <2>2, CutCovers
    <2> QED
      BY <2>1, <2>3
  <1>7. LastOnes(s, m) = Range(s)
    BY <1>1 DEF LastOnes, Range
  <1> QED
    BY <1>1, <1>2, <1>6, <1>7 DEF CutsOff

(* What the batches flushed at the end add.                                *)
FirstMembers(b, j) == UNION {Range(b[i]) : i \in 1..j}

LEMMA RestAligned ==
  ASSUME NEW len \in Nat, NEW n \in Nat, NEW D, NEW base, Aligned(base, Grid(len, n), D),
         NEW b \in Seq(Seq(Grid(len, n)))
  PROVE  Aligned(FlushRest(base, b), Grid(len, n), D \cup Members(b))
  <1>1. PICK m \in Nat : m = Len(b) /\ DOMAIN b = 1..m
    BY LenProperties
  <1>2. PICK run : FoldRun(run, "rest", <<>>, base, b, m) /\ FlushRest(base, b) = run[m]
    <2>1. IsListOf(b, m)
      BY <1>1 DEF IsListOf
    <2> QED
      BY <2>1, RestFolds
  <1> DEFINE S == {j \in Nat : j <= m => Aligned(run[j], Grid(len, n), D \cup FirstMembers(b, j))}
  <1>3. 0 \in S
    <2>1. FirstMembers(b, 0) = {}
      BY DEF FirstMembers
    <2>2. run[0] = base /\ D \cup {} = D
      BY <1>2 DEF FoldRun
    <2> QED
      BY <2>1, <2>2
  <1>4. ASSUME NEW j \in Nat, j \in S PROVE j + 1 \in S
    <2> SUFFICES ASSUME j + 1 <= m PROVE Aligned(run[j + 1], Grid(len, n), D \cup FirstMembers(b, j + 1))
      OBVIOUS
    <2>1. Aligned(run[j], Grid(len, n), D \cup FirstMembers(b, j)) /\ j \in 0..m - 1 /\ j + 1 \in 1..m
      BY <1>4
    <2>2. PICK batch : batch = b[j + 1]
      OBVIOUS
    <2>3. PICK st : st = run[j]
      OBVIOUS
    <2>4. PICK r : r = FlushMasked(st, batch)
      OBVIOUS
    <2>5. run[j + 1] = r
      <3>1. FoldStep("rest", <<>>, st, batch) = r
        BY <2>4 DEF FoldStep
      <3>2. run[j + 1] = FoldStep("rest", <<>>, run[j], b[j + 1])
        BY <1>2, <2>1 DEF FoldRun
      <3> QED
        BY <2>2, <2>3, <3>1, <3>2
    <2>6. Range(batch) \subseteq Grid(len, n)
      <3>1. PICK X : X = Grid(len, n)
        OBVIOUS
      <3>2. batch \in Seq(X)
        <4>1. PICK Y : Y = Seq(X)
          OBVIOUS
        <4>2. b \in Seq(Y) /\ j + 1 \in 1..Len(b)
          BY <1>1, <2>1, <3>1, <4>1
        <4> QED
          BY <2>2, <4>1, <4>2, ElementOfSeq
      <3> QED
        BY <3>1, <3>2, RangeInside
    <2>7. PICK E : E = D \cup FirstMembers(b, j)
      OBVIOUS
    <2>8. Aligned(st, Grid(len, n), E)
      BY <2>1, <2>3, <2>7
    <2>9. Aligned(r, Grid(len, n), E \cup Range(batch))
      BY <2>4, <2>6, <2>8, FlushAligned
    <2>10. FirstMembers(b, j + 1) = FirstMembers(b, j) \cup Range(batch)
      <3>1. \A i \in 1..j + 1 : i \in 1..j \/ i = j + 1
        OBVIOUS
      <3>2. (\A i \in 1..j : i \in 1..j + 1) /\ j + 1 \in 1..j + 1
        OBVIOUS
      <3> QED
        BY <2>2, <3>1, <3>2 DEF FirstMembers
    <2>11. E \cup Range(batch) = D \cup FirstMembers(b, j + 1)
      BY <2>7, <2>10
    <2> QED
      BY <2>5, <2>9, <2>11
  <1> HIDE DEF S
  <1>5. m \in S
    BY <1>3, <1>4, NatSetInduction
  <1>6. FirstMembers(b, m) = Members(b)
    BY <1>1 DEF FirstMembers, Members
  <1> QED
    BY <1>2, <1>5, <1>6 DEF S

LEMMA MaskedAligned ==
  ASSUME NEW len \in Nat, NEW n \in Nat, NEW active, DOMAIN active = 1..len,
         NumSpeakers(active) = n, NEW batchSize, NEW largest \in Nat \ {0}
  PROVE  Aligned(ExtractMasked(active, batchSize, largest), Grid(len, n), Speaking(active, len, n))
  <1>1. PICK q : q = Positions(active)
    OBVIOUS
  <1>2. PICK m \in Nat : q \in Seq(Grid(len, n)) /\ DOMAIN q = 1..m /\ InOrderOfLoops(q, m, len, n)
    BY <1>1, PositionsInOrder
  <1>3. PICK run : /\ FoldRun(run, "masked", <<active, batchSize>>, NoneMasked(active), q, m)
                   /\ ExtractMasked(active, batchSize, largest)
                        = FlushRest(run[m].out, LastBatches(run[m].pending, largest))
    BY <1>1, <1>2, MaskedFolds
  <1>4. PICK st : st = run[m]
    OBVIOUS
  <1>5. MaskedInv(st, Heard(active, q, m), len, n)
    BY <1>1, <1>2, <1>3, <1>4, MaskedRunAligned
  <1>6. Heard(active, q, m) = Speaking(active, len, n)
    BY <1>2, HeardAll DEF InOrderOfLoops
  <1>7. MaskedInv(st, Speaking(active, len, n), len, n)
    BY <1>5, <1>6
  <1>8. PICK D : Aligned(st.out, Grid(len, n), D) /\ D \cup Range(st.pending) = Speaking(active, len, n)
    BY <1>7 DEF MaskedInv, WaitsMasked
  <1>9. PICK b : b = LastBatches(st.pending, largest)
    OBVIOUS
  <1>10. b \in Seq(Seq(Grid(len, n))) /\ Members(b) = Range(st.pending)
    <2>1. PICK X : X = Grid(len, n)
      OBVIOUS
    <2>2. st.pending \in Seq(X)
      BY <1>7, <2>1 DEF MaskedInv
    <2>3. b \in Seq(Seq(X)) /\ Members(b) = Range(st.pending)
      BY <1>9, <2>2, LastBatchesCover
    <2> QED
      BY <2>1, <2>3
  <1>11. Aligned(FlushRest(st.out, b), Grid(len, n), D \cup Members(b))
    <2>1. PICK base : base = st.out
      OBVIOUS
    <2>2. Aligned(base, Grid(len, n), D)
      BY <1>8, <2>1
    <2>3. Aligned(FlushRest(base, b), Grid(len, n), D \cup Members(b))
      BY <1>10, <2>2, RestAligned
    <2> QED
      BY <2>1, <2>3
  <1> QED
    BY <1>3, <1>4, <1>8, <1>9, <1>10, <1>11

(* The loop of ExtractMultiMask.                                           *)
ChunkTurns(active) == [c \in DOMAIN active |-> c]
NoneMulti(active) == [chunks |-> <<>>, masks |-> <<>>, out |-> NoEmbeddings(active)]

LEMMA MultiFolds ==
  ASSUME NEW active, NEW batchSize, NEW m \in Nat, NEW q, q = ChunkTurns(active), DOMAIN q = 1..m
  PROVE  \E run : /\ FoldRun(run, "multi", <<active, batchSize>>, NoneMulti(active), q, m)
                  /\ ExtractMultiMask(active, batchSize) = FlushMultiMask(active, run[m].out, run[m])
  <1> DEFINE base == [chunks |-> <<>>, masks |-> <<>>, out |-> NoEmbeddings(active)]
             body(t) == [s \in SUBSET (1..m) |->
                           IF s = {} THEN base
                           ELSE MultiMaskStep(active, batchSize, t[s \ {Max(s)}], q[Max(s)])]
             it == CHOOSE t : t = body(t)
             ctx == <<active, batchSize>>
  <1>1. ExtractMultiMask(active, batchSize) = FlushMultiMask(active, it[1..m].out, it[1..m])
    BY DEF ExtractMultiMask, FoldLeft, MapThenFoldSet, ChunkTurns
  <1>2. \A acc, x : FoldStep("multi", ctx, acc, x) = MultiMaskStep(active, batchSize, acc, x)
    BY DEF FoldStep
  <1> HIDE DEF ctx, base
  <1>3. PICK t : FoldTable(t, "multi", ctx, base, q, SUBSET (1..m))
    BY FoldTablesExist
  <1>4. t = body(t)
    BY <1>2, <1>3 DEF FoldTable
  <1>5. it = body(it)
    <2> HIDE DEF body
    <2> QED
      BY <1>4
  <1> HIDE DEF it
  <1>6. FoldTable(it, "multi", ctx, base, q, SUBSET (1..m))
    BY <1>2, <1>5, ZenonT(30) DEF FoldTable
  <1> HIDE DEF body
  <1>7. PICK run : FoldRun(run, "multi", ctx, base, q, m) /\ run[m] = it[1..m]
    BY <1>6, FoldTableRuns DEF RunsTo
  <1>8. ExtractMultiMask(active, batchSize) = FlushMultiMask(active, run[m].out, run[m])
    BY <1>1, <1>7
  <1> QED
    BY <1>7, <1>8 DEF ctx, base, NoneMulti

(* Row b * n + s of the masks is that of speaker s of the chunk in row b.  *)
MaskOf(active, c, s) == IF active[c][s] THEN s ELSE NoMask
Filled(masks, chunks, active, n) ==
  /\ masks \in Seq(Int) /\ Cells(Len(masks), Len(chunks), n)
  /\ \A b \in 0..Len(chunks) - 1, s \in 0..n - 1, j \in Nat :
       IsPlace(j, b, s, n) => masks[j] = MaskOf(active, chunks[b + 1], s)
SpeakingIn(C, active, n) == {p \in C \X (0..n - 1) : active[p[1]][p[2]]}
MultiInv(st, done, active, len, n) ==
  /\ st.chunks \in Seq(1..len)
  /\ Filled(st.masks, st.chunks, active, n)
  /\ \E D : Aligned(st.out, Grid(len, n), D)
            /\ D \cup SpeakingIn(Range(st.chunks), active, n) = SpeakingIn(done, active, n)

LEMMA RowOf ==
  ASSUME NEW n \in Nat \ {0}, NEW a \in Nat, NEW s \in 0..n - 1, NEW j, IsPlace(j, a, s, n)
  PROVE  j \in Nat /\ (j - 1) \div n = a
  <1>1. PICK x : x = a * n + s
    OBVIOUS
  <1>2. x \in Nat /\ x \div n = a
    BY <1>1, DivModUnique
  <1>3. j = x + 1
    BY <1>1 DEF IsPlace
  <1> QED
    BY <1>2, <1>3

LEMMA MultiFlushed ==
  ASSUME NEW len \in Nat, NEW n \in Nat, NEW active, NumSpeakers(active) = n, NEW D, NEW base,
         Aligned(base, Grid(len, n), D), NEW st, st.chunks \in Seq(1..len),
         Filled(st.masks, st.chunks, active, n)
  PROVE  Aligned(FlushMultiMask(active, base, st), Grid(len, n),
                 D \cup SpeakingIn(Range(st.chunks), active, n))
  <1>1. PICK chunks \in Seq(1..len) : chunks = st.chunks
    OBVIOUS
  <1>2. PICK masks : masks = st.masks
    OBVIOUS
  <1>3. PICK l \in Nat : l = Len(chunks) /\ DOMAIN chunks = 1..l
    BY LenProperties
  <1> DEFINE row(b, s) == (b - 1) * n + s
             item(b, s) == [at |-> <<chunks[b], s>>,
                            features |-> chunks[row(b, s) \div n + 1],
                            mask |-> masks[row(b, s) + 1]]
             all == {item(b, s) : b \in 1..l, s \in 0..n - 1}
             items == {i \in all : i.mask # NoMask}
  <1>4. FlushMultiMask(active, base, st) = Embedded(base, items)
    BY <1>1, <1>2, <1>3 DEF FlushMultiMask, Upto
  <1>5. ASSUME NEW b \in 1..l, NEW s \in 0..n - 1
        PROVE  /\ item(b, s).at = <<chunks[b], s>> /\ item(b, s).features = chunks[b]
               /\ item(b, s).mask = MaskOf(active, chunks[b], s)
               /\ chunks[b] \in 1..len
    <2>1. PICK a \in Nat : a = b - 1
      OBVIOUS
    <2>2. n \in Nat \ {0} /\ a \in 0..l - 1 /\ a + 1 = b
      BY <2>1
    <2>3. PICK j : IsPlace(j, a, s, n)
      BY DEF IsPlace
    <2>4. j \in Nat /\ (j - 1) \div n = a
      BY <2>2, <2>3, RowOf
    <2>5. row(b, s) = j - 1
      <3>1. PICK x : x = a * n
        OBVIOUS
      <3>2. x \in Int /\ j = x + s + 1
        BY <2>1, <2>3, <3>1 DEF IsPlace
      <3>3. row(b, s) = x + s
        BY <2>1, <3>1
      <3> HIDE DEF row
      <3> QED
        BY <3>2, <3>3
    <2>6. (j - 1) + 1 = j
      BY <2>4
    <2>7. masks[j] = MaskOf(active, chunks[a + 1], s)
      BY <1>1, <1>2, <1>3, <2>2, <2>3, <2>4 DEF Filled
    <2>8. chunks[b] \in 1..len
      <3>1. PICK C : C = 1..len
        OBVIOUS
      <3>2. chunks \in Seq(C) /\ b \in 1..Len(chunks)
        BY <1>3, <3>1
      <3> QED
        BY <3>1, <3>2, ElementOfSeq
    <2> HIDE DEF row
    <2> QED
      BY <2>2, <2>4, <2>5, <2>6, <2>7, <2>8
  <1> HIDE DEF item
  <1>6. ASSUME NEW b \in 1..l, NEW s \in 0..n - 1, item(b, s).mask # NoMask
        PROVE  ItemAligned(item(b, s), Grid(len, n)) /\ active[chunks[b]][s]
    <2>1. active[chunks[b]][s] /\ item(b, s).mask = s
      BY <1>5, <1>6 DEF MaskOf
    <2>2. <<chunks[b], s>> \in Grid(len, n) /\ <<chunks[b], s>>[1] = chunks[b] /\ <<chunks[b], s>>[2] = s
      BY <1>5 DEF Grid
    <2> QED
      BY <1>5, <2>1, <2>2 DEF ItemAligned
  <1>7. \A i \in items : ItemAligned(i, Grid(len, n))
    BY <1>6
  <1>8. {i.at : i \in items} = SpeakingIn(Range(chunks), active, n)
    <2>1. ASSUME NEW b \in 1..l, NEW s \in 0..n - 1, item(b, s).mask # NoMask
          PROVE  item(b, s).at \in SpeakingIn(Range(chunks), active, n)
      <3>1. chunks[b] \in Range(chunks)
        BY <1>3 DEF Range
      <3>2. PICK p : p = <<chunks[b], s>>
        OBVIOUS
      <3>3. p[1] = chunks[b] /\ p[2] = s /\ p \in Range(chunks) \X (0..n - 1)
        BY <3>1, <3>2
      <3>4. active[p[1]][p[2]]
        BY <1>6, <2>1, <3>3
      <3> QED
        BY <1>5, <3>2, <3>3, <3>4 DEF SpeakingIn
    <2>2. ASSUME NEW p \in SpeakingIn(Range(chunks), active, n)
          PROVE  \E i \in items : i.at = p
      <3>1. p \in Range(chunks) \X (0..n - 1) /\ active[p[1]][p[2]]
        BY DEF SpeakingIn
      <3>2. PICK b \in 1..l : chunks[b] = p[1]
        BY <1>3, <3>1 DEF Range
      <3>3. PICK s \in 0..n - 1 : s = p[2] /\ p = <<chunks[b], s>>
        BY <3>1, <3>2
      <3>4. item(b, s).mask = s /\ item(b, s).at = p
        BY <1>5, <3>1, <3>2, <3>3 DEF MaskOf
      <3>5. s # NoMask
        BY DEF NoMask
      <3> QED
        BY <3>4, <3>5
    <2>3. \A i \in items : i.at \in SpeakingIn(Range(chunks), active, n)
      BY <2>1
    <2> HIDE DEF items
    <2> QED
      BY <2>2, <2>3
  <1> HIDE DEF items
  <1>9. Aligned(Embedded(base, items), Grid(len, n), D \cup {i.at : i \in items})
    BY <1>7, EmbeddedAligned
  <1> QED
    BY <1>1, <1>4, <1>8, <1>9

RowOfMasks(active, c, n) == [k \in 1..n |-> MaskOf(active, c, k - 1)]

LEMMA PlaceFits ==
  ASSUME NEW n \in Nat, NEW l \in Nat, NEW b \in 0..l - 1, NEW s \in 0..n - 1, NEW j,
         IsPlace(j, b, s, n), NEW t, Cells(t, l, n)
  PROVE  j \in 1..t
  <1>1. PICK x \in Nat : x = b * n
    OBVIOUS
  <1>2. (b + 1) * n = x + n
    BY <1>1, Distribute
  <1>3. (b + 1) * n <= l * n
    <2>1. b + 1 \in Nat /\ b + 1 <= l
      OBVIOUS
    <2> QED
      BY <2>1, TimesMonotone
  <1>4. PICK y \in Nat : y = l * n
    OBVIOUS
  <1>5. j = x + s + 1 /\ t = y /\ x + n <= y
    BY <1>1, <1>2, <1>3, <1>4 DEF IsPlace, Cells
  <1> QED
    BY <1>5

LEMMA RowsGrow ==
  ASSUME NEW len \in Nat, NEW n \in Nat, NEW active, NEW chunks \in Seq(1..len), NEW c \in 1..len,
         NEW masks, Filled(masks, chunks, active, n), \A s \in 0..n - 1 : MaskOf(active, c, s) \in Int
  PROVE  Filled(masks \o RowOfMasks(active, c, n), Append(chunks, c), active, n)
  <1>1. PICK l \in Nat : l = Len(chunks)
    BY LenProperties
  <1>2. PICK C : C = 1..len
    OBVIOUS
  <1>3. PICK longer : longer = Append(chunks, c)
    OBVIOUS
  <1>4. longer \in Seq(C) /\ Len(longer) = l + 1 /\ (\A i \in 1..l : longer[i] = chunks[i]) /\ longer[l + 1] = c
    BY <1>1, <1>2, <1>3, AppendFacts
  <1>5. PICK t \in Nat : t = Len(masks) /\ masks \in Seq(Int) /\ Cells(t, l, n)
    BY <1>1, LenProperties DEF Filled
  <1>6. PICK row : row = RowOfMasks(active, c, n)
    OBVIOUS
  <1>7. row \in Seq(Int) /\ Len(row) = n /\ \A k \in 1..n : row[k] = MaskOf(active, c, k - 1)
    <2>1. \A k \in 1..n : k - 1 \in 0..n - 1
      OBVIOUS
    <2>2. row = [k \in 1..n |-> MaskOf(active, c, k - 1)]
      BY <1>6 DEF RowOfMasks
    <2> QED
      BY <2>1, <2>2
  <1>8. PICK all : all = masks \o row
    OBVIOUS
  <1>9. all \in Seq(Int) /\ IsConcat(masks, row, t, n)
    BY <1>5, <1>7, <1>8, ConcatFunction
  <1>10. Len(all) = t + n /\ all = [i \in 1..t + n |-> IF i <= t THEN masks[i] ELSE row[i - t]]
    BY <1>8, <1>9 DEF IsConcat
  <1>11. Cells(t + n, l + 1, n)
    <2>1. t = l * n /\ (l + 1) * n = l * n + n
      BY <1>5, Distribute DEF Cells
    <2> QED
      BY <2>1 DEF Cells
  <1>12. ASSUME NEW b \in 0..l, NEW s \in 0..n - 1, NEW j \in Nat, IsPlace(j, b, s, n)
         PROVE  all[j] = MaskOf(active, longer[b + 1], s)
    <2>1. CASE b < l
      <3>1. b \in 0..l - 1 /\ b + 1 \in 1..l
        BY <2>1
      <3>2. j \in 1..t
        BY <1>5, <1>12, <3>1, PlaceFits
      <3>3. all[j] = masks[j]
        BY <1>10, <3>2
      <3>4. masks[j] = MaskOf(active, chunks[b + 1], s)
        BY <1>1, <1>12, <3>1 DEF Filled
      <3> QED
        BY <1>4, <3>1, <3>3, <3>4
    <2>2. CASE b = l
      <3>1. j = t + s + 1
        BY <1>5, <1>12, <2>2 DEF Cells, IsPlace
      <3>2. j \in 1..t + n /\ ~(j <= t) /\ j - t = s + 1 /\ s + 1 \in 1..n
        BY <3>1
      <3>3. all[j] = row[s + 1]
        BY <1>10, <3>2
      <3>4. row[s + 1] = MaskOf(active, c, (s + 1) - 1) /\ (s + 1) - 1 = s
        BY <1>7, <3>2
      <3> QED
        BY <1>4, <2>2, <3>3, <3>4
    <2> QED
      BY <2>1, <2>2
  <1>13. Len(longer) - 1 = l
    BY <1>4
  <1>14. Filled(all, longer, active, n)
    BY <1>4, <1>9, <1>10, <1>11, <1>12, <1>13 DEF Filled
  <1> QED
    BY <1>3, <1>6, <1>8, <1>14

LEMMA MultiStepAligned ==
  ASSUME NEW len \in Nat, NEW n \in Nat, NEW active, NumSpeakers(active) = n, NEW batchSize, NEW st, NEW done,
         MultiInv(st, done, active, len, n), NEW c \in 1..len,
         NEW more, more = done \cup {c}
  PROVE  MultiInv(MultiMaskStep(active, batchSize, st, c), more, active, len, n)
  <1>1. PICK D : /\ Aligned(st.out, Grid(len, n), D)
                 /\ D \cup SpeakingIn(Range(st.chunks), active, n) = SpeakingIn(done, active, n)
    BY DEF MultiInv
  <1>2. PICK chunks : chunks = Append(st.chunks, c)
    OBVIOUS
  <1>3. PICK masks : masks = st.masks \o RowOfMasks(active, c, n)
    OBVIOUS
  <1>4. chunks \in Seq(1..len) /\ Range(chunks) = Range(st.chunks) \cup {c}
    <2>1. PICK C : C = 1..len
      OBVIOUS
    <2>2. st.chunks \in Seq(C) /\ c \in C
      BY <2>1 DEF MultiInv
    <2> QED
      BY <1>2, <2>1, <2>2, RangeAppends
  <1>5. Filled(masks, chunks, active, n)
    <2>1. \A s \in 0..n - 1 : MaskOf(active, c, s) \in Int
      BY DEF MaskOf, NoMask
    <2>2. st.chunks \in Seq(1..len) /\ Filled(st.masks, st.chunks, active, n)
      BY DEF MultiInv
    <2> QED
      BY <1>2, <1>3, <2>1, <2>2, RowsGrow
  <1>6. D \cup SpeakingIn(Range(chunks), active, n) = SpeakingIn(more, active, n)
    <2>1. SpeakingIn(Range(chunks), active, n)
            = SpeakingIn(Range(st.chunks), active, n) \cup SpeakingIn({c}, active, n)
      BY <1>4 DEF SpeakingIn
    <2>2. SpeakingIn(more, active, n) = SpeakingIn(done, active, n) \cup SpeakingIn({c}, active, n)
      BY DEF SpeakingIn
    <2> QED
      BY <1>1, <2>1, <2>2
  <1>7. PICK pushed : pushed = [chunks |-> chunks, masks |-> masks, out |-> st.out]
    OBVIOUS
  <1>8. pushed.chunks = chunks /\ pushed.masks = masks /\ pushed.out = st.out
    BY <1>7
  <1>9. PICK r : r = MultiMaskStep(active, batchSize, st, c)
    OBVIOUS
  <1>10. r = IF Len(pushed.chunks) # batchSize THEN pushed
             ELSE [chunks |-> <<>>, masks |-> <<>>, out |-> FlushMultiMask(active, st.out, pushed)]
    <2>1. RowOfMasks(active, c, n) = [k \in 1..NumSpeakers(active) |-> IF active[c][k - 1] THEN k - 1 ELSE NoMask]
      BY DEF RowOfMasks, MaskOf
    <2> QED
      BY <1>2, <1>3, <1>7, <1>9, <2>1 DEF MultiMaskStep
  <1>11. CASE Len(pushed.chunks) # batchSize
    <2>1. r = pushed
      BY <1>10, <1>11
    <2> QED
      BY <1>1, <1>4, <1>5, <1>6, <1>8, <1>9, <2>1 DEF MultiInv
  <1>12. CASE Len(pushed.chunks) = batchSize
    <2>1. r = [chunks |-> <<>>, masks |-> <<>>, out |-> FlushMultiMask(active, st.out, pushed)]
      BY <1>10, <1>12
    <2>2. r.chunks = <<>> /\ r.masks = <<>> /\ r.out = FlushMultiMask(active, st.out, pushed)
      BY <2>1
    <2>3. Aligned(FlushMultiMask(active, st.out, pushed), Grid(len, n),
                  D \cup SpeakingIn(Range(pushed.chunks), active, n))
      <3>1. PICK base : base = st.out
        OBVIOUS
      <3>2. Aligned(base, Grid(len, n), D)
        BY <1>1, <3>1
      <3>3. pushed.chunks \in Seq(1..len) /\ Filled(pushed.masks, pushed.chunks, active, n)
        BY <1>4, <1>5, <1>8
      <3>4. Aligned(FlushMultiMask(active, base, pushed), Grid(len, n),
                    D \cup SpeakingIn(Range(pushed.chunks), active, n))
        BY <3>2, <3>3, MultiFlushed
      <3> QED
        BY <3>1, <3>4
    <2>4. Aligned(r.out, Grid(len, n), SpeakingIn(more, active, n))
      BY <1>6, <1>8, <2>2, <2>3
    <2>5. Filled(<<>>, <<>>, active, n) /\ <<>> \in Seq(1..len) /\ Range(<<>>) = {}
      <3>1. Len(<<>>) = 0 /\ 0 * n = 0 /\ 0..0 - 1 = {} /\ \A Y : <<>> \in Seq(Y)
        OBVIOUS
      <3> QED
        BY <3>1 DEF Filled, Cells, Range
    <2>6. SpeakingIn({}, active, n) = {} /\ SpeakingIn(more, active, n) \cup {} = SpeakingIn(more, active, n)
      BY DEF SpeakingIn
    <2> QED
      BY <1>9, <2>2, <2>4, <2>5, <2>6 DEF MultiInv
  <1> QED
    BY <1>11, <1>12

LEMMA MultiAligned ==
  ASSUME NEW len \in Nat, NEW n \in Nat, NEW active, DOMAIN active = 1..len,
         NumSpeakers(active) = n, NEW batchSize
  PROVE  Aligned(ExtractMultiMask(active, batchSize), Grid(len, n), Speaking(active, len, n))
  <1>1. PICK q : q = ChunkTurns(active)
    OBVIOUS
  <1>2. DOMAIN q = 1..len /\ \A j \in 1..len : q[j] = j
    BY <1>1 DEF ChunkTurns
  <1>3. PICK run : /\ FoldRun(run, "multi", <<active, batchSize>>, NoneMulti(active), q, len)
                   /\ ExtractMultiMask(active, batchSize) = FlushMultiMask(active, run[len].out, run[len])
    BY <1>1, <1>2, MultiFolds
  <1> DEFINE S == {j \in Nat : j <= len => MultiInv(run[j], 1..j, active, len, n)}
  <1>4. 0 \in S
    <2>1. PICK st : st = run[0]
      OBVIOUS
    <2>2. st = NoneMulti(active)
      BY <1>3, <2>1 DEF FoldRun
    <2>3. st.chunks = <<>> /\ st.masks = <<>> /\ st.out = NoEmbeddings(active)
      BY <2>2 DEF NoneMulti
    <2>4. Aligned(NoEmbeddings(active), Grid(len, n), {})
      <3>1. PICK m \in Nat : InOrderOfLoops(Positions(active), m, len, n)
        BY PositionsInOrder
      <3> QED
        BY <3>1, NoneAligned DEF InOrderOfLoops
    <2>5. Filled(<<>>, <<>>, active, n) /\ <<>> \in Seq(1..len) /\ Range(<<>>) = {}
      <3>1. Len(<<>>) = 0 /\ 0 * n = 0 /\ 0..0 - 1 = {} /\ \A Y : <<>> \in Seq(Y)
        OBVIOUS
      <3> QED
        BY <3>1 DEF Filled, Cells, Range
    <2>6. SpeakingIn({}, active, n) = {} /\ {} \cup SpeakingIn({}, active, n) = {} /\ 1..0 = {}
      BY DEF SpeakingIn
    <2>7. MultiInv(st, 1..0, active, len, n)
      BY <2>3, <2>4, <2>5, <2>6 DEF MultiInv
    <2> QED
      BY <2>1, <2>7
  <1>5. ASSUME NEW j \in Nat, j \in S PROVE j + 1 \in S
    <2> SUFFICES ASSUME j + 1 <= len PROVE MultiInv(run[j + 1], 1..j + 1, active, len, n)
      OBVIOUS
    <2>1. MultiInv(run[j], 1..j, active, len, n) /\ j \in 0..len - 1 /\ j + 1 \in 1..len
      BY <1>5
    <2>2. PICK st : st = run[j]
      OBVIOUS
    <2>3. PICK c \in 1..len : c = j + 1 /\ q[j + 1] = c
      BY <1>2, <2>1
    <2>4. PICK r : r = MultiMaskStep(active, batchSize, st, c)
      OBVIOUS
    <2>5. run[j + 1] = r
      <3>1. FoldStep("multi", <<active, batchSize>>, st, c) = r
        BY <2>4 DEF FoldStep
      <3>2. run[j + 1] = FoldStep("multi", <<active, batchSize>>, run[j], q[j + 1])
        BY <1>3, <2>1 DEF FoldRun
      <3> QED
        BY <2>2, <2>3, <3>1, <3>2
    <2>6. PICK done : done = 1..j
      OBVIOUS
    <2>7. PICK more : more = done \cup {c}
      OBVIOUS
    <2>8. more = 1..j + 1
      BY <2>3, <2>6, <2>7
    <2>9. MultiInv(st, done, active, len, n)
      BY <2>1, <2>2, <2>6
    <2>10. MultiInv(r, more, active, len, n)
      BY <2>4, <2>7, <2>9, MultiStepAligned
    <2> QED
      BY <2>5, <2>8, <2>10
  <1> HIDE DEF S
  <1>6. len \in S
    BY <1>4, <1>5, NatSetInduction
  <1>7. PICK st : st = run[len]
    OBVIOUS
  <1>8. MultiInv(st, 1..len, active, len, n)
    BY <1>6, <1>7 DEF S
  <1>9. PICK D : /\ Aligned(st.out, Grid(len, n), D)
                 /\ D \cup SpeakingIn(Range(st.chunks), active, n) = SpeakingIn(1..len, active, n)
    BY <1>8 DEF MultiInv
  <1>10. PICK base : base = st.out
    OBVIOUS
  <1>11. Aligned(FlushMultiMask(active, base, st), Grid(len, n),
                 D \cup SpeakingIn(Range(st.chunks), active, n))
    <2>1. Aligned(base, Grid(len, n), D)
      BY <1>9, <1>10
    <2>2. st.chunks \in Seq(1..len) /\ Filled(st.masks, st.chunks, active, n)
      BY <1>8 DEF MultiInv
    <2> QED
      BY <2>1, <2>2, MultiFlushed
  <1>12. SpeakingIn(1..len, active, n) = Speaking(active, len, n)
    BY DEF SpeakingIn, Speaking, Grid
  <1> QED
    BY <1>3, <1>7, <1>9, <1>10, <1>11, <1>12
=============================================================================
