-------------------------- MODULE SequentialProofs --------------------------
(***************************************************************************)
(* Theorems about the parts of the program that run alone.  The run        *)
(* directory of an experiment: what a crash or a resumption can never do   *)
(* to it, for any number of repetitions, files, candidates and crashes.    *)
(* The calls of the sequential algorithms: what they return for every      *)
(* input that PureCalls' assumptions admit.                                *)
(***************************************************************************)
EXTENDS ExperimentStore, PureCalls, AlgorithmProofs

(* The shape of the variables that are updated in place.                   *)
Shaped(p) ==
  p = [at |-> p.at, slot |-> p.slot, file |-> p.file, fresh |-> p.fresh,
       todo |-> p.todo, by |-> p.by, seen |-> p.seen]

ShapeInv ==
  /\ experiment \in Configurations
  /\ manifest = [s \in Stores |-> manifest[s]]
  /\ proc = [i \in Invocations |-> proc[i]]
  /\ \A i \in Invocations : Shaped(proc[i])

LEMMA IdleShaped == Shaped(Idle)
  BY DEF Shaped, Idle

LEMMA FieldsShaped ==
  ASSUME NEW p1, NEW p2, NEW p3, NEW p4, NEW p5, NEW p6, NEW p7
  PROVE  Shaped([at |-> p1, slot |-> p2, file |-> p3, fresh |-> p4, todo |-> p5,
                 by |-> p6, seen |-> p7])
  BY DEF Shaped

LEMMA FieldUpdateShaped ==
  ASSUME NEW p, Shaped(p), NEW a
  PROVE  /\ Shaped([p EXCEPT !.at = a])
         /\ Shaped([p EXCEPT !.slot = a])
         /\ Shaped([p EXCEPT !.file = a])
         /\ Shaped([p EXCEPT !.fresh = a])
         /\ Shaped([p EXCEPT !.todo = a])
         /\ Shaped([p EXCEPT !.by = a])
         /\ Shaped([p EXCEPT !.seen = a])
  <1>1. [p EXCEPT !.at = a] =
         [at |-> a, slot |-> p.slot, file |-> p.file, fresh |-> p.fresh,
          todo |-> p.todo, by |-> p.by, seen |-> p.seen]
    BY DEF Shaped
  <1>2. [p EXCEPT !.slot = a] =
         [at |-> p.at, slot |-> a, file |-> p.file, fresh |-> p.fresh,
          todo |-> p.todo, by |-> p.by, seen |-> p.seen]
    BY DEF Shaped
  <1>3. [p EXCEPT !.file = a] =
         [at |-> p.at, slot |-> p.slot, file |-> a, fresh |-> p.fresh,
          todo |-> p.todo, by |-> p.by, seen |-> p.seen]
    BY DEF Shaped
  <1>4. [p EXCEPT !.fresh = a] =
         [at |-> p.at, slot |-> p.slot, file |-> p.file, fresh |-> a,
          todo |-> p.todo, by |-> p.by, seen |-> p.seen]
    BY DEF Shaped
  <1>5. [p EXCEPT !.todo = a] =
         [at |-> p.at, slot |-> p.slot, file |-> p.file, fresh |-> p.fresh,
          todo |-> a, by |-> p.by, seen |-> p.seen]
    BY DEF Shaped
  <1>6. [p EXCEPT !.by = a] =
         [at |-> p.at, slot |-> p.slot, file |-> p.file, fresh |-> p.fresh,
          todo |-> p.todo, by |-> a, seen |-> p.seen]
    BY DEF Shaped
  <1>7. [p EXCEPT !.seen = a] =
         [at |-> p.at, slot |-> p.slot, file |-> p.file, fresh |-> p.fresh,
          todo |-> p.todo, by |-> p.by, seen |-> a]
    BY DEF Shaped
  <1> QED
    BY <1>1, <1>2, <1>3, <1>4, <1>5, <1>6, <1>7, FieldsShaped

LEMMA UpdateShaped ==
  ASSUME NEW p, Shaped(p), NEW a, NEW b, NEW c
  PROVE  /\ Shaped([p EXCEPT !.at = a])
         /\ Shaped([p EXCEPT !.at = a, !.fresh = b])
         /\ Shaped([p EXCEPT !.at = a, !.slot = b])
         /\ Shaped([p EXCEPT !.at = a, !.todo = b])
         /\ Shaped([p EXCEPT !.at = a, !.by = b])
         /\ Shaped([p EXCEPT !.at = a, !.file = b])
         /\ Shaped([p EXCEPT !.file = b])
         /\ Shaped([p EXCEPT !.slot = b])
         /\ Shaped([p EXCEPT !.at = a, !.file = b, !.fresh = c])
         /\ Shaped([p EXCEPT !.at = a, !.slot = b, !.seen = c])
  <1> DEFINE q == [p EXCEPT !.at = a]
  <1>1. Shaped(q)
    BY FieldUpdateShaped
  <1>2. /\ [p EXCEPT !.at = a, !.slot = b] = [q EXCEPT !.slot = b]
        /\ [p EXCEPT !.at = a, !.fresh = b] = [q EXCEPT !.fresh = b]
        /\ [p EXCEPT !.at = a, !.todo = b] = [q EXCEPT !.todo = b]
        /\ [p EXCEPT !.at = a, !.by = b] = [q EXCEPT !.by = b]
        /\ [p EXCEPT !.at = a, !.file = b] = [q EXCEPT !.file = b]
        /\ [p EXCEPT !.at = a, !.file = b, !.fresh = c] =
              [[q EXCEPT !.file = b] EXCEPT !.fresh = c]
        /\ [p EXCEPT !.at = a, !.slot = b, !.seen = c] =
              [[q EXCEPT !.slot = b] EXCEPT !.seen = c]
    OBVIOUS
  <1> HIDE DEF q
  <1>3. /\ Shaped([q EXCEPT !.slot = b]) /\ Shaped([q EXCEPT !.todo = b])
        /\ Shaped([q EXCEPT !.by = b]) /\ Shaped([q EXCEPT !.file = b])
        /\ Shaped([q EXCEPT !.fresh = b])
    BY <1>1, FieldUpdateShaped
  <1>4. /\ Shaped([[q EXCEPT !.file = b] EXCEPT !.fresh = c])
        /\ Shaped([[q EXCEPT !.slot = b] EXCEPT !.seen = c])
    BY <1>3, FieldUpdateShaped
  <1>5. Shaped([p EXCEPT !.file = b]) /\ Shaped([p EXCEPT !.slot = b])
    BY FieldUpdateShaped
  <1> QED
    BY <1>1, <1>2, <1>3, <1>4, <1>5 DEF q

LEMMA ShapeInit == Init => ShapeInv
  BY IdleShaped DEF Init, ShapeInv, Invocations

(* Everything that happens is a step of one invocation, or drift.          *)
InvocationNext(i) ==
  CreateRunDir(i) \/ Resume(i) \/ Summarize(i) \/ Step(i) \/ WorkerStartFails(i) \/ Crash(i)

LEMMA NextSteps ==
  ASSUME [Next]_vars
  PROVE  (\E i \in Invocations : InvocationNext(i)) \/ Drift \/ UNCHANGED vars
  BY DEF Next, InvocationNext

(* An invocation changes its own program point only.                       *)
LEMMA OwnPoint ==
  ASSUME ShapeInv, NEW i \in Invocations, InvocationNext(i)
  PROVE  /\ experiment' = experiment
         /\ manifest' = [s \in Stores |-> manifest'[s]]
         /\ proc' = [j \in Invocations |-> proc'[j]]
         /\ Shaped(proc'[i])
         /\ \A j \in Invocations \ {i} : proc'[j] = proc[j]
  <1>1. /\ manifest = [s \in Stores |-> manifest[s]]
        /\ proc = [j \in Invocations |-> proc[j]]
        /\ Shaped(proc[i]) /\ Shaped(Idle)
    BY IdleShaped DEF ShapeInv
  <1>2. experiment' = experiment
    BY DEF InvocationNext, CreateRunDir, Resume, Summarize, Step, WorkerStartFails, Crash,
           WriteManifestTemp, RenameManifest, Manage, SkipComplete, StartWorker, ScheduleDone,
           WorkerAlreadyComplete, WorkerBegin, FileDone, ExecuteFile, CheckRecord, WriteTemp,
           RenameRecord, RecordsWritten, FinishRepetition, Stamp, ReadRecords, WriteDocument
  <1>3. manifest' = [s \in Stores |-> manifest'[s]]
    <2>1. manifest' = manifest \/ \E s \in Stores : \E v : manifest' = [manifest EXCEPT ![s] = v]
      BY DEF InvocationNext, CreateRunDir, Resume, Summarize, Step, WorkerStartFails, Crash,
             WriteManifestTemp, RenameManifest, Manage, SkipComplete, StartWorker, ScheduleDone,
             WorkerAlreadyComplete, WorkerBegin, FileDone, ExecuteFile, CheckRecord, WriteTemp,
             RenameRecord, RecordsWritten, FinishRepetition, Stamp, ReadRecords, WriteDocument, Stores
    <2> QED
      BY <1>1, <2>1
  <1>4. \E p : proc' = [proc EXCEPT ![i] = p] /\ Shaped(p)
    <2> USE <1>1
    <2>1. CASE proc' = proc
      BY <2>1
    <2>2. CASE Exit(i)
      BY <2>2 DEF Exit
    <2>3. ASSUME NEW label, Move(i, label)
          PROVE  \E p : proc' = [proc EXCEPT ![i] = p] /\ Shaped(p)
      <3> WITNESS [proc[i] EXCEPT !.at = label]
      <3> QED
        BY <2>3, UpdateShaped DEF Move
    <2>4. CASE NextSlot(i)
      <3> WITNESS [Idle EXCEPT !.at = "schedule", !.slot = proc[i].slot + 1]
      <3> QED
        BY <2>4, UpdateShaped, IdleShaped DEF NextSlot
    <2>18. ASSUME NEW measured, RecordRepetition(i, measured)
           PROVE  \E p : proc' = [proc EXCEPT ![i] = p] /\ Shaped(p)
      <3>1. CASE proc' = [proc EXCEPT ![i].at = "stamp", ![i].fresh = measured]
        <4> WITNESS [proc[i] EXCEPT !.at = "stamp", !.fresh = measured]
        <4> QED
          BY <3>1, UpdateShaped
      <3> QED
        BY <2>4, <2>18, <3>1 DEF RecordRepetition
    <2>5. CASE CreateRunDir(i) \/ Resume(i) \/ Summarize(i) \/ WorkerStartFails(i) \/ Crash(i)
      BY <2>2, <2>3, <2>5 DEF CreateRunDir, Resume, Summarize, WorkerStartFails, Crash
    <2>6. ASSUME NEW s \in Stores, WriteManifestTemp(i, s) \/ RenameManifest(i, s)
          PROVE  \E p : proc' = [proc EXCEPT ![i] = p] /\ Shaped(p)
      BY <2>1, <2>2, <2>3, <2>6 DEF WriteManifestTemp, RenameManifest
    <2>7. CASE Manage(i) \/ ScheduleDone(i) \/ Stamp(i)
      BY <2>2, <2>3, <2>4, <2>7 DEF Manage, ScheduleDone, Stamp
    <2>8. CASE StartWorker(i)
      BY <2>2, <2>8 DEF StartWorker, Shaped
    <2>9. CASE WorkerBegin(i)
      BY <2>2, <2>9 DEF WorkerBegin, Shaped
    <2>10. CASE FileDone(i)
      <3> WITNESS [proc[i] EXCEPT !.file = proc[i].file + 1]
      <3> QED
        BY <2>10, UpdateShaped DEF FileDone
    <2>11. CASE ExecuteFile(i)
      <3>1. PICK todo : proc' = [proc EXCEPT ![i].at = "write", ![i].todo = todo]
        BY <2>11 DEF ExecuteFile
      <3> WITNESS [proc[i] EXCEPT !.at = "write", !.todo = todo]
      <3> QED
        BY <3>1, UpdateShaped
    <2>12. CASE CheckRecord(i) \/ WriteTemp(i)
      BY <2>2, <2>3, <2>12 DEF CheckRecord, WriteTemp
    <2>13. CASE RenameRecord(i)
      BY <2>2, <2>13 DEF RenameRecord, Shaped
    <2>14. CASE RecordsWritten(i)
      <3> WITNESS [proc[i] EXCEPT !.at = "files", !.file = proc[i].file + 1]
      <3> QED
        BY <2>14, UpdateShaped DEF RecordsWritten
    <2>15. CASE SkipComplete(i) \/ WorkerAlreadyComplete(i) \/ FinishRepetition(i)
      BY <2>15, <2>18 DEF SkipComplete, WorkerAlreadyComplete, FinishRepetition
    <2>16. CASE ReadRecords(i)
      BY <2>2, <2>16 DEF ReadRecords, Shaped
    <2>17. CASE WriteDocument(i)
      BY <2>2, <2>17 DEF WriteDocument, Shaped
    <2> QED
      BY <2>5, <2>6, <2>7, <2>8, <2>9, <2>10, <2>11, <2>12, <2>13, <2>14, <2>15, <2>16, <2>17
         DEF InvocationNext, Step
  <1> QED
    BY <1>1, <1>2, <1>3, <1>4

LEMMA ShapeNext == ShapeInv /\ [Next]_vars => ShapeInv'
  <1> SUFFICES ASSUME ShapeInv, [Next]_vars PROVE ShapeInv'
    OBVIOUS
  <1>1. ASSUME NEW i \in Invocations, InvocationNext(i) PROVE ShapeInv'
    BY <1>1, OwnPoint DEF ShapeInv, Invocations
  <1>2. CASE Drift \/ UNCHANGED vars
    BY <1>2 DEF ShapeInv, Drift, vars, Invocations, Shaped
  <1> QED
    BY <1>1, <1>2, NextSteps

(* What a step sets of the program point, field by field.                  *)
LEMMA SetPoint ==
  ASSUME ShapeInv, NEW i \in Invocations, NEW a
  PROVE  /\ Move(i, a) =>
              /\ proc'[i].at = a /\ proc'[i].slot = proc[i].slot
              /\ proc'[i].file = proc[i].file /\ proc'[i].todo = proc[i].todo
              /\ proc'[i].fresh = proc[i].fresh /\ proc'[i].by = proc[i].by
         /\ Exit(i) => proc'[i].at = "idle" /\ proc'[i].slot = 1
         /\ NextSlot(i) => proc'[i].at = "schedule" /\ proc'[i].slot = proc[i].slot + 1
         /\ RecordRepetition(i, a) =>
              \/ NextSlot(i)
              \/ /\ proc'[i].at = "stamp" /\ proc'[i].slot = proc[i].slot
                 /\ proc'[i].fresh = a /\ proc'[i].by = proc[i].by
                 /\ Job(i) \notin DOMAIN timing
  <1>1. Shaped(proc[i]) /\ proc = [j \in Invocations |-> proc[j]]
    BY DEF ShapeInv
  <1>2. Move(i, a) =>
          /\ proc'[i].at = a /\ proc'[i].slot = proc[i].slot
          /\ proc'[i].file = proc[i].file /\ proc'[i].todo = proc[i].todo
          /\ proc'[i].fresh = proc[i].fresh /\ proc'[i].by = proc[i].by
    <2> SUFFICES ASSUME proc' = [proc EXCEPT ![i].at = a]
                 PROVE  /\ proc'[i].at = a /\ proc'[i].slot = proc[i].slot
                        /\ proc'[i].file = proc[i].file /\ proc'[i].todo = proc[i].todo
                        /\ proc'[i].fresh = proc[i].fresh /\ proc'[i].by = proc[i].by
      BY DEF Move
    <2>1. proc'[i] = [proc[i] EXCEPT !.at = a]
      BY <1>1
    <2> QED
      BY <1>1, <2>1 DEF Shaped
  <1>3. Exit(i) => proc'[i].at = "idle" /\ proc'[i].slot = 1
    BY <1>1 DEF Exit, Idle
  <1>4. NextSlot(i) => proc'[i].at = "schedule" /\ proc'[i].slot = proc[i].slot + 1
    BY <1>1 DEF NextSlot, Idle
  <1>5. ASSUME RecordRepetition(i, a), ~NextSlot(i)
        PROVE  /\ proc'[i].at = "stamp" /\ proc'[i].slot = proc[i].slot
               /\ proc'[i].fresh = a /\ proc'[i].by = proc[i].by
               /\ Job(i) \notin DOMAIN timing
    <2>1. /\ proc' = [proc EXCEPT ![i].at = "stamp", ![i].fresh = a]
          /\ Job(i) \notin DOMAIN timing
      BY <1>5 DEF RecordRepetition
    <2>2. proc'[i] = [proc[i] EXCEPT !.at = "stamp", !.fresh = a]
      BY <1>1, <2>1
    <2> QED
      BY <1>1, <2>1, <2>2 DEF Shaped
  <1> QED
    BY <1>2, <1>3, <1>4, <1>5
-----------------------------------------------------------------------------
(* Pinned inputs.                                                          *)

(* While an invocation is anywhere in the command the inputs are the       *)
(* pinned ones, and so were they when a record was filled.                 *)
PinnedInv ==
  /\ \A i \in Invocations : ~At(i, "idle") => InputsMatch
  /\ \A t \in DOMAIN temp : temp[t].pinned
  /\ \A t \in DOMAIN records : records[t].pinned

LEMMA PinnedInit == Init => PinnedInv
  BY DEF Init, PinnedInv, InputsMatch

(* A command starts, and goes on, with the pinned inputs only.             *)
LEMMA PinnedStart ==
  ASSUME ShapeInv, PinnedInv, NEW i \in Invocations, InvocationNext(i)
  PROVE  At(i, "idle")' \/ InputsMatch'
  <1>1. drift' = drift
    BY DEF InvocationNext, CreateRunDir, Resume, Summarize, Step, WorkerStartFails, Crash,
           WriteManifestTemp, RenameManifest, Manage, SkipComplete, StartWorker, ScheduleDone,
           WorkerAlreadyComplete, WorkerBegin, FileDone, ExecuteFile, CheckRecord, WriteTemp,
           RenameRecord, RecordsWritten, FinishRepetition, Stamp, ReadRecords, WriteDocument
  <1>2. InputsMatch
    <2>1. CASE CreateRunDir(i) \/ Resume(i) \/ Summarize(i)
      BY <2>1 DEF CreateRunDir, Resume, Summarize
    <2>2. CASE ~At(i, "idle")
      BY <2>2 DEF PinnedInv
    <2>3. CASE Step(i) \/ WorkerStartFails(i) \/ Crash(i)
      <3>1. ~At(i, "idle")
        BY <2>3 DEF Step, WorkerStartFails, Crash, Stores, At,
           WriteManifestTemp, RenameManifest, Manage, SkipComplete, StartWorker, ScheduleDone,
           WorkerAlreadyComplete, WorkerBegin, FileDone, ExecuteFile, CheckRecord, WriteTemp,
           RenameRecord, RecordsWritten, FinishRepetition, Stamp, ReadRecords, WriteDocument
      <3> QED
        BY <3>1, <2>2
    <2> QED
      BY <2>1, <2>3 DEF InvocationNext
  <1> QED
    BY <1>1, <1>2 DEF InputsMatch

(* Records and their temporary files are touched by two steps only.        *)
LEMMA RecordSteps ==
  ASSUME NEW i \in Invocations, InvocationNext(i)
  PROVE  WriteTemp(i) \/ RenameRecord(i) \/ UNCHANGED <<temp, records>>
  BY DEF InvocationNext, CreateRunDir, Resume, Summarize, Step, WorkerStartFails, Crash,
         WriteManifestTemp, RenameManifest, Manage, SkipComplete, StartWorker, ScheduleDone,
         WorkerAlreadyComplete, WorkerBegin, FileDone, ExecuteFile, CheckRecord,
         RecordsWritten, FinishRepetition, Stamp, ReadRecords, WriteDocument

LEMMA PinnedNext == ShapeInv /\ PinnedInv /\ [Next]_vars => PinnedInv'
  <1> SUFFICES ASSUME ShapeInv, PinnedInv, [Next]_vars PROVE PinnedInv'
    OBVIOUS
  <1>1. ASSUME NEW i \in Invocations, InvocationNext(i) PROVE PinnedInv'
    <2>1. drift' = drift /\ Invocations' = Invocations
      BY <1>1, OwnPoint
         DEF Invocations, InvocationNext, CreateRunDir, Resume, Summarize, Step, WorkerStartFails,
             Crash, WriteManifestTemp, RenameManifest, Manage, SkipComplete, StartWorker,
             ScheduleDone, WorkerAlreadyComplete, WorkerBegin, FileDone, ExecuteFile, CheckRecord,
             WriteTemp, RenameRecord, RecordsWritten, FinishRepetition, Stamp, ReadRecords, WriteDocument
    <2>2. \A j \in Invocations : ~At(j, "idle")' => InputsMatch'
      BY <1>1, <2>1, PinnedStart, OwnPoint DEF PinnedInv, At, InputsMatch
    <2>3. CASE WriteTemp(i)
      <3>1. InputsMatch
        BY <2>3 DEF PinnedInv, WriteTemp, At
      <3>2. PICK v : v.pinned = InputsMatch /\ temp' = Put(temp, Target(i), v)
        BY <2>3 DEF WriteTemp
      <3>3. \A t \in DOMAIN temp' : temp'[t].pinned
        <4>1. /\ DOMAIN temp' = DOMAIN temp \union {Target(i)}
              /\ temp'[Target(i)] = v
              /\ \A t \in DOMAIN temp \ {Target(i)} : temp'[t] = temp[t]
          BY <3>2 DEF Put
        <4>2. v.pinned
          BY <3>1, <3>2
        <4>3. \A t \in DOMAIN temp : temp[t].pinned
          BY DEF PinnedInv
        <4> QED
          BY <4>1, <4>2, <4>3
      <3> QED
        BY <2>1, <2>2, <2>3, <3>3 DEF PinnedInv, WriteTemp
    <2>4. CASE RenameRecord(i)
      <3>1. CASE Target(i) \in DOMAIN temp
        <4>1. /\ records' = Put(records, Target(i), temp[Target(i)])
              /\ temp' = [t \in DOMAIN temp \ {Target(i)} |-> temp[t]]
          BY <2>4, <3>1 DEF RenameRecord
        <4>2. \A t \in DOMAIN temp' : temp'[t].pinned
          BY <4>1 DEF PinnedInv
        <4>3. \A t \in DOMAIN records' : records'[t].pinned
          <5>1. /\ DOMAIN records' = DOMAIN records \union {Target(i)}
                /\ records'[Target(i)] = temp[Target(i)]
                /\ \A t \in DOMAIN records \ {Target(i)} : records'[t] = records[t]
            BY <4>1 DEF Put
          <5>2. /\ temp[Target(i)].pinned
                /\ \A t \in DOMAIN records : records[t].pinned
            BY <3>1 DEF PinnedInv
          <5> QED
            BY <5>1, <5>2
        <4> QED
          BY <2>1, <2>2, <4>2, <4>3 DEF PinnedInv
      <3>2. CASE Target(i) \notin DOMAIN temp
        BY <2>1, <2>2, <2>4, <3>2 DEF PinnedInv, RenameRecord
      <3> QED
        BY <3>1, <3>2
    <2>5. CASE UNCHANGED <<temp, records>>
      BY <2>1, <2>2, <2>5 DEF PinnedInv
    <2> QED
      BY <1>1, <2>3, <2>4, <2>5, RecordSteps
  <1>2. CASE Drift
    BY <1>2 DEF PinnedInv, Drift, Invocations, At, InputsMatch
  <1>3. CASE UNCHANGED vars
    BY <1>3 DEF PinnedInv, vars, Invocations, At, InputsMatch
  <1> QED
    BY <1>1, <1>2, <1>3, NextSteps
-----------------------------------------------------------------------------
(* The order of the repetitions.                                           *)

(* The first m quadruples of a comparison.                                 *)
AbbaRun(m) == [k \in 1..4 * m |-> Abba(((k - 1) \div 4) * 2)[((k - 1) % 4) + 1]]

LEMMA AbbaTypes ==
  ASSUME NEW m \in Nat
  PROVE  Abba(2 * m) \in Seq(Stores \X Nat) /\ AbbaRun(m) \in Seq(Stores \X Nat)
  <1>1. ASSUME NEW q \in Nat PROVE \A j \in 1..4 : Abba(q)[j] \in Stores \X Nat
    BY DEF Abba, Stores
  <1>2. Abba(2 * m) \in Seq(Stores \X Nat)
    BY DEF Abba, Stores
  <1>3. ASSUME NEW k \in 1..4 * m
        PROVE  Abba(((k - 1) \div 4) * 2)[((k - 1) % 4) + 1] \in Stores \X Nat
    <2>1. ((k - 1) \div 4) * 2 \in Nat /\ ((k - 1) % 4) + 1 \in 1..4
      OBVIOUS
    <2> QED
      BY <1>1, <2>1
  <1>4. PICK l \in Nat : l = 4 * m
    OBVIOUS
  <1>5. AbbaRun(m) \in [1..l -> Stores \X Nat]
    BY <1>3, <1>4 DEF AbbaRun
  <1>6. AbbaRun(m) \in Seq(Stores \X Nat)
    BY <1>5
  <1> QED
    BY <1>2, <1>6

(* A concatenation, element by element.                                    *)
LEMMA ConcatPoints ==
  ASSUME NEW P, NEW s \in Seq(P), NEW a \in Seq(P), NEW l \in Nat, Len(s) = l, Len(a) = 4
  PROVE  s \o a = [k \in 1..l + 4 |-> IF k <= l THEN s[k] ELSE a[k - l]]
  <1>1. s \o a \in Seq(P)
    BY ConcatProperties
  <1>2. Len(s \o a) = Len(s) + Len(a)
    BY ConcatProperties
  <1>3. \A k \in 1..Len(s) + Len(a) :
          (s \o a)[k] = IF k <= Len(s) THEN s[k] ELSE a[k - Len(s)]
    BY ConcatProperties
  <1>4. PICK c : c = s \o a
    OBVIOUS
  <1>5. c \in Seq(P) /\ Len(c) = l + 4
    BY <1>1, <1>2, <1>4
  <1>6. \A k \in 1..l + 4 : c[k] = IF k <= l THEN s[k] ELSE a[k - l]
    BY <1>3, <1>4
  <1>7. c = [k \in 1..l + 4 |-> c[k]]
    BY <1>5
  <1>8. c = [k \in 1..l + 4 |-> IF k <= l THEN s[k] ELSE a[k - l]]
    BY <1>6, <1>7
  <1> QED
    BY <1>4, <1>8

LEMMA AbbaRunGrows ==
  ASSUME NEW m \in Nat
  PROVE  AbbaRun(m) \o Abba(2 * m) = AbbaRun(m + 1)
  <1> DEFINE run(k) == Abba(((k - 1) \div 4) * 2)[((k - 1) % 4) + 1]
             s == AbbaRun(m)
             a == Abba(2 * m)
  <1>1. Len(s) = 4 * m /\ DOMAIN s = 1..4 * m /\ \A k \in 1..4 * m : s[k] = run(k)
    BY DEF AbbaRun
  <1>2. Len(a) = 4
    BY DEF Abba
  <1>3. ASSUME NEW k \in 1..4 * m + 4, ~(k <= 4 * m)
        PROVE  a[k - 4 * m] = run(k)
    <2>1. ((k - 1) \div 4) = m /\ ((k - 1) % 4) + 1 = k - 4 * m
      BY <1>3
    <2> QED
      BY <2>1
  <1>4. s \o a = [k \in 1..4 * m + 4 |-> IF k <= 4 * m THEN s[k] ELSE a[k - 4 * m]]
    <2>1. s \in Seq(Stores \X Nat) /\ a \in Seq(Stores \X Nat)
      BY AbbaTypes
    <2>2. PICK l \in Nat : l = 4 * m
      OBVIOUS
    <2>3. PICK P : P = Stores \X Nat
      OBVIOUS
    <2> HIDE DEF s, a
    <2>4. s \in Seq(P) /\ a \in Seq(P) /\ Len(s) = l /\ Len(a) = 4
      BY <1>1, <1>2, <2>1, <2>2, <2>3
    <2>5. s \o a = [k \in 1..l + 4 |-> IF k <= l THEN s[k] ELSE a[k - l]]
      BY <2>4, ConcatPoints
    <2> QED
      BY <2>2, <2>5
  <1>5. AbbaRun(m + 1) = [k \in 1..4 * m + 4 |-> run(k)]
    <2>1. 4 * (m + 1) = 4 * m + 4
      OBVIOUS
    <2> QED
      BY <2>1 DEF AbbaRun
  <1>6. \A k \in 1..4 * m + 4 :
          (IF k <= 4 * m THEN s[k] ELSE a[k - 4 * m]) = run(k)
    <2> HIDE DEF s, a, run
    <2> QED
      BY <1>1, <1>3
  <1> HIDE DEF s, a, run
  <1>7. s \o a = AbbaRun(m + 1)
    BY <1>4, <1>5, <1>6
  <1> QED
    BY <1>7 DEF s, a

LEMMA AbbaRunOne == AbbaRun(1) = Abba(0)
  <1>1. AbbaRun(0) \o Abba(0) = AbbaRun(1)
    <2> DEFINE m == 0
    <2>1. m \in Nat /\ 2 * m = 0 /\ m + 1 = 1 /\ m = 0
      OBVIOUS
    <2> HIDE DEF m
    <2>2. AbbaRun(m) \o Abba(2 * m) = AbbaRun(m + 1)
      BY <2>1, AbbaRunGrows
    <2> QED
      BY <2>1, <2>2
  <1>2. AbbaRun(0) = <<>>
    BY DEF AbbaRun
  <1>3. Abba(0) \in Seq({"baseline", "candidate"} \X Nat)
    BY DEF Abba
  <1>4. <<>> \o Abba(0) = Abba(0)
    BY <1>3
  <1> QED
    BY <1>1, <1>2, <1>4

(* What FlattenSeq computes, one quadruple after the other.                *)
LEMMA FlattenAbba ==
  ASSUME NEW n \in Nat \ {0}
  PROVE  FlattenSeq([k \in 1..n |-> Abba(2 * (k - 1))]) = AbbaRun(n)
  <1> DEFINE seqs == [k \in 1..n |-> Abba(2 * (k - 1))]
             runs == [i \in 1..n |-> AbbaRun(i)]
  <1>1. \A k \in 1..n : seqs[k] = Abba(2 * (k - 1)) /\ runs[k] = AbbaRun(k)
    OBVIOUS
  <1>2. PICK X : seqs \in [1..n -> Seq(X)]
    <2>1. \A k \in 1..n : seqs[k] \in Seq(Stores \X Nat)
      <3> TAKE k \in 1..n
      <3>1. k - 1 \in Nat
        OBVIOUS
      <3> QED
        BY <1>1, <3>1, AbbaTypes
    <2> QED
      BY <2>1
  <1> HIDE DEF seqs, runs
  <1>3. ASSUME NEW i \in 1..n - 1 PROVE runs[i + 1] = runs[i] \o seqs[i + 1]
    <2>1. i \in Nat /\ i \in 1..n /\ i + 1 \in 1..n /\ 2 * ((i + 1) - 1) = 2 * i
      OBVIOUS
    <2>2. AbbaRun(i) \o Abba(2 * i) = AbbaRun(i + 1)
      BY <2>1, AbbaRunGrows
    <2> QED
      BY <1>1, <2>1, <2>2
  <1>4. seqs[1] = runs[1]
    <2>1. 1 \in 1..n /\ 2 * (1 - 1) = 0
      OBVIOUS
    <2> QED
      BY <1>1, <2>1, AbbaRunOne
  <1>5. FlattenRun(runs, seqs, n)
    BY <1>3, <1>4 DEF FlattenRun
  <1>6. FlattenSeq(seqs) = runs[n]
    BY <1>2, <1>5, FlattenOfRun
  <1> QED
    BY <1>1, <1>6 DEF seqs

(* The loops run the repetitions in the order the manifest declares.       *)
LEMMA LoopsFollowManifest ==
  ASSUME ShapeInv
  PROVE  DeclaredOrder = Schedule
  <1>1. CASE experiment.comparison
    <2> DEFINE n == experiment.reps \div 2
    <2>1. n \in Nat \ {0} /\ 2 * experiment.reps = 4 * n
      <3>1. experiment.reps \in Nat /\ experiment.reps >= 4 /\ experiment.reps % 2 = 0
        BY <1>1, StoreAssumption DEF ShapeInv
      <3> QED
        BY <3>1
    <2>2. Schedule = AbbaRun(n)
      BY <1>1, <2>1 DEF Schedule, AbbaRun
    <2>3. DeclaredOrder = FlattenSeq([k \in 1..n |-> Abba(2 * (k - 1))])
      BY <1>1 DEF DeclaredOrder
    <2> HIDE DEF n
    <2> QED
      BY <2>1, <2>2, <2>3, FlattenAbba
  <1>2. CASE ~experiment.comparison
    BY <1>2 DEF DeclaredOrder, Schedule
  <1> QED
    BY <1>1, <1>2

LEMMA ScheduleTypes ==
  ASSUME ShapeInv
  PROVE  /\ Len(Schedule) \in Nat /\ DOMAIN Schedule = 1..Len(Schedule)
         /\ \A k \in 1..Len(Schedule) : Schedule[k] = <<Schedule[k][1], Schedule[k][2]>>
  <1>1. experiment.reps \in Nat
    BY StoreAssumption DEF ShapeInv
  <1>2. CASE experiment.comparison
    <2>1. Schedule = [k \in 1..2 * experiment.reps |->
                        Abba(((k - 1) \div 4) * 2)[((k - 1) % 4) + 1]]
      BY <1>2 DEF Schedule
    <2>2. ASSUME NEW q PROVE \A j \in 1..4 : Abba(q)[j] = <<Abba(q)[j][1], Abba(q)[j][2]>>
      BY DEF Abba
    <2>3. \A k \in 1..2 * experiment.reps : ((k - 1) % 4) + 1 \in 1..4
      BY <1>1
    <2>4. Len(Schedule) = 2 * experiment.reps /\ DOMAIN Schedule = 1..2 * experiment.reps
      BY <1>1, <2>1
    <2>5. ASSUME NEW k \in 1..2 * experiment.reps
          PROVE  Schedule[k] = <<Schedule[k][1], Schedule[k][2]>>
      <3>1. Schedule[k] = Abba(((k - 1) \div 4) * 2)[((k - 1) % 4) + 1]
        BY <2>1
      <3> QED
        BY <2>2, <2>3, <3>1
    <2> QED
      BY <1>1, <2>4, <2>5
  <1>3. CASE ~experiment.comparison
    BY <1>1, <1>3 DEF Schedule
  <1> QED
    BY <1>2, <1>3

LEMMA FourDivision ==
  ASSUME NEW k \in Nat \ {0}
  PROVE  \E q \in Nat, m \in 0..3 :
           q = (k - 1) \div 4 /\ m = (k - 1) % 4 /\ k = 4 * q + m + 1
  <1>1. PICK n \in Nat : n = k - 1
    OBVIOUS
  <1>2. PICK q \in Nat : q = n \div 4
    OBVIOUS
  <1>3. PICK m \in 0..3 : m = n % 4
    OBVIOUS
  <1>4. n = 4 * q + m
    BY <1>2, <1>3
  <1>5. k = 4 * q + m + 1
    BY <1>1, <1>4
  <1> WITNESS q \in Nat, m \in 0..3
  <1> QED
    BY <1>1, <1>2, <1>3, <1>5

(* No repetition has two slots.                                            *)
LEMMA ScheduleInjective ==
  ASSUME ShapeInv, NEW j \in 1..Len(Schedule), NEW k \in 1..Len(Schedule),
         Schedule[j] = Schedule[k]
  PROVE  j = k
  <1>1. experiment.reps \in Nat
    BY StoreAssumption DEF ShapeInv
  <1>2. CASE experiment.comparison
    <2>1. Schedule = [n \in 1..2 * experiment.reps |->
                        Abba(((n - 1) \div 4) * 2)[((n - 1) % 4) + 1]]
      BY <1>2 DEF Schedule
    <2>2. j \in 1..2 * experiment.reps /\ k \in 1..2 * experiment.reps
      BY <1>1, <2>1
    <2>3. PICK p \in Nat, l \in 0..3 :
            p = (j - 1) \div 4 /\ l = (j - 1) % 4 /\ j = 4 * p + l + 1
      <3>1. j \in Nat \ {0}
        BY <1>1, <2>2
      <3> QED
        BY <3>1, FourDivision
    <2>4. PICK q \in Nat, m \in 0..3 :
            q = (k - 1) \div 4 /\ m = (k - 1) % 4 /\ k = 4 * q + m + 1
      <3>1. k \in Nat \ {0}
        BY <1>1, <2>2
      <3> QED
        BY <3>1, FourDivision
    <2>5. Abba(p * 2)[l + 1] = Abba(q * 2)[m + 1]
      BY <2>1, <2>2, <2>3, <2>4
    <2>6. Abba(p * 2)[l + 1] = <<IF l \in {0, 3} THEN "baseline" ELSE "candidate",
                                 IF l \in {0, 1} THEN p * 2 ELSE p * 2 + 1>>
      BY DEF Abba
    <2>7. Abba(q * 2)[m + 1] = <<IF m \in {0, 3} THEN "baseline" ELSE "candidate",
                                 IF m \in {0, 1} THEN q * 2 ELSE q * 2 + 1>>
      BY DEF Abba
    <2>8. /\ l \in {0, 3} <=> m \in {0, 3}
          /\ (IF l \in {0, 1} THEN p * 2 ELSE p * 2 + 1) =
               IF m \in {0, 1} THEN q * 2 ELSE q * 2 + 1
      BY <2>5, <2>6, <2>7
    <2> QED
      BY <2>3, <2>4, <2>8
  <1>3. CASE ~experiment.comparison
    <2>1. Schedule = [n \in 1..experiment.reps |-> <<"candidate", n - 1>>]
      BY <1>3 DEF Schedule
    <2> QED
      BY <1>1, <2>1
  <1> QED
    BY <1>2, <1>3

(* Every repetition before the slot an invocation is at is complete.       *)
AtRepetition(i) == proc[i].at \in {"worker", "files", "write", "open", "rename", "stamp"}
Passed(i) ==
  /\ proc[i].slot \in Nat \ {0}
  /\ ~At(i, "documents") =>
       \A j \in 1..Len(Schedule) : j < proc[i].slot => RepetitionComplete(Schedule[j])
  /\ AtRepetition(i) => proc[i].slot <= Len(Schedule)
  /\ At(i, "stamp") => RepetitionComplete(Job(i))

(* The records follow the schedule.                                        *)
RecordsFollow ==
  \A t \in DOMAIN records : \A k \in 1..Len(Schedule) :
    Schedule[k] = <<t[1], t[2]>> => \A j \in 1..k - 1 : RepetitionComplete(Schedule[j])

OrderInv == RecordsFollow /\ \A i \in Invocations : Passed(i)

LEMMA OrderInit == Init => OrderInv
  <1> SUFFICES ASSUME Init PROVE OrderInv
    OBVIOUS
  <1>1. RecordsFollow
    BY DEF Init, RecordsFollow
  <1>2. ASSUME NEW i \in Invocations PROVE Passed(i)
    <2>1. proc[i] = Idle
      BY DEF Init, Invocations
    <2>2. proc[i].slot = 1 /\ proc[i].at = "idle"
      BY <2>1 DEF Idle
    <2>3. \A j \in 1..Len(Schedule) : ~(j < 1)
      BY ShapeInit, ScheduleTypes
    <2> QED
      BY <2>2, <2>3 DEF Passed, AtRepetition, At
  <1> QED
    BY <1>1, <1>2 DEF OrderInv

(* The ways a step moves its invocation in the schedule.                   *)
Leaves(i) == proc'[i].at = "idle" /\ proc'[i].slot = 1
Stays(i) ==
  /\ proc'[i].slot = proc[i].slot /\ ~At(i, "documents")
  /\ AtRepetition(i)' => AtRepetition(i) \/ proc[i].slot <= Len(Schedule)
  /\ At(i, "stamp")' => At(i, "stamp") \/ RepetitionComplete(Job(i))
Advances(i) ==
  /\ proc'[i].at = "schedule" /\ proc'[i].slot = proc[i].slot + 1
  /\ RepetitionComplete(Job(i)) /\ ~At(i, "documents")
Stamps(i) ==
  /\ proc'[i].at = "schedule" /\ proc'[i].slot = proc[i].slot + 1
  /\ At(i, "stamp")
Projects(i) == proc'[i].at = "documents" /\ proc'[i].slot \in {1, proc[i].slot + 1}

LEMMA PlaceStep ==
  ASSUME ShapeInv, NEW i \in Invocations, InvocationNext(i)
  PROVE  Leaves(i) \/ Stays(i) \/ Advances(i) \/ Stamps(i) \/ Projects(i)
  <1>1. Shaped(proc[i]) /\ proc = [j \in Invocations |-> proc[j]]
    BY DEF ShapeInv
  <1>2. CASE Exit(i)
    BY <1>2, SetPoint DEF Leaves
  <1>3. ASSUME NEW label, label \notin {"worker", "files", "write", "open", "rename", "stamp"},
               Move(i, label), ~At(i, "documents")
        PROVE  Stays(i)
    BY <1>3, SetPoint DEF Stays, AtRepetition, At
  <1>4. CASE CreateRunDir(i) \/ Resume(i) \/ Summarize(i) \/ ScheduleDone(i)
    BY <1>3, <1>4 DEF CreateRunDir, Resume, Summarize, ScheduleDone, At
  <1>5. CASE WorkerStartFails(i) \/ Crash(i)
    BY <1>2, <1>5 DEF WorkerStartFails, Crash
  <1>6. ASSUME NEW s \in Stores, WriteManifestTemp(i, s) PROVE Leaves(i) \/ Stays(i)
    <2>1. proc[i].at \in {"candidate", "baseline"}
      BY <1>6 DEF WriteManifestTemp, At, Stores
    <2>2. proc' = proc \/ Exit(i) \/ Move(i, "schedule")
      BY <1>6 DEF WriteManifestTemp
    <2>3. CASE proc' = proc
      BY <2>1, <2>3 DEF Stays, At, AtRepetition
    <2>4. ~At(i, "documents")
      BY <2>1 DEF At
    <2>5. CASE Move(i, "schedule")
      BY <1>3, <2>4, <2>5
    <2>6. CASE Exit(i)
      BY <2>6, SetPoint DEF Leaves
    <2> QED
      BY <2>2, <2>3, <2>5, <2>6
  <1>7. ASSUME NEW s \in Stores, RenameManifest(i, s) PROVE Stays(i)
    BY <1>3, <1>7 DEF RenameManifest, At, Stores
  <1>8. CASE Manage(i)
    <2>1. At(i, "managed") /\ ~At(i, "documents")
      BY <1>8 DEF Manage, At
    <2>2. Exit(i) \/ Move(i, "schedule") \/ Move(i, "baseline")
      BY <1>8 DEF Manage
    <2> QED
      BY <1>2, <1>3, <2>1, <2>2
  <1>9. CASE SkipComplete(i) \/ WorkerAlreadyComplete(i) \/ FinishRepetition(i)
    <2>1. /\ RecordRepetition(i, FALSE) \/ RecordRepetition(i, proc[i].fresh)
          /\ RepetitionComplete(Job(i)) /\ ~At(i, "documents")
          /\ AtRepetition(i) \/ proc[i].slot <= Len(Schedule)
      BY <1>9 DEF SkipComplete, WorkerAlreadyComplete, FinishRepetition, At, AtRepetition
    <2>2. CASE NextSlot(i)
      BY <2>1, <2>2, SetPoint DEF Advances
    <2>3. CASE proc'[i].at = "stamp" /\ proc'[i].slot = proc[i].slot
      BY <2>1, <2>3 DEF Stays
    <2> QED
      BY <2>1, <2>2, <2>3, SetPoint
  <1>19. CASE Stamp(i)
    BY <1>2, <1>19, SetPoint DEF Stamp, Stamps, At
  <1>10. CASE StartWorker(i)
    <2>1. At(i, "schedule") /\ proc[i].slot <= Len(Schedule)
      BY <1>10 DEF StartWorker
    <2>2. CASE ~Exit(i)
      <3>1. proc'[i] = [proc[i] EXCEPT !.at = "worker", !.by = attempts'[Job(i)]]
        BY <1>1, <1>10, <2>2 DEF StartWorker
      <3>2. proc'[i].slot = proc[i].slot /\ proc'[i].at = "worker"
        BY <1>1, <3>1 DEF Shaped
      <3> QED
        BY <2>1, <3>2 DEF Stays, At
    <2> QED
      BY <1>2, <2>2
  <1>11. ASSUME AtRepetition(i), proc'[i].slot = proc[i].slot, proc'[i].at # "stamp"
         PROVE  Stays(i)
    BY <1>11 DEF Stays, At, AtRepetition
  <1>12. CASE WorkerBegin(i)
    <2>1. CASE ~Exit(i)
      <3>1. proc'[i] = [proc[i] EXCEPT !.at = "files", !.file = 1,
                                       !.fresh = ~RepetitionStarted(Job(i))]
        BY <1>1, <1>12, <2>1 DEF WorkerBegin
      <3>2. proc'[i].slot = proc[i].slot /\ proc'[i].at = "files"
        BY <1>1, <3>1 DEF Shaped
      <3> QED
        BY <1>11, <1>12, <3>2 DEF WorkerBegin, At, AtRepetition
    <2> QED
      BY <1>2, <2>1
  <1>13. CASE FileDone(i) \/ RecordsWritten(i)
    <2>1. proc' = [proc EXCEPT ![i].file = proc[i].file + 1]
            \/ proc' = [proc EXCEPT ![i].at = "files", ![i].file = proc[i].file + 1]
      BY <1>13 DEF FileDone, RecordsWritten
    <2>2. proc'[i] = [proc[i] EXCEPT !.file = proc[i].file + 1]
            \/ proc'[i] = [proc[i] EXCEPT !.at = "files", !.file = proc[i].file + 1]
      BY <1>1, <2>1
    <2>3. proc'[i].slot = proc[i].slot /\ proc'[i].at \in {proc[i].at, "files"}
      BY <1>1, <2>2 DEF Shaped
    <2> QED
      BY <1>11, <1>13, <2>3 DEF FileDone, RecordsWritten, At, AtRepetition
  <1>14. CASE ExecuteFile(i)
    <2>1. PICK todo : proc' = [proc EXCEPT ![i].at = "write", ![i].todo = todo]
      BY <1>14 DEF ExecuteFile
    <2>2. proc'[i] = [proc[i] EXCEPT !.at = "write", !.todo = todo]
      BY <1>1, <2>1
    <2>3. proc'[i].slot = proc[i].slot /\ proc'[i].at = "write"
      BY <1>1, <2>2 DEF Shaped
    <2> QED
      BY <1>11, <1>14, <2>3 DEF ExecuteFile, At, AtRepetition
  <1>15. CASE CheckRecord(i) \/ WriteTemp(i)
    <2>1. AtRepetition(i)
      BY <1>15 DEF CheckRecord, WriteTemp, At, AtRepetition
    <2>2. Exit(i) \/ Move(i, "open") \/ Move(i, "rename")
      BY <1>15 DEF CheckRecord, WriteTemp
    <2> QED
      BY <1>2, <1>11, <2>1, <2>2, SetPoint
  <1>16. CASE RenameRecord(i)
    <2>1. CASE ~Exit(i)
      <3>1. proc'[i] = [proc[i] EXCEPT !.at = "write", !.todo = Tail(proc[i].todo)]
        BY <1>1, <1>16, <2>1 DEF RenameRecord
      <3>2. proc'[i].slot = proc[i].slot /\ proc'[i].at = "write"
        BY <1>1, <3>1 DEF Shaped
      <3> QED
        BY <1>11, <1>16, <3>2 DEF RenameRecord, At, AtRepetition
    <2> QED
      BY <1>2, <2>1
  <1>17. CASE ReadRecords(i)
    <2>1. CASE ~Exit(i)
      <3>1. PICK status : proc' = [proc EXCEPT ![i].at = "documents", ![i].slot = 1,
                                               ![i].seen = status]
        BY <1>17, <2>1 DEF ReadRecords
      <3>2. proc'[i] = [proc[i] EXCEPT !.at = "documents", !.slot = 1, !.seen = status]
        BY <1>1, <3>1
      <3> QED
        BY <1>1, <3>2 DEF Shaped, Projects
    <2> QED
      BY <1>2, <2>1
  <1>18. CASE WriteDocument(i)
    <2>1. CASE ~Exit(i)
      <3>1. proc' = [proc EXCEPT ![i].slot = proc[i].slot + 1]
        BY <1>18, <2>1 DEF WriteDocument
      <3>2. proc'[i] = [proc[i] EXCEPT !.slot = proc[i].slot + 1]
        BY <1>1, <3>1
      <3>3. proc'[i].at = proc[i].at /\ proc'[i].slot = proc[i].slot + 1
        BY <1>1, <3>2 DEF Shaped
      <3> QED
        BY <1>18, <3>3 DEF WriteDocument, At, Projects
    <2> QED
      BY <1>2, <2>1
  <1> QED
    BY <1>4, <1>5, <1>6, <1>7, <1>8, <1>9, <1>10, <1>12, <1>13, <1>14, <1>15, <1>16, <1>17, <1>18,
       <1>19
       DEF InvocationNext, Step

(* Records are only added, at the slot of the invocation.                  *)
LEMMA RecordsGrow ==
  ASSUME NEW i \in Invocations, InvocationNext(i)
  PROVE  /\ DOMAIN records \subseteq DOMAIN records'
         /\ \A t \in DOMAIN records' \ DOMAIN records : t = Target(i) /\ At(i, "rename")
  <1>1. CASE RenameRecord(i)
    <2>1. CASE Target(i) \in DOMAIN temp
      <3>1. At(i, "rename") /\ records' = Put(records, Target(i), temp[Target(i)])
        BY <1>1, <2>1 DEF RenameRecord
      <3> QED
        BY <3>1 DEF Put
    <2> QED
      BY <1>1, <2>1 DEF RenameRecord
  <1>2. CASE WriteTemp(i)
    BY <1>2 DEF WriteTemp
  <1> QED
    BY <1>1, <1>2, RecordSteps

(* What is complete stays complete, and the schedule is that of the run.   *)
LEMMA CompleteStays ==
  ASSUME experiment' = experiment, DOMAIN records \subseteq DOMAIN records'
  PROVE  /\ Schedule' = Schedule
         /\ \A job : RepetitionComplete(job) => RepetitionComplete(job)'
  BY DEF Schedule, RepetitionComplete, RepetitionTargets, RecordExists, CandidatesOf, Files

LEMMA OrderStep ==
  ASSUME ShapeInv, OrderInv, NEW i \in Invocations, InvocationNext(i)
  PROVE  OrderInv'
  <1>1. /\ experiment' = experiment /\ Invocations' = Invocations
        /\ \A j \in Invocations \ {i} : proc'[j] = proc[j]
    BY OwnPoint DEF Invocations
  <1>2. /\ DOMAIN records \subseteq DOMAIN records'
        /\ \A t \in DOMAIN records' \ DOMAIN records : t = Target(i) /\ At(i, "rename")
    BY RecordsGrow
  <1>3. PICK sched : sched = Schedule
    OBVIOUS
  <1>4. Schedule' = sched
    BY <1>1, <1>2, <1>3, CompleteStays
  <1>5. \A job : RepetitionComplete(job) => RepetitionComplete(job)'
    BY <1>1, <1>2, CompleteStays
  <1>6. Len(sched) \in Nat
    BY <1>3, ScheduleTypes
  <1>7. /\ proc[i].slot \in Nat \ {0}
        /\ ~At(i, "documents") =>
             \A j \in 1..Len(sched) : j < proc[i].slot => RepetitionComplete(sched[j])
        /\ AtRepetition(i) => proc[i].slot <= Len(sched)
        /\ At(i, "stamp") => RepetitionComplete(sched[proc[i].slot])
    BY <1>3 DEF OrderInv, Passed, Job
  <1>8. RecordsFollow'
    <2> SUFFICES ASSUME NEW t \in DOMAIN records', NEW k \in 1..Len(sched),
                        sched[k] = <<t[1], t[2]>>, NEW j \in 1..k - 1
                 PROVE  RepetitionComplete(sched[j])
      BY <1>4, <1>5 DEF RecordsFollow
    <2>1. CASE t \in DOMAIN records
      BY <1>3, <2>1 DEF OrderInv, RecordsFollow
    <2>2. CASE t \notin DOMAIN records
      <3>1. t = Target(i) /\ At(i, "rename")
        BY <1>2, <2>2
      <3>2. proc[i].slot \in 1..Len(sched)
        BY <1>6, <1>7, <3>1 DEF At, AtRepetition
      <3>3. t[1] = sched[proc[i].slot][1] /\ t[2] = sched[proc[i].slot][2]
        BY <1>3, <3>1 DEF Target, Job
      <3>4. sched[k] = sched[proc[i].slot]
        BY <1>3, <3>2, <3>3, ScheduleTypes
      <3>5. k = proc[i].slot
        BY <1>3, <3>2, <3>4, ScheduleInjective
      <3>6. j \in 1..Len(sched) /\ j < proc[i].slot /\ ~At(i, "documents")
        BY <1>6, <3>1, <3>5 DEF At
      <3> QED
        BY <1>7, <3>6
    <2> QED
      BY <2>1, <2>2
  <1>9. Passed(i)'
    <2> SUFFICES
          /\ proc'[i].slot \in Nat \ {0}
          /\ proc'[i].at # "documents" =>
               \A j \in 1..Len(sched) : j < proc'[i].slot => RepetitionComplete(sched[j])
          /\ AtRepetition(i)' => proc'[i].slot <= Len(sched)
          /\ At(i, "stamp")' => RepetitionComplete(sched[proc'[i].slot])
      BY <1>4, <1>5 DEF Passed, At, Job
    <2>1. CASE Leaves(i)
      BY <1>6, <2>1 DEF Leaves, AtRepetition, At
    <2>2. CASE Stays(i)
      BY <1>3, <1>7, <2>2 DEF Stays, Job
    <2>3. CASE Advances(i) \/ Stamps(i)
      <3>1. \A j \in 1..Len(sched) : j < proc[i].slot + 1 => RepetitionComplete(sched[j])
        <4> SUFFICES ASSUME NEW j \in 1..Len(sched), j < proc[i].slot + 1
                     PROVE  RepetitionComplete(sched[j])
          OBVIOUS
        <4>1. CASE j = proc[i].slot
          BY <1>3, <1>7, <2>3, <4>1 DEF Advances, Stamps, Job
        <4>2. CASE j # proc[i].slot
          <5>1. j < proc[i].slot
            BY <1>6, <1>7, <4>2
          <5> QED
            BY <1>7, <2>3, <5>1 DEF Advances, Stamps, At
        <4> QED
          BY <4>1, <4>2
      <3> QED
        BY <1>7, <2>3, <3>1 DEF Advances, Stamps, AtRepetition, At
    <2>4. CASE Projects(i)
      BY <1>7, <2>4 DEF Projects, AtRepetition, At
    <2> QED
      BY <2>1, <2>2, <2>3, <2>4, PlaceStep
  <1>10. ASSUME NEW j \in Invocations \ {i} PROVE Passed(j)'
    <2>1. Passed(j)
      BY DEF OrderInv
    <2> QED
      BY <1>1, <1>3, <1>4, <1>5, <2>1 DEF Passed, At, AtRepetition, Job
  <1> QED
    BY <1>1, <1>8, <1>9, <1>10 DEF OrderInv

LEMMA OrderNext == ShapeInv /\ OrderInv /\ [Next]_vars => OrderInv'
  <1> SUFFICES ASSUME ShapeInv, OrderInv, [Next]_vars PROVE OrderInv'
    OBVIOUS
  <1>1. CASE Drift \/ UNCHANGED vars
    <2>1. UNCHANGED <<experiment, records, proc>>
      BY <1>1 DEF Drift, vars
    <2>2. PICK sched : sched = Schedule
      OBVIOUS
    <2>3. Schedule' = sched /\ \A job : RepetitionComplete(job) => RepetitionComplete(job)'
      BY <2>1, <2>2, CompleteStays
    <2>4. RecordsFollow'
      BY <2>1, <2>2, <2>3 DEF OrderInv, RecordsFollow
    <2>5. ASSUME NEW i \in Invocations PROVE Passed(i)'
      <3>1. Passed(i)
        BY DEF OrderInv
      <3> QED
        BY <2>1, <2>2, <2>3, <3>1 DEF Passed, At, AtRepetition, Job
    <2>6. Invocations' = Invocations
      BY <2>1 DEF Invocations
    <2> QED
      BY <2>4, <2>5, <2>6 DEF OrderInv
  <1> QED
    BY <1>1, OrderStep, NextSteps

(* A repetition has a record only when every repetition before it in the   *)
(* order the manifest declares is complete, whatever crashed and was       *)
(* resumed and however many invocations share the directory                *)
(* (run_isolated_repetitions, run_abba_comparison).                        *)
THEOREM RepetitionsInDeclaredOrder == Spec => []InDeclaredOrder
  <1>1. ASSUME ShapeInv, OrderInv PROVE InDeclaredOrder
    <2>1. DeclaredOrder = Schedule /\ DOMAIN Schedule = 1..Len(Schedule)
      BY <1>1, LoopsFollowManifest, ScheduleTypes
    <2> SUFFICES ASSUME NEW k \in 1..Len(Schedule), RepetitionStarted(Schedule[k]),
                        NEW j \in 1..k - 1
                 PROVE  RepetitionComplete(Schedule[j])
      BY <2>1 DEF InDeclaredOrder
    <2>2. PICK t \in DOMAIN records : t \in RepetitionTargets(Schedule[k])
      BY DEF RepetitionStarted, RecordExists
    <2>3. t[1] = Schedule[k][1] /\ t[2] = Schedule[k][2]
      BY <2>2 DEF RepetitionTargets
    <2>4. Schedule[k] = <<t[1], t[2]>>
      BY <1>1, <2>3, ScheduleTypes
    <2> QED
      BY <1>1, <2>4 DEF OrderInv, RecordsFollow
  <1> QED
    BY <1>1, ShapeInit, ShapeNext, OrderInit, OrderNext, PTL DEF Spec
-----------------------------------------------------------------------------
(* One worker per measured repetition.                                     *)

(* An invocation is in a repetition, and it alone ever was.                *)
InRepetition(i) == proc[i].at \in {"files", "write", "open", "rename", "stamp"}
Mine(i) == InRepetition(i) /\ Job(i) \notin contended

(* The records of the repetition a worker runs afresh are its own, ...     *)
OwnRecords(i) ==
  Mine(i) /\ proc[i].fresh = TRUE =>
    \A t \in RepetitionTargets(Job(i)) : RecordExists(t) => records[t].by = proc[i].by

(* ... so is the temporary file it renames over a free target, and no      *)
(* record of the repetition appeared since it looked for one.              *)
OwnTarget(i) ==
  Mine(i) =>
    /\ proc[i].at \in {"open", "rename"} => ~RecordExists(Target(i))
    /\ At(i, "rename") => Target(i) \in DOMAIN temp /\ temp[Target(i)].by = proc[i].by
    /\ At(i, "stamp") => Job(i) \notin DOMAIN timing

Alone ==
  \A i, j \in Invocations :
    i # j /\ InRepetition(i) /\ InRepetition(j) /\ Job(i) = Job(j) => Job(i) \in contended

Uniform(job) == \A t, u \in RepetitionTargets(job) : records[t].by = records[u].by
TimedComplete ==
  \A job \in DOMAIN timing :
    /\ job = <<job[1], job[2]>> /\ RepetitionComplete(job)
    /\ timing[job] = "measured" /\ job \notin contended => Uniform(job)

OwnInv == Alone /\ TimedComplete /\ \A i \in Invocations : OwnRecords(i) /\ OwnTarget(i)

LEMMA OwnInit == Init => OwnInv
  BY DEF Init, OwnInv, Alone, TimedComplete, OwnRecords, OwnTarget, Mine, InRepetition,
         Invocations, Idle

(* A repetition is a pair, and its targets name it.                        *)
LEMMA JobPair ==
  ASSUME ShapeInv, OrderInv, NEW i \in Invocations, InRepetition(i)
  PROVE  /\ Job(i) = <<Job(i)[1], Job(i)[2]>>
         /\ <<Target(i)[1], Target(i)[2]>> = Job(i)
         /\ \A t \in RepetitionTargets(Job(i)) : <<t[1], t[2]>> = Job(i)
  <1>1. proc[i].slot \in Nat \ {0} /\ proc[i].slot <= Len(Schedule)
    BY DEF OrderInv, Passed, AtRepetition, InRepetition
  <1>2. Job(i) = <<Job(i)[1], Job(i)[2]>>
    BY <1>1, ScheduleTypes DEF Job
  <1>3. Target(i)[1] = Job(i)[1] /\ Target(i)[2] = Job(i)[2]
    BY DEF Target
  <1>4. \A t \in RepetitionTargets(Job(i)) : t[1] = Job(i)[1] /\ t[2] = Job(i)[2]
    BY DEF RepetitionTargets
  <1> QED
    BY <1>2, <1>3, <1>4

(* The steps outside the worker's loop over the files.                     *)
OutsideFiles(i) ==
  \/ CreateRunDir(i) \/ Resume(i) \/ Summarize(i) \/ WorkerStartFails(i) \/ Crash(i)
  \/ \E s \in Stores : WriteManifestTemp(i, s) \/ RenameManifest(i, s)
  \/ Manage(i) \/ StartWorker(i) \/ ScheduleDone(i) \/ ReadRecords(i) \/ WriteDocument(i)

LEMMA Outside ==
  ASSUME ShapeInv, NEW i \in Invocations, OutsideFiles(i)
  PROVE  ~InRepetition(i)'
  <1>1. Shaped(proc[i]) /\ proc = [j \in Invocations |-> proc[j]]
    BY DEF ShapeInv
  <1>2. CASE \E a \in {"candidate", "managed", "schedule", "project", "baseline"} : Move(i, a)
    BY <1>2, SetPoint DEF InRepetition
  <1>3. CASE Exit(i)
    BY <1>3, SetPoint DEF InRepetition
  <1>4. CASE CreateRunDir(i) \/ Resume(i) \/ Summarize(i) \/ WorkerStartFails(i) \/ Crash(i)
    BY <1>2, <1>3, <1>4 DEF CreateRunDir, Resume, Summarize, WorkerStartFails, Crash
  <1>5. ASSUME NEW s \in Stores, WriteManifestTemp(i, s) PROVE ~InRepetition(i)'
    <2>1. proc' = proc \/ Exit(i) \/ Move(i, "schedule")
      BY <1>5 DEF WriteManifestTemp
    <2>2. CASE proc' = proc
      BY <1>5, <2>2 DEF WriteManifestTemp, At, InRepetition, Stores
    <2> QED
      BY <1>2, <1>3, <2>1, <2>2
  <1>6. ASSUME NEW s \in Stores, RenameManifest(i, s) PROVE ~InRepetition(i)'
    BY <1>2, <1>6 DEF RenameManifest, Stores
  <1>7. CASE Manage(i) \/ ScheduleDone(i)
    BY <1>2, <1>3, <1>7 DEF Manage, ScheduleDone
  <1>8. CASE StartWorker(i)
    <2>1. PICK by : Exit(i) \/ proc' = [proc EXCEPT ![i].at = "worker", ![i].by = by]
      BY <1>8 DEF StartWorker
    <2>2. CASE proc'[i] = [proc[i] EXCEPT !.at = "worker", !.by = by]
      <3>1. proc'[i].at = "worker"
        BY <1>1, <2>2 DEF Shaped
      <3> QED
        BY <3>1 DEF InRepetition
    <2> QED
      BY <1>1, <1>3, <2>1, <2>2
  <1>9. CASE ReadRecords(i)
    <2>1. PICK v : Exit(i) \/ proc' = [proc EXCEPT ![i].at = "documents", ![i].slot = 1,
                                                   ![i].seen = v]
      BY <1>9 DEF ReadRecords
    <2>2. CASE proc'[i] = [proc[i] EXCEPT !.at = "documents", !.slot = 1, !.seen = v]
      <3>1. proc'[i].at = "documents"
        BY <1>1, <2>2 DEF Shaped
      <3> QED
        BY <3>1 DEF InRepetition
    <2> QED
      BY <1>1, <1>3, <2>1, <2>2
  <1>10. CASE WriteDocument(i)
    <2>1. Exit(i) \/ proc' = [proc EXCEPT ![i].slot = proc[i].slot + 1]
      BY <1>1, <1>10 DEF WriteDocument
    <2>2. CASE proc'[i] = [proc[i] EXCEPT !.slot = proc[i].slot + 1]
      <3>1. proc'[i].at = "documents"
        BY <1>1, <1>10, <2>2 DEF Shaped, WriteDocument, At
      <3> QED
        BY <3>1 DEF InRepetition
    <2> QED
      BY <1>1, <1>3, <2>1, <2>2
  <1> QED
    BY <1>4, <1>5, <1>6, <1>7, <1>8, <1>9, <1>10 DEF OutsideFiles

(* Whoever is in a repetition after a step was there, or takes it up now.  *)
LEMMA Entering ==
  ASSUME ShapeInv, NEW i \in Invocations, InvocationNext(i), InRepetition(i)'
  PROVE  /\ proc'[i].slot = proc[i].slot
         /\ InRepetition(i) \/ TakeUp(i)
  <1>1. proc'[i].slot = proc[i].slot
    <2>1. proc'[i].at \notin {"idle", "schedule", "documents"}
      BY DEF InRepetition
    <2> QED
      BY <2>1, PlaceStep DEF Leaves, Stays, Advances, Stamps, Projects
  <1>2. ~OutsideFiles(i) /\ ~NextSlot(i) /\ ~Exit(i)
    BY Outside, SetPoint DEF InRepetition
  <1>3. CASE SkipComplete(i) \/ WorkerAlreadyComplete(i)
    BY <1>1, <1>2, <1>3 DEF SkipComplete, WorkerAlreadyComplete, RecordRepetition
  <1>4. CASE WorkerBegin(i)
    BY <1>1, <1>2, <1>4 DEF WorkerBegin
  <1>5. CASE FileDone(i) \/ ExecuteFile(i) \/ CheckRecord(i) \/ WriteTemp(i) \/ RenameRecord(i)
               \/ RecordsWritten(i) \/ FinishRepetition(i) \/ Stamp(i)
    BY <1>1, <1>5
       DEF FileDone, ExecuteFile, CheckRecord, WriteTemp, RenameRecord, RecordsWritten,
           FinishRepetition, Stamp, At, InRepetition
  <1> QED
    BY <1>2, <1>3, <1>4, <1>5 DEF InvocationNext, Step, OutsideFiles

(* A contended repetition stays so, and an invocation stays at its own.    *)
LEMMA ContendedGrows ==
  ASSUME NEW i \in Invocations, InvocationNext(i)
  PROVE  contended \subseteq contended'
  BY DEF InvocationNext, CreateRunDir, Resume, Summarize, Step, WorkerStartFails, Crash,
         WriteManifestTemp, RenameManifest, Manage, SkipComplete, StartWorker, ScheduleDone,
         WorkerAlreadyComplete, WorkerBegin, FileDone, ExecuteFile, CheckRecord, WriteTemp,
         RenameRecord, RecordsWritten, FinishRepetition, Stamp, ReadRecords, WriteDocument,
         RecordRepetition, TakeUp

LEMMA SameTargets ==
  ASSUME experiment' = experiment
  PROVE  /\ Schedule' = Schedule
         /\ \A job : RepetitionTargets(job)' = RepetitionTargets(job)
  BY DEF Schedule, RepetitionTargets, CandidatesOf, Files

LEMMA AloneNext ==
  ASSUME ShapeInv, OwnInv, NEW i \in Invocations, InvocationNext(i)
  PROVE  Alone'
  <1>1. /\ experiment' = experiment /\ Schedule' = Schedule /\ Invocations' = Invocations
        /\ \A j \in Invocations \ {i} : proc'[j] = proc[j]
    BY OwnPoint, SameTargets DEF Invocations
  <1>2. ASSUME NEW k \in Invocations \ {i}, InRepetition(i)', InRepetition(k)', Job(i)' = Job(k)'
        PROVE  Job(i)' \in contended'
    <2>1. InRepetition(k) /\ Job(k)' = Job(k)
      BY <1>1, <1>2 DEF InRepetition, Job
    <2>2. Job(i)' = Job(i)
      BY <1>1, <1>2, Entering DEF Job
    <2>3. CASE InRepetition(i)
      BY <1>2, <2>1, <2>2, <2>3, ContendedGrows DEF OwnInv, Alone
    <2>4. CASE TakeUp(i)
      BY <1>2, <2>1, <2>2, <2>4 DEF TakeUp, Working, InRepetition
    <2> QED
      BY <1>2, <2>3, <2>4, Entering
  <1>3. ASSUME NEW j \in Invocations \ {i}, NEW k \in Invocations \ {i}, j # k,
               InRepetition(j)', InRepetition(k)', Job(j)' = Job(k)'
        PROVE  Job(j)' \in contended'
    <2>1. /\ InRepetition(j) /\ InRepetition(k)
          /\ Job(j)' = Job(j) /\ Job(k)' = Job(k)
      BY <1>1, <1>3 DEF InRepetition, Job
    <2> QED
      BY <1>3, <2>1, ContendedGrows DEF OwnInv, Alone
  <1> SUFFICES ASSUME NEW j \in Invocations, NEW k \in Invocations, j # k,
                      InRepetition(j)', InRepetition(k)', Job(j)' = Job(k)'
               PROVE  Job(j)' \in contended'
    BY <1>1 DEF Alone
  <1> QED
    BY <1>2, <1>3

(* A step touches one target, or the record of the repetition it is in.    *)
LEMMA TimingSteps ==
  ASSUME NEW i \in Invocations, InvocationNext(i)
  PROVE  \/ timing' = timing
         \/ /\ Stamp(i)
            /\ timing' = Put(timing, Job(i), IF proc[i].fresh THEN "measured" ELSE "unmeasured")
  BY DEF InvocationNext, CreateRunDir, Resume, Summarize, Step, WorkerStartFails, Crash,
         WriteManifestTemp, RenameManifest, Manage, SkipComplete, StartWorker, ScheduleDone,
         WorkerAlreadyComplete, WorkerBegin, FileDone, ExecuteFile, CheckRecord, WriteTemp,
         RenameRecord, RecordsWritten, FinishRepetition, Stamp, ReadRecords, WriteDocument

LEMMA Untouched ==
  ASSUME NEW i \in Invocations, InvocationNext(i)
  PROVE  /\ \A t : ~(InRepetition(i) /\ t = Target(i)) =>
              /\ t \in DOMAIN records' <=> t \in DOMAIN records
              /\ t \in DOMAIN temp' <=> t \in DOMAIN temp
              /\ t \in DOMAIN records => records'[t] = records[t]
              /\ t \in DOMAIN temp => temp'[t] = temp[t]
         /\ \A job : ~(At(i, "stamp") /\ job = Job(i)) =>
              /\ job \in DOMAIN timing' <=> job \in DOMAIN timing
              /\ job \in DOMAIN timing => timing'[job] = timing[job]
  <1>1. \A t : ~(InRepetition(i) /\ t = Target(i)) =>
              /\ t \in DOMAIN records' <=> t \in DOMAIN records
              /\ t \in DOMAIN temp' <=> t \in DOMAIN temp
              /\ t \in DOMAIN records => records'[t] = records[t]
              /\ t \in DOMAIN temp => temp'[t] = temp[t]
    <2>1. CASE WriteTemp(i)
      <3>1. PICK v : temp' = Put(temp, Target(i), v)
        BY <2>1 DEF WriteTemp
      <3>2. records' = records /\ InRepetition(i)
        BY <2>1 DEF WriteTemp, InRepetition, At
      <3> QED
        BY <3>1, <3>2 DEF Put
    <2>2. CASE RenameRecord(i)
      <3>1. \/ /\ records' = Put(records, Target(i), temp[Target(i)])
               /\ temp' = [t \in DOMAIN temp \ {Target(i)} |-> temp[t]]
            \/ UNCHANGED <<records, temp>>
        BY <2>2 DEF RenameRecord
      <3>2. InRepetition(i)
        BY <2>2 DEF RenameRecord, InRepetition, At
      <3> QED
        BY <3>1, <3>2 DEF Put
    <2> QED
      BY <2>1, <2>2, RecordSteps
  <1>2. \A job : ~(At(i, "stamp") /\ job = Job(i)) =>
              /\ job \in DOMAIN timing' <=> job \in DOMAIN timing
              /\ job \in DOMAIN timing => timing'[job] = timing[job]
    <2>1. timing' = timing \/ (Stamp(i) /\ \E v : timing' = Put(timing, Job(i), v))
      BY TimingSteps
    <2>2. Stamp(i) => At(i, "stamp")
      BY DEF Stamp
    <2> QED
      BY <2>1, <2>2 DEF Put
  <1> QED
    BY <1>1, <1>2

(* What another invocation has for its own stays its own.                  *)
LEMMA OthersKeep ==
  ASSUME ShapeInv, OrderInv, OwnInv, NEW i \in Invocations, InvocationNext(i),
         NEW k \in Invocations \ {i}
  PROVE  OwnRecords(k)' /\ OwnTarget(k)'
  <1> SUFFICES ASSUME Mine(k)' PROVE OwnRecords(k)' /\ OwnTarget(k)'
    BY DEF OwnRecords, OwnTarget
  <1>1. /\ proc'[k] = proc[k] /\ Schedule' = Schedule
        /\ \A job : RepetitionTargets(job)' = RepetitionTargets(job)
    BY OwnPoint, SameTargets
  <1>2. Job(k)' = Job(k) /\ Target(k)' = Target(k)
    BY <1>1 DEF Job, Target
  <1>3. Mine(k) /\ InRepetition(k)
    BY <1>1, <1>2, ContendedGrows DEF Mine, InRepetition
  <1>4. ~(InRepetition(i) /\ Job(i) = Job(k))
    BY <1>3 DEF OwnInv, Alone, Mine
  <1>5. \A t \in RepetitionTargets(Job(k)) \union {Target(k)} :
           ~(InRepetition(i) /\ t = Target(i))
    BY <1>3, <1>4, JobPair
  <1>6. OwnRecords(k) /\ OwnTarget(k)
    BY DEF OwnInv
  <1>7. OwnRecords(k)'
    <2>1. RepetitionTargets(Job(k))' = RepetitionTargets(Job(k))
      BY <1>1, <1>2
    <2> QED
      BY <1>1, <1>3, <1>5, <1>6, <2>1, Untouched DEF OwnRecords, RecordExists
  <1>8. OwnTarget(k)'
    <2>1. ~(At(i, "stamp") /\ Job(k) = Job(i))
      BY <1>4 DEF At, InRepetition
    <2>2. \A t \in {Target(k)} : ~(InRepetition(i) /\ t = Target(i))
      BY <1>5
    <2>3. /\ Target(k) \in DOMAIN records' <=> Target(k) \in DOMAIN records
          /\ Target(k) \in DOMAIN temp => Target(k) \in DOMAIN temp' /\ temp'[Target(k)] = temp[Target(k)]
          /\ Job(k) \in DOMAIN timing' <=> Job(k) \in DOMAIN timing
      BY <2>1, <2>2, Untouched
    <2> QED
      BY <1>1, <1>2, <1>3, <1>6, <2>3 DEF OwnTarget, RecordExists, At
  <1> QED
    BY <1>7, <1>8

(* The records of a repetition stay the worker's own while it stays at it. *)
LEMMA SameRepetition ==
  ASSUME NEW i \in Invocations, OwnRecords(i), InRepetition(i),
         UNCHANGED <<experiment, records>>, contended \subseteq contended',
         proc'[i].slot = proc[i].slot, proc'[i].by = proc[i].by,
         proc'[i].fresh = proc[i].fresh
  PROVE  OwnRecords(i)'
  <1>1. Job(i)' = Job(i) /\ \A job : RepetitionTargets(job)' = RepetitionTargets(job)
    BY SameTargets DEF Job
  <1>2. RepetitionTargets(Job(i))' = RepetitionTargets(Job(i))
    BY <1>1
  <1>3. Mine(i)' => Mine(i)
    BY <1>1 DEF Mine
  <1> QED
    BY <1>2, <1>3 DEF OwnRecords, RecordExists

(* The repetition record of a complete repetition is on its way.           *)
LEMMA OwnTiming ==
  ASSUME ShapeInv, OwnInv, NEW i \in Invocations,
         SkipComplete(i) \/ WorkerAlreadyComplete(i) \/ FinishRepetition(i)
  PROVE  OwnRecords(i)' /\ OwnTarget(i)'
  <1>1. /\ UNCHANGED <<experiment, records, temp, timing>>
        /\ RecordRepetition(i, FALSE)
             \/ (At(i, "files") /\ RecordRepetition(i, proc[i].fresh))
    BY DEF SkipComplete, WorkerAlreadyComplete, FinishRepetition
  <1>2. CASE NextSlot(i)
    BY <1>2, SetPoint DEF OwnRecords, OwnTarget, Mine, InRepetition
  <1>3. CASE ~NextSlot(i)
    <2>1. /\ proc'[i].at = "stamp" /\ proc'[i].slot = proc[i].slot
          /\ Job(i) \notin DOMAIN timing
      BY <1>1, <1>3, SetPoint
    <2>2. Job(i)' = Job(i)
      BY <1>1, <2>1, SameTargets DEF Job
    <2>3. OwnTarget(i)'
      BY <1>1, <2>1, <2>2 DEF OwnTarget, At
    <2>4. CASE proc'[i].fresh = FALSE
      BY <2>3, <2>4 DEF OwnRecords
    <2>5. CASE At(i, "files") /\ proc'[i].fresh = proc[i].fresh /\ proc'[i].by = proc[i].by
      <3>1. contended \subseteq contended'
        BY <1>1, <1>3 DEF RecordRepetition, TakeUp
      <3>2. InRepetition(i) /\ OwnRecords(i)
        BY <2>5 DEF InRepetition, At, OwnInv
      <3> QED
        BY <1>1, <2>1, <2>3, <2>5, <3>1, <3>2, SameRepetition
    <2> QED
      BY <1>1, <1>3, <2>4, <2>5, SetPoint
  <1> QED
    BY <1>2, <1>3

(* A step in the loop over the files that adds no record.                  *)
LEMMA OwnLoop ==
  ASSUME ShapeInv, OwnInv, NEW i \in Invocations,
         WorkerBegin(i) \/ FileDone(i) \/ ExecuteFile(i) \/ CheckRecord(i) \/ WriteTemp(i)
           \/ RecordsWritten(i)
  PROVE  OwnRecords(i)' /\ OwnTarget(i)'
  <1>1. Shaped(proc[i]) /\ proc = [j \in Invocations |-> proc[j]]
    BY DEF ShapeInv
  <1>2. UNCHANGED <<experiment, records, timing>> /\ contended \subseteq contended'
    BY DEF WorkerBegin, FileDone, ExecuteFile, CheckRecord, WriteTemp, RecordsWritten, TakeUp
  <1>3. OwnRecords(i) /\ OwnTarget(i)
    BY DEF OwnInv
  <1>4. CASE Exit(i)
    BY <1>4, SetPoint DEF OwnRecords, OwnTarget, Mine, InRepetition
  <1>5. ASSUME ~(proc'[i].at \in {"open", "rename", "stamp"}) PROVE OwnTarget(i)'
    BY <1>5 DEF OwnTarget, At
  <1>6. CASE WorkerBegin(i)
    <2>1. CASE ~Exit(i)
      <3>1. proc' = [proc EXCEPT ![i].at = "files", ![i].file = 1,
                                 ![i].fresh = ~RepetitionStarted(Job(i))]
        BY <1>6, <2>1 DEF WorkerBegin
      <3>2. proc'[i] = [proc[i] EXCEPT !.at = "files", !.file = 1,
                                       !.fresh = ~RepetitionStarted(Job(i))]
        BY <1>1, <3>1
      <3>3. /\ proc'[i].at = "files" /\ proc'[i].slot = proc[i].slot
            /\ proc'[i].fresh = ~RepetitionStarted(Job(i))
        BY <1>1, <3>2 DEF Shaped
      <3>4. RepetitionTargets(Job(i))' = RepetitionTargets(Job(i))
        BY <1>2, <3>3 DEF Job, Schedule, RepetitionTargets, CandidatesOf, Files
      <3>5. OwnRecords(i)'
        BY <1>2, <3>3, <3>4 DEF OwnRecords, RepetitionStarted, RecordExists
      <3> QED
        BY <1>5, <3>3, <3>5
    <2> QED
      BY <1>4, <2>1
  <1>7. CASE FileDone(i)
    <2>1. proc'[i] = [proc[i] EXCEPT !.file = proc[i].file + 1] /\ At(i, "files")
      BY <1>1, <1>7 DEF FileDone
    <2>2. /\ proc'[i].at = "files" /\ proc'[i].slot = proc[i].slot
          /\ proc'[i].by = proc[i].by /\ proc'[i].fresh = proc[i].fresh
      BY <1>1, <2>1 DEF Shaped, At
    <2> QED
      BY <1>2, <1>3, <1>5, <2>1, <2>2, SameRepetition DEF InRepetition, At
  <1>8. CASE ExecuteFile(i)
    <2>1. PICK todo : proc' = [proc EXCEPT ![i].at = "write", ![i].todo = todo]
      BY <1>8 DEF ExecuteFile
    <2>2. proc'[i] = [proc[i] EXCEPT !.at = "write", !.todo = todo]
      BY <1>1, <2>1
    <2>3. /\ proc'[i].at = "write" /\ proc'[i].slot = proc[i].slot
          /\ proc'[i].by = proc[i].by /\ proc'[i].fresh = proc[i].fresh
      BY <1>1, <2>2 DEF Shaped
    <2>4. At(i, "files")
      BY <1>8 DEF ExecuteFile
    <2> QED
      BY <1>2, <1>3, <1>5, <2>3, <2>4, SameRepetition DEF InRepetition, At
  <1>9. CASE RecordsWritten(i)
    <2>1. proc'[i] = [proc[i] EXCEPT !.at = "files", !.file = proc[i].file + 1]
      BY <1>1, <1>9 DEF RecordsWritten
    <2>2. /\ proc'[i].at = "files" /\ proc'[i].slot = proc[i].slot
          /\ proc'[i].by = proc[i].by /\ proc'[i].fresh = proc[i].fresh
      BY <1>1, <2>1 DEF Shaped
    <2>3. At(i, "write")
      BY <1>9 DEF RecordsWritten
    <2> QED
      BY <1>2, <1>3, <1>5, <2>2, <2>3, SameRepetition DEF InRepetition, At
  <1>10. ASSUME NEW a, Move(i, a)
         PROVE  Target(i)' = Target(i) /\ (Mine(i)' => Mine(i) \/ ~InRepetition(i))
    <2>1. /\ proc'[i].slot = proc[i].slot /\ proc'[i].file = proc[i].file
          /\ proc'[i].todo = proc[i].todo
      BY <1>10, SetPoint
    <2>2. Job(i)' = Job(i)
      BY <1>2, <2>1 DEF Job, Schedule
    <2> QED
      BY <1>2, <2>1, <2>2 DEF Target, Mine
  <1>11. CASE CheckRecord(i)
    <2>1. At(i, "write")
      BY <1>11 DEF CheckRecord
    <2>2. CASE Move(i, "open") /\ ~RecordExists(Target(i))
      <3>1. /\ proc'[i].at = "open" /\ proc'[i].slot = proc[i].slot
            /\ proc'[i].by = proc[i].by /\ proc'[i].fresh = proc[i].fresh
        BY <2>2, SetPoint
      <3>2. OwnTarget(i)'
        BY <1>2, <1>10, <2>2, <3>1 DEF OwnTarget, At, RecordExists
      <3> QED
        BY <1>2, <1>3, <2>1, <3>1, <3>2, SameRepetition DEF InRepetition, At
    <2> QED
      BY <1>4, <1>11, <2>2 DEF CheckRecord
  <1>12. CASE WriteTemp(i)
    <2>1. At(i, "open") /\ Move(i, "rename") /\ InRepetition(i)
      BY <1>12 DEF WriteTemp, InRepetition, At
    <2>2. /\ proc'[i].at = "rename" /\ proc'[i].slot = proc[i].slot
          /\ proc'[i].by = proc[i].by /\ proc'[i].fresh = proc[i].fresh
      BY <2>1, SetPoint
    <2>3. Target(i) \in DOMAIN temp' /\ temp'[Target(i)].by = proc[i].by
      BY <1>12 DEF WriteTemp, Put
    <2>4. OwnTarget(i)'
      BY <1>2, <1>3, <1>10, <2>1, <2>2, <2>3 DEF OwnTarget, At, RecordExists
    <2> QED
      BY <1>2, <1>3, <2>1, <2>2, <2>4, SameRepetition
  <1> QED
    BY <1>6, <1>7, <1>8, <1>9, <1>11, <1>12

LEMMA OwnRename ==
  ASSUME ShapeInv, OwnInv, NEW i \in Invocations, RenameRecord(i)
  PROVE  OwnRecords(i)' /\ OwnTarget(i)'
  <1>1. Shaped(proc[i]) /\ proc = [j \in Invocations |-> proc[j]]
    BY DEF ShapeInv
  <1>2. At(i, "rename") /\ InRepetition(i) /\ OwnRecords(i) /\ OwnTarget(i)
    BY DEF OwnInv, RenameRecord, InRepetition, At
  <1>3. CASE Exit(i)
    BY <1>3, SetPoint DEF OwnRecords, OwnTarget, Mine, InRepetition
  <1>4. CASE ~Exit(i)
    <2>1. /\ records' = Put(records, Target(i), temp[Target(i)])
          /\ proc' = [proc EXCEPT ![i].at = "write", ![i].todo = Tail(@)]
          /\ experiment' = experiment /\ contended' = contended
      BY <1>4 DEF RenameRecord
    <2>2. /\ proc'[i].at = "write" /\ proc'[i].slot = proc[i].slot
          /\ proc'[i].by = proc[i].by /\ proc'[i].fresh = proc[i].fresh
      <3>1. proc'[i] = [proc[i] EXCEPT !.at = "write", !.todo = Tail(proc[i].todo)]
        BY <1>1, <2>1
      <3> QED
        BY <1>1, <3>1 DEF Shaped
    <2>3. OwnTarget(i)'
      BY <2>2 DEF OwnTarget, At
    <2>4. Job(i)' = Job(i) /\ RepetitionTargets(Job(i))' = RepetitionTargets(Job(i))
      <3>1. Job(i)' = Job(i) /\ \A job : RepetitionTargets(job)' = RepetitionTargets(job)
        BY <2>1, <2>2, SameTargets DEF Job
      <3> QED
        BY <3>1
    <2>5. ASSUME Mine(i)' PROVE OwnRecords(i)'
      <3>1. Mine(i)
        BY <1>2, <2>1, <2>4, <2>5 DEF Mine
      <3>2. temp[Target(i)].by = proc[i].by
        BY <1>2, <3>1 DEF OwnTarget
      <3>3. /\ DOMAIN records' = DOMAIN records \union {Target(i)}
            /\ records'[Target(i)].by = proc[i].by
            /\ \A t \in DOMAIN records \ {Target(i)} : records'[t] = records[t]
        BY <2>1, <3>2 DEF Put
      <3> QED
        BY <1>2, <2>2, <2>4, <3>1, <3>3 DEF OwnRecords, RecordExists
    <2> QED
      BY <2>3, <2>5 DEF OwnRecords
  <1> QED
    BY <1>3, <1>4

(* What is durable stays, except in a contended repetition.                *)
Kept ==
  /\ \A t \in DOMAIN records :
       /\ t \in DOMAIN records'
       /\ <<t[1], t[2]>> \notin contended => records'[t] = records[t]
  /\ \A job \in DOMAIN timing :
       /\ job \in DOMAIN timing'
       /\ job \notin contended => timing'[job] = timing[job]

LEMMA KeptStep ==
  ASSUME ShapeInv, OrderInv, OwnInv, NEW i \in Invocations, InvocationNext(i)
  PROVE  Kept
  <1>1. OwnTarget(i)
    BY DEF OwnInv
  <1>2. \A t \in DOMAIN records : t \in DOMAIN records'
    <2>1. \/ UNCHANGED records
          \/ records' = Put(records, Target(i), temp[Target(i)])
      BY RecordSteps DEF WriteTemp, RenameRecord
    <2> QED
      BY <2>1 DEF Put
  <1>3. \A t \in DOMAIN records : <<t[1], t[2]>> \notin contended => records'[t] = records[t]
    <2> SUFFICES ASSUME NEW t \in DOMAIN records, <<t[1], t[2]>> \notin contended
                 PROVE  records'[t] = records[t]
      OBVIOUS
    <2>1. CASE ~(InRepetition(i) /\ t = Target(i))
      BY <2>1, Untouched
    <2>2. CASE InRepetition(i) /\ t = Target(i)
      <3>1. Mine(i)
        BY <2>2, JobPair DEF Mine
      <3>2. ~At(i, "rename")
        BY <1>1, <2>2, <3>1 DEF OwnTarget, At, RecordExists
      <3> QED
        BY <3>2, RecordSteps DEF WriteTemp, RenameRecord
    <2> QED
      BY <2>1, <2>2
  <1>4. \A job \in DOMAIN timing : job \in DOMAIN timing'
    BY TimingSteps DEF Put
  <1>5. \A job \in DOMAIN timing : job \notin contended => timing'[job] = timing[job]
    <2> SUFFICES ASSUME NEW job \in DOMAIN timing, job \notin contended
                 PROVE  timing'[job] = timing[job]
      OBVIOUS
    <2>1. ~(At(i, "stamp") /\ job = Job(i))
      BY <1>1 DEF OwnTarget, Mine, InRepetition, At
    <2> QED
      BY <2>1, Untouched
  <1> QED
    BY <1>2, <1>3, <1>4, <1>5 DEF Kept

LEMMA TimedNext ==
  ASSUME ShapeInv, OrderInv, OwnInv, NEW i \in Invocations, InvocationNext(i)
  PROVE  TimedComplete'
  <1>1. Kept /\ contended \subseteq contended' /\ experiment' = experiment
    BY KeptStep, ContendedGrows, OwnPoint
  <1>2. \A job : RepetitionTargets(job)' = RepetitionTargets(job)
    BY <1>1, SameTargets
  <1>3. \A job : RepetitionComplete(job) => RepetitionComplete(job)'
    BY <1>1, <1>2 DEF Kept, RepetitionComplete, RecordExists
  <1>4. ASSUME NEW job, job = <<job[1], job[2]>>, RepetitionComplete(job), job \notin contended,
               Uniform(job)
        PROVE  Uniform(job)'
    <2>1. \A t \in RepetitionTargets(job) : t \in DOMAIN records /\ <<t[1], t[2]>> = job
      <3>1. \A t \in RepetitionTargets(job) : t[1] = job[1] /\ t[2] = job[2]
        BY DEF RepetitionTargets
      <3> QED
        BY <1>4, <3>1 DEF RepetitionComplete, RecordExists
    <2>2. \A t \in RepetitionTargets(job) : records'[t] = records[t]
      BY <1>1, <1>4, <2>1 DEF Kept
    <2> QED
      BY <1>2, <1>4, <2>2 DEF Uniform
  <1> SUFFICES ASSUME NEW job \in DOMAIN timing'
               PROVE  /\ job = <<job[1], job[2]>> /\ RepetitionComplete(job)'
                      /\ timing'[job] = "measured" /\ job \notin contended' => Uniform(job)'
    BY DEF TimedComplete
  <1>5. CASE job \in DOMAIN timing
    BY <1>1, <1>3, <1>4, <1>5 DEF OwnInv, TimedComplete, Kept
  <1>6. CASE job \notin DOMAIN timing
    <2>1. /\ Stamp(i) /\ job = Job(i)
          /\ timing' = Put(timing, Job(i), IF proc[i].fresh THEN "measured" ELSE "unmeasured")
      BY <1>6, TimingSteps DEF Put
    <2>2. At(i, "stamp") /\ InRepetition(i)
      BY <2>1 DEF Stamp, InRepetition, At
    <2>3. job = <<job[1], job[2]>> /\ RepetitionComplete(job)
      BY <2>1, <2>2, JobPair DEF OrderInv, Passed
    <2>4. ASSUME timing'[job] = "measured", job \notin contended PROVE Uniform(job)
      <3>1. proc[i].fresh = TRUE
        BY <2>1, <2>4 DEF Put
      <3>2. OwnRecords(i) /\ Mine(i)
        BY <2>1, <2>2, <2>4 DEF OwnInv, Mine
      <3> QED
        BY <2>1, <2>3, <3>1, <3>2 DEF OwnRecords, RepetitionComplete, Uniform
    <2> QED
      BY <1>1, <1>3, <1>4, <2>3, <2>4
  <1> QED
    BY <1>5, <1>6

LEMMA OwnNext == ShapeInv /\ OrderInv /\ OwnInv /\ [Next]_vars => OwnInv'
  <1> SUFFICES ASSUME ShapeInv, OrderInv, OwnInv, [Next]_vars PROVE OwnInv'
    OBVIOUS
  <1>1. ASSUME NEW i \in Invocations, InvocationNext(i) PROVE OwnInv'
    <2>1. OwnRecords(i)' /\ OwnTarget(i)'
      <3>1. CASE OutsideFiles(i) \/ Stamp(i)
        <4>1. ~InRepetition(i)'
          BY <3>1, Outside, SetPoint DEF Stamp, InRepetition
        <4> QED
          BY <4>1 DEF OwnRecords, OwnTarget, Mine
      <3>2. CASE SkipComplete(i) \/ WorkerAlreadyComplete(i) \/ FinishRepetition(i)
        BY <3>2, OwnTiming
      <3>3. CASE WorkerBegin(i) \/ FileDone(i) \/ ExecuteFile(i) \/ CheckRecord(i)
                   \/ WriteTemp(i) \/ RecordsWritten(i)
        BY <3>3, OwnLoop
      <3>4. CASE RenameRecord(i)
        BY <3>4, OwnRename
      <3> QED
        BY <1>1, <3>1, <3>2, <3>3, <3>4 DEF InvocationNext, Step, OutsideFiles
    <2>2. \A k \in Invocations : OwnRecords(k)' /\ OwnTarget(k)'
      BY <1>1, <2>1, OthersKeep
    <2>3. Invocations' = Invocations
      BY <1>1, OwnPoint DEF Invocations
    <2> QED
      BY <1>1, <2>2, <2>3, AloneNext, TimedNext DEF OwnInv
  <1>2. CASE UNCHANGED <<experiment, records, timing, temp, proc, contended>>
    <2>1. Schedule' = Schedule /\ \A job : RepetitionTargets(job)' = RepetitionTargets(job)
      BY <1>2, SameTargets
    <2>2. \A i : /\ Job(i)' = Job(i) /\ Target(i)' = Target(i)
                 /\ InRepetition(i)' = InRepetition(i)
      BY <1>2, <2>1 DEF Job, Target, InRepetition
    <2>3. \A i : RepetitionTargets(Job(i))' = RepetitionTargets(Job(i))
      BY <2>1, <2>2
    <2>4. \A i : Mine(i)' <=> Mine(i)
      BY <1>2, <2>2 DEF Mine
    <2>5. ASSUME NEW i \in Invocations PROVE OwnRecords(i)' /\ OwnTarget(i)'
      <3>1. OwnRecords(i) /\ OwnTarget(i)
        BY DEF OwnInv
      <3> QED
        BY <1>2, <2>2, <2>3, <2>4, <3>1 DEF OwnRecords, OwnTarget, RecordExists, At
    <2>6. Alone'
      BY <1>2, <2>2 DEF OwnInv, Alone, Invocations
    <2>7. TimedComplete'
      BY <1>2, <2>1 DEF OwnInv, TimedComplete, RepetitionComplete, RecordExists, Uniform
    <2> QED
      BY <1>2, <2>5, <2>6, <2>7 DEF OwnInv, Invocations
  <1> QED
    BY <1>1, <1>2, NextSteps DEF Drift, vars

(* Records may be compared: written with the pinned inputs, and a          *)
(* repetition whose time counts is complete and was produced by one        *)
(* worker, whatever crashed and was resumed and however many invocations   *)
(* work on the run, unless two of them were in this very repetition at the *)
(* same moment (execute_store_repetition, write_record).                   *)
THEOREM RecordsStayComparable == Spec => []RecordsComparable
  <1>1. ShapeInv /\ PinnedInv /\ OwnInv => RecordsComparable
    BY DEF PinnedInv, OwnInv, TimedComplete, Uniform, RecordsComparable
  <1> QED
    BY <1>1, ShapeInit, ShapeNext, PinnedInit, PinnedNext, OrderInit, OrderNext,
       OwnInit, OwnNext, PTL DEF Spec

(* What is durable stays: no step removes a record, a record of a          *)
(* repetition or a manifest, and only in a repetition two invocations were *)
(* in at the same moment does one change a record (write_record,           *)
(* write_repetition_record, atomic_write_new, create_run_dir).             *)
THEOREM NothingDurableChanges == Spec => DurableStays
  <1> DEFINE ManifestKept == \A s \in Stores : manifest[s] = "written" => manifest'[s] = "written"
  <1>1. ASSUME ShapeInv, NEW i \in Invocations, InvocationNext(i)
        PROVE  ManifestKept
    <2>1. \/ manifest' = manifest
          \/ \E s \in Stores, v \in {"bare", "partial"} :
               manifest[s] # "written" /\ manifest' = [manifest EXCEPT ![s] = v]
          \/ \E s \in Stores : manifest' = [manifest EXCEPT ![s] = "written"]
      BY <1>1
         DEF InvocationNext, CreateRunDir, Resume, Summarize, Step, WorkerStartFails, Crash,
             WriteManifestTemp, RenameManifest, Manage, SkipComplete, StartWorker, ScheduleDone,
             WorkerAlreadyComplete, WorkerBegin, FileDone, ExecuteFile, CheckRecord, WriteTemp,
             RenameRecord, RecordsWritten, FinishRepetition, Stamp, ReadRecords, WriteDocument,
             Stores
    <2>2. manifest = [s \in Stores |-> manifest[s]]
      BY <1>1 DEF ShapeInv
    <2> QED
      BY <2>1, <2>2
  <1>2. ASSUME Drift \/ UNCHANGED vars PROVE Kept /\ ManifestKept
    BY <1>2 DEF Drift, vars, Kept
  <1>3. ShapeInv /\ OrderInv /\ OwnInv /\ [Next]_vars => [Kept /\ ManifestKept]_vars
    BY <1>1, <1>2, KeptStep, NextSteps
  <1> QED
    BY <1>3, ShapeInit, ShapeNext, OrderInit, OrderNext, OwnInit, OwnNext, PTL
       DEF Spec, DurableStays, Kept
-----------------------------------------------------------------------------
(* A window holds 592 steps of frames, and a step at least one.            *)
FramesApart(a, b) ==
  /\ ClosestFrame(a) + 589 <= ClosestFrame(160000 + b) + 1
  /\ a + 270 <= b => ClosestFrame(a) < ClosestFrame(b)

LEMMA FramesGrow ==
  ASSUME NEW a \in Nat, NEW b \in Nat, a <= b
  PROVE  FramesApart(a, b)
  <1>1. PICK p \in Nat : p = ClosestFrame(a) /\ p * 540 <= 2 * a + 270 /\ 2 * a + 270 < p * 540 + 540
    BY DEF ClosestFrame
  <1>2. PICK q \in Nat : q = ClosestFrame(b) /\ q * 540 <= 2 * b + 270 /\ 2 * b + 270 < q * 540 + 540
    BY DEF ClosestFrame
  <1>3. PICK r \in Nat : /\ r = ClosestFrame(160000 + b)
                         /\ r * 540 <= 320000 + 2 * b + 270 /\ 320000 + 2 * b + 270 < r * 540 + 540
    BY DEF ClosestFrame
  <1>4. p + 589 <= r + 1
    BY <1>1, <1>3
  <1>5. a + 270 <= b => p < q
    BY <1>1, <1>2
  <1> QED
    BY <1>1, <1>2, <1>3, <1>4, <1>5 DEF FramesApart

FramesHold(starts, frames) ==
  /\ \A c \in DOMAIN starts :
       /\ starts[c] + 589 <= frames
       /\ c > 1 => starts[c] > starts[c - 1]
  /\ starts # <<>> => starts[1] = 0

LEMMA LayoutIsSound ==
  ASSUME NEW windows \in Nat, NEW step \in Nat, step >= 270
  PROVE  FramesHold(StartFrames(windows, step), OutputFrames(windows, step))
  <1> DEFINE starts == StartFrames(windows, step)
             frames == OutputFrames(windows, step)
  <1>1. DOMAIN starts = 1 .. windows /\ \A c \in 1 .. windows : starts[c] = ClosestFrame((c - 1) * step)
    BY DEF StartFrames
  <1>2. ASSUME NEW c \in 1 .. windows
        PROVE  starts[c] + 589 <= frames /\ (c > 1 => starts[c] > starts[c - 1])
    <2>1. PICK m \in Nat, l \in Nat : m = c - 1 /\ l = windows - 1 /\ m <= l
      OBVIOUS
    <2>2. PICK a \in Nat, b \in Nat : a = m * step /\ b = l * step /\ a <= b
      <3>1. m * step \in Nat /\ l * step \in Nat
        OBVIOUS
      <3>2. m * step <= l * step
        BY <2>1, TimesMonotone
      <3> QED
        BY <3>1, <3>2
    <2>3. starts[c] = ClosestFrame(a) /\ frames = ClosestFrame(160000 + b) + 1
      BY <1>1, <2>1, <2>2 DEF OutputFrames
    <2>4. starts[c] + 589 <= frames
      <3>1. FramesApart(a, b)
        BY <2>2, FramesGrow
      <3> QED
        BY <2>3, <3>1 DEF FramesApart
    <2>5. ASSUME c > 1 PROVE starts[c] > starts[c - 1]
      <3>1. PICK k \in Nat : k + 1 = m /\ c - 1 \in 1 .. windows /\ (c - 1) - 1 = k
        BY <2>1, <2>5
      <3>2. PICK d \in Nat : d = k * step
        OBVIOUS
      <3>3. a = d + step
        BY <2>2, <3>1, <3>2, Distribute
      <3>4. starts[c - 1] = ClosestFrame(d)
        BY <1>1, <3>1, <3>2
      <3>5. d <= a /\ d + 270 <= a
        BY <3>3
      <3>6. FramesApart(d, a)
        BY <3>5, FramesGrow
      <3>7. ClosestFrame(d) \in Nat /\ ClosestFrame(a) \in Nat
        BY DEF ClosestFrame
      <3> QED
        BY <2>3, <3>4, <3>5, <3>6, <3>7 DEF FramesApart
    <2> QED
      BY <2>4, <2>5
  <1>3. ASSUME starts # <<>> PROVE starts[1] = 0
    <2>1. 1 \in 1 .. windows
      BY <1>3 DEF StartFrames
    <2>2. starts[1] = ClosestFrame(0 * step)
      BY <1>1, <2>1
    <2>3. 0 * step = 0 /\ ClosestFrame(0) = 0
      BY DEF ClosestFrame
    <2> QED
      BY <2>2, <2>3
  <1> QED
    BY <1>1, <1>2, <1>3 DEF FramesHold

LEMMA LaddersAreLists ==
  ASSUME NEW layout, NEW ladder
  PROVE  ChunkWindows(layout, ladder) \in Seq(Nat)
  <1>1. <<21, 36, 51, 81, 111>> \in Seq(Nat)
    OBVIOUS
  <1>2. <<21, 51, 111>> \in Seq(Nat)
    OBVIOUS
  <1>3. <<11, 16, 21, 26, 36, 46, 56>> \in Seq(Nat)
    OBVIOUS
  <1> QED
    BY <1>1, <1>2, <1>3 DEF ChunkWindows

SpecsFollow(specs, files, layout, config) ==
  specs = [i \in DOMAIN config |->
             [asset |-> CHOOSE a \in ChunkAssets(files, layout, config[i]) : TRUE,
              windows |-> config[i], frames |-> FbankFrames(layout, config[i]),
              masks |-> 3 * config[i]]]

(* If every window of a ladder has a bundle there is a session for each,   *)
(* in the order of the ladder.                                             *)
LEMMA SpecsOfLadder ==
  ASSUME NEW files, NEW mode, NEW exper, IsCoreMl(mode),
         NEW config \in Seq(Nat), config = ChunkSessionConfig(mode, exper),
         NEW layout, layout = ChunkLayoutOf(mode, exper),
         \A w \in Range(config) : ChunkAssets(files, layout, w) # {}
  PROVE  SpecsFollow(ChunkSessionSpecs(files, mode, exper), files, layout, config)
  <1> DEFINE spec(w) == [asset |-> CHOOSE a \in ChunkAssets(files, layout, w) : TRUE,
                         windows |-> w, frames |-> FbankFrames(layout, w), masks |-> 3 * w]
             f == [i \in DOMAIN config |-> spec(config[i])]
             X == {spec(config[i]) : i \in DOMAIN config}
             maps == [i \in DOMAIN config |->
                        IF ChunkAssets(files, layout, config[i]) = {} THEN <<>>
                        ELSE <<spec(config[i])>>]
  <1>1. PICK n \in Nat : DOMAIN config = 1..n
    BY LenProperties
  <1>2. ChunkSessionSpecs(files, mode, exper) = FlattenSeq(maps)
    BY DEF ChunkSessionSpecs
  <1>3. \A i \in DOMAIN config : ChunkAssets(files, layout, config[i]) # {}
    BY DEF Range
  <1>4. maps = [i \in DOMAIN config |-> <<f[i]>>]
    <2> HIDE DEF spec
    <2> QED
      BY <1>3
  <1>5. f \in [1..n -> X]
    <2> HIDE DEF spec
    <2> QED
      BY <1>1
  <1>6. FlattenSeq([i \in 1..n |-> <<f[i]>>]) = f
    <2> HIDE DEF f, X
    <2> QED
      BY <1>5, FlattenSingletons
  <1>7. FlattenSeq(maps) = f
    <2> HIDE DEF f, maps
    <2> QED
      BY <1>1, <1>4, <1>6
  <1> HIDE DEF f, maps
  <1>8. ChunkSessionSpecs(files, mode, exper) = f
    BY <1>2, <1>7
  <1> QED
    BY <1>8 DEF f, SpecsFollow

(* What a specification asks for if it passes both checks.                 *)
Runnable(spec, files) ==
  /\ spec.mode \in {"coreml", "coreml-fast"}
  /\ spec.layout \in IF spec.mode = "coreml" THEN {"p1s", "per-window"} ELSE {"s25"}
  /\ spec.ladder = "full" \/ spec.layout = "p1s"
  /\ LayoutAssets(spec) \subseteq files

LEMMA CheckedIsRunnable ==
  ASSUME NEW spec, NEW files, spec.mode \in {"coreml", "coreml-fast"},
         Validate(spec), EnsureRunnable(spec, files)
  PROVE  Runnable(spec, files)
  <1>1. ValidateInference(spec)
    BY DEF Validate, ValidateDomain
  <1>2. spec.layout \notin Archived /\ LayoutAssets(spec) \subseteq files
    BY DEF EnsureRunnable
  <1> QED
    BY <1>1, <1>2 DEF Runnable, ValidateInference

LEMMA RunnableLadder ==
  ASSUME NEW spec, NEW files, Runnable(spec, files)
  PROVE  /\ IsCoreMl(spec.mode)
         /\ ChunkLayoutOf(spec.mode, ExperimentOf(spec)) = spec.layout
         /\ ChunkSessionConfig(spec.mode, ExperimentOf(spec)) = ChunkWindows(spec.layout, spec.ladder)
         /\ RequiredWindows(spec.layout, spec.ladder) = ChunkWindows(spec.layout, spec.ladder)
         /\ UsesNativeChunkSessions(spec.mode, ExperimentOf(spec)) <=> spec.layout # "per-window"
  <1>1. IsCoreMl(spec.mode)
    BY DEF Runnable, IsCoreMl
  <1>2. ExperimentOf(spec) # <<>> /\ ExperimentOf(spec)[1].layout = spec.layout
        /\ ExperimentOf(spec)[1].ladder = spec.ladder
    BY DEF ExperimentOf
  <1>3. spec.layout \in {"p1s", "per-window", "s25"}
    BY DEF Runnable
  <1>4. RequiredWindows(spec.layout, spec.ladder) = ChunkWindows(spec.layout, spec.ladder)
    BY <1>3 DEF RequiredWindows
  <1> QED
    BY <1>1, <1>2, <1>4 DEF ChunkLayoutOf, ChunkSessionConfig, UsesNativeChunkSessions

(* Its chunk sessions have a bundle each: the full-precision one, or one   *)
(* that a profile looks for.                                               *)
LEMMA RunnableBundles ==
  ASSUME NEW spec, NEW files, Runnable(spec, files),
         NEW w \in Range(ChunkWindows(spec.layout, spec.ladder))
  PROVE  /\ ChunkAssets(files, spec.layout, w) # {}
         /\ ChunkAssets(files, spec.layout, w) \subseteq
              ProfiledModels(spec, files) \cup {Native(spec.layout, w)}
  <1>1. spec.layout # "per-window"
    <2>1. spec.layout = "per-window" => ChunkWindows(spec.layout, spec.ladder) = <<>>
      BY DEF ChunkWindows
    <2>2. Range(<<>>) = {}
      BY DEF Range
    <2> QED
      BY <2>1, <2>2
  <1>2. <<spec.layout, w, Suffix(spec)>> \in ChunkBundles(spec)
    BY RunnableLadder DEF ChunkBundles
  <1>3. <<spec.layout, w, Suffix(spec)>> \in files
    BY <1>1, <1>2 DEF Runnable, LayoutAssets
  <1>4. spec.layout \notin {"per-window", "per-window-104"}
    BY <1>1 DEF Runnable
  <1>5. <<spec.layout, w, Suffix(spec)>> \in ProfiledModels(spec, files)
    BY <1>2, <1>3, <1>4 DEF ProfiledModels
  <1>6. CASE spec.mode = "coreml-fast"
    <2>1. Suffix(spec) = "w8a16"
      BY <1>6 DEF Suffix
    <2> QED
      BY <1>3, <1>5, <2>1 DEF ChunkAssets
  <1>7. CASE spec.mode = "coreml"
    <2>1. Suffix(spec) = "mlmodelc"
      BY <1>7 DEF Suffix
    <2>2. Native(spec.layout, w) \in files
      BY <1>3, <2>1 DEF Native
    <2> QED
      BY <2>2 DEF ChunkAssets
  <1> QED
    BY <1>6, <1>7 DEF Runnable

LEMMA RunnableLoads ==
  ASSUME NEW spec, NEW files, Runnable(spec, files), DemandedSessions(files) \subseteq files
  PROVE  Loads(files, spec.mode, ExperimentOf(spec))
  <1>1. ExperimentValid(spec.mode, ExperimentOf(spec))
    <2>1. ExperimentOf(spec)[1].layout = spec.layout /\ ExperimentOf(spec)[1].ladder = spec.ladder
      BY DEF ExperimentOf
    <2>2. <<spec.mode, spec.layout>> \in
            {<<"coreml", "p1s">>, <<"coreml", "per-window">>, <<"coreml-fast", "s25">>}
      BY DEF Runnable
    <2>3. spec.ladder = "reduced" => spec.layout = "p1s"
      BY DEF Runnable
    <2> QED
      BY <2>1, <2>2, <2>3 DEF ExperimentValid
  <1>2. {Native("fbank", 1), Native("fbank", SmallBatch), Native("tail", 1),
         Native("tail", ChunkSpeakerBatch), Native("multimask", SmallBatch)} \subseteq files
    BY DEF Runnable, LayoutAssets
  <1>3. spec.layout # "per-window" => Native("fbank-30s", 1) \in files
    BY DEF Runnable, LayoutAssets
  <1>4. ValidateNativeAssets(files, spec.mode, ExperimentOf(spec))
    BY <1>2, <1>3, RunnableLadder, RunnableBundles DEF ValidateNativeAssets
  <1> QED
    BY <1>1, <1>4 DEF Loads

LEMMA RunnableIsMeasured ==
  ASSUME NEW spec, NEW files, Runnable(spec, files),
         NEW specs, specs = ChunkSessionSpecs(files, spec.mode, ExperimentOf(spec)),
         NEW full, full = {Native(spec.layout, w) : w \in Range(RequiredWindows(spec.layout, spec.ladder))}
  PROVE  /\ [i \in DOMAIN specs |-> specs[i].windows] = RequiredWindows(spec.layout, spec.ladder)
         /\ {specs[i].asset : i \in DOMAIN specs} \subseteq ProfiledModels(spec, files) \cup full
  <1>1. PICK config \in Seq(Nat) : config = ChunkWindows(spec.layout, spec.ladder)
    BY LaddersAreLists
  <1>2. config = ChunkSessionConfig(spec.mode, ExperimentOf(spec))
        /\ spec.layout = ChunkLayoutOf(spec.mode, ExperimentOf(spec))
        /\ config = RequiredWindows(spec.layout, spec.ladder) /\ IsCoreMl(spec.mode)
    BY <1>1, RunnableLadder
  <1>3. PICK layout : layout = spec.layout
    OBVIOUS
  <1>4. \A w \in Range(config) : /\ ChunkAssets(files, layout, w) # {}
                                 /\ ChunkAssets(files, layout, w) \subseteq
                                      ProfiledModels(spec, files) \cup {Native(layout, w)}
    BY <1>1, <1>3, RunnableBundles
  <1>5. SpecsFollow(specs, files, layout, config)
    <2>1. PICK mode, exper : mode = spec.mode /\ exper = ExperimentOf(spec)
      OBVIOUS
    <2>2. IsCoreMl(mode) /\ config = ChunkSessionConfig(mode, exper)
          /\ layout = ChunkLayoutOf(mode, exper)
          /\ \A w \in Range(config) : ChunkAssets(files, layout, w) # {}
      BY <1>2, <1>3, <1>4, <2>1
    <2>3. specs = ChunkSessionSpecs(files, mode, exper)
      BY <2>1
    <2> QED
      BY <2>2, <2>3, SpecsOfLadder
  <1>6. DOMAIN specs = DOMAIN config /\ \A i \in DOMAIN config : specs[i].windows = config[i]
    BY <1>5 DEF SpecsFollow
  <1>7. config = [i \in DOMAIN config |-> config[i]]
    OBVIOUS
  <1>8. [i \in DOMAIN specs |-> specs[i].windows] = config
    BY <1>6, <1>7
  <1>9. ASSUME NEW i \in DOMAIN specs
        PROVE  specs[i].asset \in ProfiledModels(spec, files) \cup full
    <2>1. PICK w : w = config[i] /\ w \in Range(config)
      BY <1>6 DEF Range
    <2>2. specs[i].asset = CHOOSE a \in ChunkAssets(files, layout, w) : TRUE
      BY <1>5, <1>6, <2>1 DEF SpecsFollow
    <2>3. specs[i].asset \in ChunkAssets(files, layout, w)
      BY <1>4, <2>1, <2>2
    <2>4. Native(layout, w) \in full
      BY <1>2, <1>3, <2>1
    <2> QED
      BY <1>4, <2>1, <2>3, <2>4
  <1> QED
    BY <1>2, <1>8, <1>9

(* A setting of a candidate that passed validation is in its configuration. *)
LEMMA CandidateApplied ==
  ASSUME NEW mode, NEW c, c.backend \in {"gaussian", "sphere"}, CandidateValid(c), NEW config,
         config = ApplyCandidate(ConfigFor(mode), c)
  PROVE  /\ config.backend = c.backend
         /\ c.iters # Unset => config.iters = c.iters
         /\ c.fb # Unset => config.fb = c.fb
         /\ c.clean # Unset => config.clean = c.clean
  <1>1. c.backend = "sphere" => c.fb = Unset /\ c.iters = Unset
    BY DEF CandidateValid
  <1>2. config = [backend |-> IF c.backend = "gaussian" THEN "gaussian" ELSE c.backend,
                  iters |-> IF c.backend = "gaussian" /\ c.iters # Unset THEN c.iters
                            ELSE ConfigFor(mode).iters,
                  fb |-> IF c.backend = "gaussian" /\ c.fb # Unset THEN c.fb ELSE 8,
                  clean |-> IF c.clean # Unset THEN c.clean ELSE 20]
    BY DEF ApplyCandidate, ConfigFor
  <1> HIDE DEF Unset
  <1> QED
    BY <1>1, <1>2

(* A piece of the file that starts after sample a, as far as sample a + l. *)
Hears(z, a, l) == z \in Seq(Nat) /\ l <= Len(z) /\ \A i \in 1..l : z[i] = a + i
Triple(x) == <<x + 1, x + 2, x + 3>>

LEMMA TripleIs ==
  ASSUME NEW t \in Seq(Nat), Len(t) = 3, NEW x \in Nat, t[1] = x + 1, t[2] = x + 2, t[3] = x + 3
  PROVE  t = Triple(x)
  <1>1. Triple(x) \in Seq(Nat) /\ Len(Triple(x)) = 3
        /\ Triple(x)[1] = x + 1 /\ Triple(x)[2] = x + 2 /\ Triple(x)[3] = x + 3
    BY DEF Triple
  <1>2. PICK u \in Seq(Nat) : u = Triple(x)
    BY <1>1
  <1>3. \A i \in 1..3 : i = 1 \/ i = 2 \/ i = 3
    OBVIOUS
  <1>4. \A i \in 1..3 : t[i] = u[i]
    BY <1>1, <1>2, <1>3
  <1>5. DOMAIN t = 1..3 /\ DOMAIN u = 1..3
    BY <1>1, <1>2, LenProperties
  <1>6. t = [i \in 1..3 |-> t[i]] /\ u = [i \in 1..3 |-> u[i]]
    BY <1>5
  <1> QED
    BY <1>2, <1>4, <1>6

LEMMA FeatureOf ==
  ASSUME NEW z, NEW a \in Nat, NEW l \in Nat, Hears(z, a, l), NEW r \in Nat, r + 3 <= l
  PROVE  r \in DOMAIN Features(z) /\ Features(z)[r] = Triple(a + r)
  <1>1. z \in Seq(Nat) /\ (\A i \in 1..l : z[i] = a + i)
    BY DEF Hears
  <1>2. PICK n \in Nat : n = Len(z) /\ l <= n
    BY <1>1, LenProperties DEF Hears
  <1>3. r \in 0..(n - 2) - 1
    BY <1>2
  <1>4. PICK t : t = SubSeq(z, r + 1, r + 3)
    OBVIOUS
  <1>5. Features(z) = [k \in 0..(n - 2) - 1 |-> SubSeq(z, k + 1, k + 3)]
    BY <1>2 DEF Features, Upto
  <1>6. Features(z)[r] = t
    BY <1>3, <1>4, <1>5
  <1>7. PICK b \in 1..n + 1, e \in Int : b = r + 1 /\ e = r + 3 /\ e \in b - 1..n
    <2>1. r + 1 \in 1..n + 1 /\ r + 3 \in (r + 1) - 1..n
      BY <1>2
    <2> QED
      BY <2>1
  <1>8. /\ t \in Seq(Nat) /\ Len(t) = (IF b <= e THEN e - b + 1 ELSE 0)
        /\ \A i \in 1..e - b + 1 : t[i] = z[b + i - 1]
    BY <1>1, <1>2, <1>4, <1>7, SubSeqProperties
  <1>9. Len(t) = 3 /\ e - b + 1 = 3
    BY <1>7, <1>8
  <1>10. \A i \in 1..3 : t[i] = a + (r + i)
    <2>1. \A i \in 1..3 : b + i - 1 = r + i /\ r + i \in 1..l
      BY <1>7
    <2> QED
      BY <1>1, <1>8, <1>9, <2>1
  <1>11. t[1] = (a + r) + 1 /\ t[2] = (a + r) + 2 /\ t[3] = (a + r) + 3 /\ a + r \in Nat
    BY <1>10
  <1>12. t = Triple(a + r)
    BY <1>8, <1>9, <1>11, TripleIs
  <1> QED
    BY <1>3, <1>5, <1>6, <1>12

LEMMA PieceHears ==
  ASSUME NEW z, NEW a \in Nat, NEW l \in Nat, Hears(z, a, l), NEW o \in Nat, NEW h \in Nat,
         o + h <= l, NEW t, IsPiece(t, z, o, h)
  PROVE  Hears(t, a + o, h) /\ Len(t) = h
  <1>1. z \in Seq(Nat) /\ (\A i \in 1..l : z[i] = a + i)
    BY DEF Hears
  <1>2. o + h <= Len(z)
    BY LenProperties DEF Hears
  <1>2a. PieceOf(t, z, o, h, Nat)
    BY <1>1, <1>2, PieceIs
  <1>3. t \in Seq(Nat) /\ Len(t) = h /\ \A i \in 1..h : t[i] = z[o + i]
    BY <1>2a DEF PieceOf
  <1>4. \A i \in 1..h : t[i] = (a + o) + i
    <2>1. \A i \in 1..h : o + i \in 1..l /\ a + (o + i) = (a + o) + i
      OBVIOUS
    <2> QED
      BY <1>1, <1>3, <2>1
  <1> QED
    BY <1>3, <1>4 DEF Hears

LEMMA PaddedHears ==
  ASSUME NEW z, NEW a \in Nat, NEW l \in Nat, Hears(z, a, l), NEW n \in Nat, l <= n
  PROVE  Hears(ZeroPadded(z, n), a, l) /\ Len(ZeroPadded(z, n)) = n
  <1>1. z \in Seq(Nat) /\ \A i \in 1..l : z[i] = a + i
    BY DEF Hears
  <1>2. PICK t : t = ZeroPadded(z, n)
    OBVIOUS
  <1>3. t = [i \in 1..n |-> IF i \in DOMAIN z THEN z[i] ELSE 0]
    BY <1>2 DEF ZeroPadded
  <1>4. PICK k \in Nat : k = Len(z) /\ DOMAIN z = 1..k /\ l <= k
    BY <1>1, LenProperties DEF Hears
  <1>5. \A i \in 1..n : t[i] \in Nat
    BY <1>1, <1>3, <1>4, ElementOfSeq
  <1>6. t \in Seq(Nat) /\ Len(t) = n
    <2>1. t \in [1..n -> Nat]
      BY <1>3, <1>5
    <2> QED
      BY <1>3, <2>1
  <1>7. \A i \in 1..l : t[i] = a + i
    <2>1. \A i \in 1..l : i \in 1..n /\ i \in 1..k
      BY <1>4
    <2> QED
      BY <1>1, <1>3, <1>4, <2>1
  <1> QED
    BY <1>2, <1>6, <1>7 DEF Hears

(* Whichever way the features of a chunk are computed.                     *)
FbankOf(fbank, a, l, frames) ==
  \A r \in 0..frames - 1 : r + 3 <= l => fbank[r] = Triple(a + r)

LEMMA WholeFeatures ==
  ASSUME NEW p, NEW z, NEW a \in Nat, NEW l \in Nat, Hears(z, a, l), p.whole \in Nat, l <= p.whole,
         NEW frames \in Nat
  PROVE  FbankOf(WholeFbank(p, z, frames), a, l, frames)
  <1>1. PICK all : all = Features(ZeroPadded(z, p.whole))
    OBVIOUS
  <1>2. PICK whole \in Nat : whole = p.whole
    OBVIOUS
  <1>3. WholeFbank(p, z, frames) = [r \in 0..frames - 1 |-> IF r \in DOMAIN all THEN all[r] ELSE NoFeatures]
    BY <1>1 DEF WholeFbank, Upto
  <1>4. ASSUME NEW r \in 0..frames - 1, r + 3 <= l
        PROVE  r \in DOMAIN all /\ all[r] = Triple(a + r)
    <2>1. PICK y : y = ZeroPadded(z, whole)
      OBVIOUS
    <2>2. Hears(y, a, l)
      BY <1>2, <2>1, PaddedHears
    <2> QED
      BY <1>1, <1>2, <1>4, <2>1, <2>2, FeatureOf
  <1> QED
    BY <1>3, <1>4 DEF FbankOf

(* Where frame r lies among segments of f frames.                          *)
InSegment(r, o, k, f) == r = o + k /\ o \in Nat /\ k \in 0..f - 1
                         /\ o = (r \div f) * f /\ k = r % f

LEMMA SegmentOf ==
  ASSUME NEW r \in Nat, NEW f \in Nat \ {0}
  PROVE  \E o, k : InSegment(r, o, k, f)
  <1>1. PICK q \in Nat : q = r \div f
    BY DivBounds
  <1>2. PICK o \in Nat : o = q * f
    OBVIOUS
  <1>3. o <= r /\ r < o + f
    BY <1>1, <1>2, DivBounds
  <1>4. PICK k \in 0..f - 1 : k = r - o
    BY <1>3
  <1>5. r % f = r - f * (r \div f)
    BY Remainder
  <1>6. f * q = o
    BY <1>2
  <1>7. r % f = k
    BY <1>1, <1>4, <1>5, <1>6
  <1>8. r = o + k
    BY <1>4
  <1>9. InSegment(r, o, k, f)
    BY <1>1, <1>2, <1>7, <1>8 DEF InSegment
  <1> QED
    BY <1>9

LEMMA StitchedFeatures ==
  ASSUME NEW p, NEW z, NEW a \in Nat, NEW l \in Nat, Hears(z, a, l), Len(z) = l,
         p.window \in Nat, p.window > 2, NEW frames \in Nat
  PROVE  FbankOf(StitchedFbank(p, z, frames), a, l, frames)
  <1>1. PICK w \in Nat : w = p.window
    OBVIOUS
  <1>2. PICK f \in Nat \ {0} : f = w - 2
    BY <1>1
  <1>3. FbankFramesOf(p) = f /\ FbankSegmentSamples(p) = f
    BY <1>1, <1>2 DEF FbankFramesOf, FbankSegmentSamples
  <1> DEFINE offset(r) == (r \div f) * f
             segment(r) == SubSeq(z, offset(r) + 1, Min({offset(r) + w, l}))
             feature(r) == IF offset(r) < l THEN Features(ZeroPadded(segment(r), w))[r % f] ELSE NoFeatures
  <1>4. StitchedFbank(p, z, frames) = [r \in 0..frames - 1 |-> feature(r)]
    BY <1>1, <1>3 DEF StitchedFbank, Upto
  <1>5. ASSUME NEW r \in 0..frames - 1, r + 3 <= l PROVE feature(r) = Triple(a + r)
    <2>1. PICK o, k : InSegment(r, o, k, f)
      BY <1>2, SegmentOf
    <2>2. r = o + k /\ o \in Nat /\ k \in 0..f - 1 /\ offset(r) = o /\ r % f = k
      BY <2>1 DEF InSegment
    <2>3. o < l
      BY <1>5, <2>2
    <2>4. PICK h \in Nat : h = (IF o + w <= l THEN w ELSE l - o)
      <3>1. l - o \in Nat
        BY <2>2, <2>3
      <3>2. (IF o + w <= l THEN w ELSE l - o) \in Nat
        BY <3>1
      <3> QED
        BY <3>2
    <2>5. Min({o + w, l}) = o + h
      <3>1. Min({o + w, l}) = IF o + w <= l THEN o + w ELSE l
        BY <2>2, MinTwo
      <3> QED
        BY <2>2, <2>3, <2>4, <3>1
    <2>6. PICK t : t = segment(r)
      OBVIOUS
    <2>7. IsPiece(t, z, o, h)
      BY <2>2, <2>5, <2>6 DEF IsPiece
    <2>8. o + h <= l /\ h <= w /\ k + 3 <= h
      BY <1>2, <1>5, <2>2, <2>3, <2>4
    <2>9. Hears(t, a + o, h)
      BY <2>2, <2>7, <2>8, PieceHears
    <2>10. PICK b \in Nat : b = a + o
      BY <2>2
    <2>11. Hears(t, b, h)
      BY <2>9, <2>10
    <2>12. PICK y : y = ZeroPadded(t, w)
      OBVIOUS
    <2>13. Hears(y, b, h)
      BY <2>8, <2>11, <2>12, PaddedHears
    <2>14. Features(y)[k] = Triple(b + k)
      BY <2>2, <2>8, <2>13, FeatureOf
    <2>15. feature(r) = Features(y)[k]
      <3> HIDE DEF segment, offset
      <3> QED
        BY <2>2, <2>3, <2>6, <2>12
    <2>16. b + k = a + r
      BY <2>2, <2>10
    <2> QED
      BY <2>14, <2>15, <2>16
  <1> HIDE DEF feature
  <1> QED
    BY <1>4, <1>5 DEF FbankOf

LEMMA ChunkFeatures ==
  ASSUME NEW p, NEW z, NEW a \in Nat, NEW l \in Nat, Hears(z, a, l), Len(z) = l,
         p.window \in Nat, p.window > 2, p.whole \in Nat, NEW frames \in Nat
  PROVE  FbankOf(ComputeChunkFbanks(p, z, frames), a, l, frames)
  <1>1. CASE p.chunkScope /\ l <= p.whole
    BY <1>1, WholeFeatures DEF ComputeChunkFbanks
  <1>2. CASE ~(p.chunkScope /\ l <= p.whole)
    BY <1>2, StitchedFeatures DEF ComputeChunkFbanks
  <1> QED
    BY <1>1, <1>2

(* A decoded window: what each speaker does in each of its frames.         *)
IsWindow(seg, frames, speakers) ==
  frames \in Nat \ {0} /\ speakers \in Nat /\ seg \in [0..frames - 1 -> [0..speakers - 1 -> Nat]]

MaskAgrees(w, v) == (w.active <=> v # <<>>) /\ (w.active => w.dest = v)

LEMMA MaskSelected ==
  ASSUME NEW seg, NEW frames, NEW speakers, IsWindow(seg, frames, speakers), NEW s \in 0..speakers - 1,
         NEW audioLen, NEW minSamples, NEW minActivity \in Int, NEW empty, DOMAIN empty = DOMAIN seg
  PROVE  MaskAgrees(WriteSpeakerMask(seg, s, audioLen, minSamples, minActivity, empty),
                    SelectSpeakerWeights(seg, s, audioLen, minSamples, minActivity))
  <1> DEFINE D == 0..frames - 1
  <1>1. IsFiniteSet(D) /\ D # {} /\ IsFiniteSet(0..speakers - 1)
    <2>1. frames \in Nat \ {0} /\ speakers \in Nat
      BY DEF IsWindow
    <2>2. IsFiniteSet(0..frames - 1) /\ IsFiniteSet(0..speakers - 1)
      BY <2>1, FS_Interval
    <2> QED
      BY <2>1, <2>2
  <1>2. seg \in [D -> [0..speakers - 1 -> Nat]] /\ DOMAIN seg = D
    BY DEF IsWindow
  <1> DEFINE sum(f) == RowSum(seg[f])
             C == {f \in D : sum(f) < 2}
  <1>3. \A f \in D : sum(f) \in Int
    <2>1. ASSUME NEW f \in D PROVE sum(f) \in Int
      <3>1. PICK row \in [0..speakers - 1 -> Int] : row = seg[f]
        BY <1>2
      <3>2. [x \in DOMAIN row |-> row[x]] = row
        OBVIOUS
      <3>3. sum(f) = SumFunction(row)
        BY <3>1, <3>2 DEF RowSum, SumOver
      <3>4. PICK it : Totals(it, row, SUBSET (0..speakers - 1)) /\ SumFunction(row) = it[0..speakers - 1]
        BY <1>1, SumIsTotal
      <3>5. it \in [SUBSET (0..speakers - 1) -> Int] /\ 0..speakers - 1 \in SUBSET (0..speakers - 1)
        BY <3>4 DEF Totals
      <3>6. it[0..speakers - 1] \in Int
        BY <3>5
      <3> QED
        BY <3>3, <3>4, <3>6
    <2> QED
      BY <2>1
  <1> HIDE DEF D, sum
  <1>4. PICK clean : clean = CleanMasks(seg)
    OBVIOUS
  <1>5. DOMAIN clean = D /\ \A f \in D : clean[f][s] = IF f \in C THEN seg[f][s] ELSE 0
    <2>1. clean = [f \in D |-> [x \in DOMAIN seg[f] |-> IF sum(f) < 2 THEN seg[f][x] ELSE 0]]
      BY <1>2, <1>4 DEF CleanMasks, sum
    <2>2. \A f \in D : s \in DOMAIN seg[f]
      BY <1>2
    <2> QED
      BY <2>1, <2>2
  <1>6. FramesOf(clean) = FramesOf(seg)
    BY <1>2, <1>5 DEF FramesOf
  <1>7. PICK h \in [D -> Int] : h = [f \in D |-> seg[f][s]]
    <2>1a. \A f \in D : seg[f] \in [0..speakers - 1 -> Nat]
      BY <1>2
    <2>1b. \A f \in D : seg[f][s] \in Nat
      BY <2>1a
    <2>0. \A f \in D : seg[f][s] \in Int
      BY <2>1b
    <2>1. [f \in D |-> seg[f][s]] \in [D -> Int]
      BY <2>0
    <2> QED
      BY <2>1
  <1>8. Activity(clean, s) = SumFunction([f \in C |-> seg[f][s]])
    <2>1. Activity(clean, s) = SumFunction([f \in D |-> IF f \in C THEN h[f] ELSE 0])
      <3>1. Activity(clean, s) = SumFunction([f \in D |-> clean[f][s]])
        BY <1>5 DEF Activity, SumOver
      <3>2. [f \in D |-> clean[f][s]] = [f \in D |-> IF f \in C THEN h[f] ELSE 0]
        BY <1>5, <1>7
      <3> QED
        BY <3>1, <3>2
    <2>2. [f \in C |-> seg[f][s]] = [f \in C |-> h[f]]
      BY <1>7
    <2>3. C \in SUBSET D
      OBVIOUS
    <2> HIDE DEF C
    <2>4. SumFunction(ZeroBut(h, D, C)) = SumFunction(Only(h, C))
      BY <1>1, <2>3, SumLeavesOut
    <2>5. [f \in D |-> IF f \in C THEN h[f] ELSE 0] = ZeroBut(h, D, C)
      BY DEF ZeroBut
    <2>6. [f \in C |-> h[f]] = Only(h, C)
      BY DEF Only
    <2> QED
      BY <2>1, <2>2, <2>4, <2>5, <2>6
  <1> DEFINE needed == CeilDiv(FramesOf(seg) * minSamples, audioLen)
             cleanSum == SumOver({f \in DOMAIN seg : RowSum(seg[f]) < 2}, LAMBDA f : seg[f][s])
             useClean == audioLen > 0 /\ cleanSum > needed
             w == WriteSpeakerMask(seg, s, audioLen, minSamples, minActivity, empty)
             v == SelectSpeakerWeights(seg, s, audioLen, minSamples, minActivity)
             value(f) == IF useClean /\ RowSum(seg[f]) >= 2 THEN 0 ELSE seg[f][s]
  <1>9. cleanSum = Activity(clean, s)
    <2>1. cleanSum = SumFunction([f \in C |-> seg[f][s]])
      BY <1>2 DEF C, sum, SumOver
    <2> QED
      BY <1>8, <2>1
  <1>10. w = [active |-> Activity(seg, s) >= minActivity,
              dest |-> IF Activity(seg, s) < minActivity THEN empty
                       ELSE [f \in DOMAIN empty |-> IF f \in DOMAIN seg THEN value(f) ELSE empty[f]]]
    BY DEF WriteSpeakerMask
  <1>11. v = IF Activity(seg, s) < minActivity THEN <<>>
             ELSE [f \in DOMAIN seg |-> (IF useClean THEN clean ELSE seg)[f][s]]
    <2>1. ShouldUseCleanMask(Activity(clean, s), FramesOf(seg), audioLen, minSamples) <=> useClean
      BY <1>9 DEF ShouldUseCleanMask
    <2> QED
      BY <1>4, <2>1 DEF SelectSpeakerWeights
  <1> DEFINE heard == Activity(seg, s)
  <1>12. heard \in Int
    <2>1. heard = SumFunction(h)
      <3>1. heard = SumFunction([f \in D |-> seg[f][s]])
        BY <1>2 DEF Activity, SumOver
      <3>2. [f \in D |-> seg[f][s]] = h
        BY <1>7
      <3> QED
        BY <3>1, <3>2
    <2>2. PICK it : Totals(it, h, SUBSET D) /\ SumFunction(h) = it[D]
      BY <1>1, SumIsTotal
    <2> QED
      BY <2>1, <2>2 DEF Totals
  <1> DEFINE mask == [f \in D |-> (IF useClean THEN clean ELSE seg)[f][s]]
  <1>13. mask # <<>>
    <2>1. DOMAIN mask = D
      OBVIOUS
    <2>2. DOMAIN <<>> = {}
      OBVIOUS
    <2> HIDE DEF mask
    <2> QED
      BY <1>1, <2>1, <2>2
  <1>14. \A f \in D : value(f) = (IF useClean THEN clean ELSE seg)[f][s]
    <2>1. ASSUME NEW f \in D PROVE value(f) = (IF useClean THEN clean ELSE seg)[f][s]
      <3>1. f \in C <=> ~(RowSum(seg[f]) >= 2)
        BY <1>3 DEF sum
      <3>2. clean[f][s] = IF f \in C THEN seg[f][s] ELSE 0
        BY <1>5
      <3> HIDE DEF useClean, C
      <3> QED
        BY <3>1, <3>2
    <2> HIDE DEF value, useClean
    <2> QED
      BY <2>1
  <1>15. CASE heard < minActivity
    <2>1. w.active = FALSE /\ v = <<>>
      <3>1. ~(heard >= minActivity)
        BY <1>12, <1>15
      <3>2. w.active = (heard >= minActivity)
        BY <1>10
      <3>3. v = <<>>
        <4> HIDE DEF v
        <4> QED
          BY <1>11, <1>15
      <3>4. (heard >= minActivity) = FALSE
        BY <3>1
      <3>5. w.active = FALSE
        BY <3>2, <3>4
      <3> HIDE DEF heard, w, v
      <3> QED
        BY <3>3, <3>5
    <2> HIDE DEF w, v
    <2>2. MaskAgrees(w, v)
      BY <2>1 DEF MaskAgrees
    <2> QED
      BY <2>2 DEF w, v
  <1>16. CASE ~(heard < minActivity)
    <2>1. heard >= minActivity
      BY <1>12, <1>16
    <2>2. v = mask
      <3> HIDE DEF v
      <3> QED
        BY <1>2, <1>11, <1>16
    <2>3. w.active = TRUE /\ w.dest = [f \in D |-> value(f)]
      <3>1. w.active = (heard >= minActivity)
        BY <1>10
      <3>2. w.dest = [f \in DOMAIN empty |-> IF f \in DOMAIN seg THEN value(f) ELSE empty[f]]
        <4> HIDE DEF value
        <4> QED
          BY <1>10, <1>16
      <3>3. DOMAIN empty = D
        BY <1>2
      <3> HIDE DEF value
      <3> QED
        BY <1>2, <2>1, <3>1, <3>2, <3>3
    <2>4. w.dest = mask
      <3> HIDE DEF value
      <3> QED
        BY <1>14, <2>3
    <2> HIDE DEF w, v, mask
    <2>5. MaskAgrees(w, v)
      BY <1>13, <2>2, <2>3, <2>4 DEF MaskAgrees
    <2> QED
      BY <2>5 DEF w, v
  <1> QED
    BY <1>15, <1>16

IsTimes(x, a, b) == x = a * b

LEMMA WindowStarts ==
  ASSUME NEW p, p.step \in Nat \ {0}, p.window \in Nat \ {0}, NEW len \in Nat,
         NEW n \in Nat, n < SegmentationWindowCount(len, p), NEW a, IsTimes(a, n, p.step)
  PROVE  a \in Nat /\ a < len
  <1>1. PICK step \in Nat \ {0} : step = p.step
    OBVIOUS
  <1>2. PICK window \in Nat \ {0} : window = p.window
    OBVIOUS
  <1>3. a \in Nat /\ a = n * step
    BY <1>1 DEF IsTimes
  <1>4. CASE len = 0
    <2>1. SegmentationWindowCount(len, p) = 0
      BY <1>4 DEF SegmentationWindowCount
    <2> QED
      BY <2>1
  <1>5. CASE len # 0 /\ len <= window
    <2>1. SegmentationWindowCount(len, p) = 1
      BY <1>2, <1>5 DEF SegmentationWindowCount
    <2>2. n = 0
      BY <2>1
    <2>3. a = 0
      BY <1>3, <2>2
    <2> QED
      BY <1>5, <2>3
  <1>6. CASE len # 0 /\ ~(len <= window)
    <2>1. PICK y \in Nat : y = len - window
      BY <1>6
    <2>2. PICK d \in Nat : d = y \div step /\ d * step <= y
      BY <1>1, <2>1, DivBounds
    <2>3. PICK f \in Nat : f = d + 1
      OBVIOUS
    <2>4. SegmentationWindowCount(len, p) = f + IF f * step < len THEN 1 ELSE 0
      BY <1>1, <1>2, <1>6, <2>1, <2>2, <2>3 DEF SegmentationWindowCount
    <2>5. CASE n <= d
      <3>1. n * step <= d * step
        BY <2>5, TimesMonotone
      <3>2. PICK z \in Nat : z = d * step
        OBVIOUS
      <3> QED
        BY <1>2, <1>3, <1>6, <2>1, <2>2, <3>1, <3>2
    <2>6. CASE ~(n <= d)
      <3>1. PICK z \in Nat : z = f * step
        OBVIOUS
      <3>2. n < f + IF z < len THEN 1 ELSE 0
        BY <2>4, <3>1
      <3>3. n = f /\ z < len
        BY <2>3, <2>6, <3>2
      <3>4. a = z
        BY <1>3, <3>1, <3>3
      <3> QED
        BY <1>3, <3>3, <3>4
    <2> QED
      BY <2>5, <2>6
  <1> QED
    BY <1>4, <1>5, <1>6

(* Sample i of the file is i.                                              *)
Samples(len) == [i \in 1..len |-> i]

LEMMA SamplesHeard ==
  ASSUME NEW len \in Nat
  PROVE  Hears(Samples(len), 0, len) /\ Len(Samples(len)) = len
  <1>1. PICK z : z = Samples(len)
    OBVIOUS
  <1>2. z \in Seq(Nat) /\ Len(z) = len
    <2>1. z \in [1..len -> Nat]
      BY <1>1 DEF Samples
    <2> QED
      BY <1>1, <2>1 DEF Samples
  <1>3. \A i \in 1..len : z[i] = 0 + i
    BY <1>1 DEF Samples
  <1>4. len <= Len(z)
    BY <1>2
  <1>5. Hears(z, 0, len)
    BY <1>2, <1>3, <1>4 DEF Hears
  <1> QED
    BY <1>1, <1>2, <1>5

(* What is cut from sample a on, at most size long.                        *)
IsCut(t, len, a, size) == t = SubSeq(Samples(len), a + 1, Min({a + size, len}))
CutTo(t, a, l) == Hears(t, a, l) /\ Len(t) = l /\ l \in Nat

LEMMA CutHeard ==
  ASSUME NEW len \in Nat, NEW a \in Nat, a < len, NEW size \in Nat,
         NEW t, IsCut(t, len, a, size)
  PROVE  CutTo(t, a, IF a + size <= len THEN size ELSE len - a)
  <1>1. PICK l \in Nat : l = (IF a + size <= len THEN size ELSE len - a)
    <2>1. len - a \in Nat
      OBVIOUS
    <2>2. (IF a + size <= len THEN size ELSE len - a) \in Nat
      BY <2>1
    <2> QED
      BY <2>2
  <1>2. Min({a + size, len}) = a + l
    <2>1. PICK e \in Nat : e = a + size
      OBVIOUS
    <2>2. Min({e, len}) = IF e <= len THEN e ELSE len
      BY <2>1, MinTwo
    <2> QED
      BY <1>1, <2>1, <2>2
  <1>3. PICK z : z = Samples(len)
    OBVIOUS
  <1>4. IsPiece(t, z, a, l)
    BY <1>2, <1>3 DEF IsPiece, IsCut
  <1>5. Hears(z, 0, len) /\ a + l <= len
    BY <1>1, <1>3, SamplesHeard
  <1>6. PICK o \in Nat : o = 0
    OBVIOUS
  <1>7. Hears(z, o, len)
    BY <1>5, <1>6
  <1>7a. Hears(t, o + a, l) /\ Len(t) = l
    BY <1>4, <1>5, <1>7, PieceHears
  <1>7b. o + a = a
    BY <1>6
  <1>8. CutTo(t, a, l)
    BY <1>7a, <1>7b DEF CutTo
  <1> QED
    BY <1>1, <1>8

(* The shape of a plan, of a session that takes a chunk, and of a chunk.   *)
IsPlan(p) ==
  /\ p.step \in Nat \ {0} /\ p.window \in Nat /\ p.window > 2 /\ p.speakers \in Nat \ {0}
  /\ p.whole \in Nat /\ p.minSamples \in Nat /\ p.minActivity \in Nat

Takes(session, p, k) ==
  /\ session.frames \in Nat /\ session.masks \in Nat
  /\ (k - 1) * p.step + p.window - 2 <= session.frames /\ k * p.speakers <= session.masks

IsChunk(chunk, p, len, frames, k) ==
  /\ chunk.start \in Nat /\ k \in Nat \ {0} /\ Len(chunk.decoded) = k
  /\ \A l \in 0..k - 1 : IsWindow(chunk.decoded[l + 1], frames, p.speakers)
  /\ \A l \in 0..k - 1 : (chunk.start + l) * p.step < len

Wants(p, len, chunk, l, s) ==
  SelectSpeakerWeights(chunk.decoded[l + 1], s, Min({p.window, len - (chunk.start + l) * p.step}),
                       p.minSamples, p.minActivity)

LEMMA WindowHeard ==
  ASSUME NEW p, IsPlan(p), NEW len \in Nat, NEW n \in Nat, n * p.step < len
  PROVE  Len(WindowAudio(p, Samples(len), n)) = Min({p.window, len - n * p.step})
  <1>1. PICK step \in Nat : step = p.step
    BY DEF IsPlan
  <1>2. PICK window \in Nat : window = p.window
    BY DEF IsPlan
  <1>3. PICK a \in Nat : a = n * step
    OBVIOUS
  <1>4. a < len
    BY <1>1, <1>3
  <1>5. PICK t : t = WindowAudio(p, Samples(len), n)
    OBVIOUS
  <1>6. IsCut(t, len, a, window)
    BY <1>1, <1>2, <1>3, <1>5, SamplesHeard DEF WindowAudio, IsCut
  <1>7. Len(t) = IF a + window <= len THEN window ELSE len - a
    <2>1. CutTo(t, a, IF a + window <= len THEN window ELSE len - a)
      BY <1>4, <1>6, CutHeard
    <2> QED
      BY <2>1 DEF CutTo
  <1>8. PICK b \in Int : b = len - a
    OBVIOUS
  <1>9. Min({window, b}) = IF window <= b THEN window ELSE b
    BY <1>8, MinTwo
  <1>10. Len(t) = Min({window, b})
    BY <1>7, <1>8, <1>9
  <1> QED
    BY <1>1, <1>2, <1>3, <1>5, <1>8, <1>10

HeardAfter(z, a, size, len) ==
  \E l \in Nat : Hears(z, a, l) /\ Len(z) = l /\ l = IF a + size <= len THEN size ELSE len - a

LEMMA ChunkHeard ==
  ASSUME NEW p, IsPlan(p), NEW len \in Nat, NEW frames, NEW k, NEW chunk,
         IsChunk(chunk, p, len, frames, k), NEW a, IsTimes(a, chunk.start, p.step),
         NEW b, IsTimes(b, k - 1, p.step)
  PROVE  HeardAfter(ChunkAudio(p, Samples(len), chunk.start, k), a, p.window + b, len)
  <1>1. PICK step \in Nat : step = p.step
    BY DEF IsPlan
  <1>2. PICK window \in Nat : window = p.window
    BY DEF IsPlan
  <1>3. PICK start \in Nat : start = chunk.start
    BY DEF IsChunk
  <1>4. a \in Nat /\ a = start * step
    BY <1>1, <1>3 DEF IsTimes
  <1>5. b \in Nat /\ b = (k - 1) * step
    BY <1>1, SMTT(30) DEF IsTimes, IsChunk
  <1>6. a < len
    <2>1. 0 \in 0..k - 1 /\ \A l \in 0..k - 1 : (start + l) * step < len
      BY <1>1, <1>3 DEF IsChunk
    <2>2. (start + 0) * step < len /\ start + 0 = start
      BY <2>1
    <2> QED
      BY <1>4, <2>2
  <1>7. PICK t : t = ChunkAudio(p, Samples(len), start, k)
    OBVIOUS
  <1>8. PICK size \in Nat : size = window + b
    BY <1>5
  <1>9. IsCut(t, len, a, size)
    <2>1. t = SubSeq(Samples(len), a + 1, Min({a + window + b, len}))
      BY <1>1, <1>2, <1>4, <1>5, <1>7, SamplesHeard DEF ChunkAudio
    <2>2. a + window + b = a + size
      BY <1>4, <1>5, <1>8
    <2> QED
      BY <2>1, <2>2 DEF IsCut
  <1>10. PICK l \in Nat : l = (IF a + size <= len THEN size ELSE len - a) /\ Hears(t, a, l) /\ Len(t) = l
    <2>1. CutTo(t, a, IF a + size <= len THEN size ELSE len - a)
      BY <1>4, <1>6, <1>9, CutHeard
    <2> QED
      BY <2>1 DEF CutTo
  <1>11. HeardAfter(t, a, size, len)
    BY <1>10 DEF HeardAfter
  <1> QED
    BY <1>2, <1>3, <1>7, <1>8, <1>11

(* The rows of the masks of a chunk of k windows.                          *)
MaskRight(row, at, p, len, chunk, k) ==
  /\ row.active => at[1] < k
  /\ at[1] < k => MaskAgrees(row, Wants(p, len, chunk, at[1], at[2]))
RowPlace(i, speakers) == <<i \div speakers, i % speakers>>
MasksRight(masks, p, len, chunk, k, m) ==
  /\ DOMAIN masks = 0..m - 1
  /\ \A i \in 0..m - 1 : MaskRight(masks[i], RowPlace(i, p.speakers), p, len, chunk, k)

LEMMA MasksCollected ==
  ASSUME NEW p, IsPlan(p), NEW len \in Nat, NEW frames, NEW k, NEW chunk,
         IsChunk(chunk, p, len, frames, k), NEW m \in Nat
  PROVE  MasksRight(CollectChunkMasks(p, chunk, Samples(len), m), p, len, chunk, k, m)
  <1>1. PICK n \in Nat \ {0} : n = p.speakers
    BY DEF IsPlan
  <1>2. k \in Nat \ {0} /\ Len(chunk.decoded) = k /\ p.minActivity \in Int
    BY DEF IsChunk, IsPlan
  <1> DEFINE empty(seg) == [f \in DOMAIN seg |-> 0]
             row(i) == LET local == i \div n
                       IN  IF local >= k THEN [active |-> FALSE, dest |-> <<>>]
                           ELSE LET seg == chunk.decoded[local + 1]
                                IN  WriteSpeakerMask(seg, i % n,
                                      Len(WindowAudio(p, Samples(len), chunk.start + local)), p.minSamples,
                                      p.minActivity, empty(seg))
             masks == CollectChunkMasks(p, chunk, Samples(len), m)
  <1>3. masks = [i \in 0..m - 1 |-> row(i)]
    BY <1>1, <1>2 DEF CollectChunkMasks, Upto
  <1>4. ASSUME NEW i \in 0..m - 1 PROVE MaskRight(row(i), RowPlace(i, n), p, len, chunk, k)
    <2>1. PICK l \in Nat : l = i \div n
      BY <1>1, DivBounds
    <2>2. PICK s \in 0..n - 1 : s = i % n
      BY <1>1
    <2>3. RowPlace(i, n) = <<l, s>>
      BY <2>1, <2>2 DEF RowPlace
    <2>4. CASE l >= k
      <3>1. row(i) = [active |-> FALSE, dest |-> <<>>]
        BY <2>1, <2>4
      <3>2. ~row(i).active /\ ~(l < k)
        BY <1>2, <2>1, <2>4, <3>1
      <3> HIDE DEF row
      <3> QED
        BY <2>3, <3>2 DEF MaskRight
    <2>5. CASE ~(l >= k)
      <3>1. l < k /\ l \in 0..k - 1
        BY <1>2, <2>5
      <3>2. PICK seg : seg = chunk.decoded[l + 1]
        OBVIOUS
      <3>3. IsWindow(seg, frames, n)
        BY <1>1, <3>1, <3>2 DEF IsChunk
      <3>4. PICK c \in Nat : c = chunk.start + l
        BY DEF IsChunk
      <3>5. c * p.step < len
        BY <3>1, <3>4 DEF IsChunk
      <3>6. PICK heard : heard = Min({p.window, len - c * p.step})
        OBVIOUS
      <3>7. Len(WindowAudio(p, Samples(len), c)) = heard
        BY <3>4, <3>5, <3>6, WindowHeard
      <3>8. row(i) = WriteSpeakerMask(seg, s, heard, p.minSamples, p.minActivity, empty(seg))
        BY <2>1, <2>2, <2>5, <3>2, <3>4, <3>7
      <3>9. Wants(p, len, chunk, l, s) = SelectSpeakerWeights(seg, s, heard, p.minSamples, p.minActivity)
        BY <3>2, <3>4, <3>6 DEF Wants
      <3>10. DOMAIN empty(seg) = DOMAIN seg
        OBVIOUS
      <3> HIDE DEF row, empty
      <3>11. MaskAgrees(row(i), Wants(p, len, chunk, l, s))
        BY <1>2, <2>2, <3>3, <3>8, <3>9, <3>10, MaskSelected
      <3> QED
        BY <2>3, <3>1, <3>11 DEF MaskRight
    <2> QED
      BY <2>4, <2>5
  <1> HIDE DEF row, masks
  <1>5. DOMAIN masks = 0..m - 1 /\ \A i \in 0..m - 1 : MaskRight(masks[i], RowPlace(i, p.speakers), p, len, chunk, k)
    BY <1>1, <1>3, <1>4
  <1> QED
    BY <1>5 DEF MasksRight, masks

(* What a chunk of k windows that start with window chunk.start embeds.    *)
FeaturesRight(fbank, p, len, n, l) ==
  \A r \in 0..p.window - 3 :
     n * p.step + r + 3 <= len => fbank[l * p.step + r] = Triple(n * p.step + r)
Embeds(e, p, len, chunk, k) ==
  /\ DOMAIN e = {at \in (0..k - 1) \X (0..p.speakers - 1) : Wants(p, len, chunk, at[1], at[2]) # <<>>}
  /\ \A at \in DOMAIN e :
       /\ e[at][2] = Wants(p, len, chunk, at[1], at[2])
       /\ FeaturesRight(e[at][1], p, len, chunk.start + at[1], at[1])

LEMMA ChunkFeaturesRight ==
  ASSUME NEW p, IsPlan(p), NEW len \in Nat, NEW frames, NEW k, NEW chunk,
         IsChunk(chunk, p, len, frames, k), NEW session, Takes(session, p, k),
         NEW l \in 0..k - 1
  PROVE  FeaturesRight(ComputeChunkFbanks(p, ChunkAudio(p, Samples(len), chunk.start, k), session.frames),
                       p, len, chunk.start + l, l)
  <1>1. PICK step \in Nat \ {0} : step = p.step
    BY DEF IsPlan
  <1>2. PICK window \in Nat : window = p.window /\ window > 2
    BY DEF IsPlan
  <1>3. PICK start \in Nat : start = chunk.start
    BY DEF IsChunk
  <1>4. PICK room \in Nat : room = session.frames
    BY DEF Takes
  <1>5. PICK a \in Nat : IsTimes(a, chunk.start, p.step) /\ a = start * step
    BY <1>1, <1>3 DEF IsTimes
  <1>6. PICK b \in Nat : IsTimes(b, k - 1, p.step) /\ b = (k - 1) * step
    <2>1. k - 1 \in Nat
      BY DEF IsChunk
    <2>2. (k - 1) * step \in Nat
      BY <2>1
    <2> QED
      BY <1>1, <2>2 DEF IsTimes
  <1>7. b + window - 2 <= room
    BY <1>1, <1>2, <1>4, <1>6 DEF Takes
  <1>8. PICK z : z = ChunkAudio(p, Samples(len), chunk.start, k)
    OBVIOUS
  <1>9. PICK h \in Nat : Hears(z, a, h) /\ Len(z) = h
                         /\ h = IF a + window + b <= len THEN window + b ELSE len - a
    <2>1. HeardAfter(z, a, p.window + b, len)
      BY <1>5, <1>6, <1>8, ChunkHeard
    <2>2. PICK size \in Nat : size = p.window + b /\ size = window + b
      BY <1>2, <1>6
    <2>3. HeardAfter(z, a, size, len)
      BY <2>1, <2>2
    <2>4. a + window + b = a + size
      BY <1>2, <1>5, <1>6, <2>2
    <2> QED
      BY <2>2, <2>3, <2>4 DEF HeardAfter
  <1>10. PICK fbank : fbank = ComputeChunkFbanks(p, z, room)
    OBVIOUS
  <1>11. FbankOf(fbank, a, h, room)
    <2>1. p.window \in Nat /\ p.window > 2 /\ p.whole \in Nat
      BY DEF IsPlan
    <2> QED
      BY <1>9, <1>10, <2>1, ChunkFeatures
  <1>12. PICK c \in Nat : c = l * step
    BY <1>1
  <1>13. c <= b
    <2>1. PICK last \in Nat : last = k - 1 /\ l \in Nat /\ l <= last
      BY DEF IsChunk
    <2>2. l * step <= last * step
      BY <2>1, TimesMonotone
    <2> QED
      BY <1>6, <1>12, <2>1, <2>2
  <1>14. (start + l) * step = a + c
    BY <1>5, <1>12
  <1>15. ASSUME NEW r \in 0..window - 3, a + c + r + 3 <= len
         PROVE  fbank[c + r] = Triple(a + c + r)
    <2>1. PICK q \in Nat : q = c + r
      OBVIOUS
    <2>2a. r \in Nat /\ r + 3 <= window
      BY <1>2
    <2>2b. q + 3 <= b + window
      BY <1>13, <2>1, <2>2a
    <2>2c. a + (q + 3) <= len
      BY <1>15, <2>1, <2>2a
    <2>2d. q + 3 <= h
      BY <1>9, <2>2b, <2>2c
    <2>2. q \in 0..room - 1 /\ q + 3 <= h
      BY <1>7, <2>2b, <2>2d
    <2>3. fbank[q] = Triple(a + q)
      BY <1>11, <2>2 DEF FbankOf
    <2>4. a + q = a + c + r
      BY <2>1
    <2> QED
      BY <2>1, <2>3, <2>4
  <1>16. \A r \in 0..p.window - 3 :
            (start + l) * p.step + r + 3 <= len => fbank[l * p.step + r] = Triple((start + l) * p.step + r)
    <2>1. (start + l) * p.step = a + c /\ l * p.step = c /\ 0..p.window - 3 = 0..window - 3
      BY <1>1, <1>2, <1>12, <1>14
    <2> QED
      BY <1>15, <2>1
  <1> QED
    BY <1>3, <1>4, <1>8, <1>10, <1>16 DEF FeaturesRight

LEMMA ChunkEmbeds ==
  ASSUME NEW p, IsPlan(p), NEW len \in Nat, NEW frames, NEW k, NEW chunk,
         IsChunk(chunk, p, len, frames, k), NEW session, Takes(session, p, k)
  PROVE  Embeds(EmbedChunk(p, session, chunk, Samples(len)), p, len, chunk, k)
  <1>1. PICK n \in Nat \ {0} : n = p.speakers
    BY DEF IsPlan
  <1>2. k \in Nat \ {0} /\ Len(chunk.decoded) = k
    BY DEF IsChunk
  <1>3. PICK m \in Nat : m = session.masks /\ k * n <= m
    BY <1>1 DEF Takes
  <1>4. PICK fbank : fbank = ComputeChunkFbanks(p, ChunkAudio(p, Samples(len), chunk.start, k), session.frames)
    OBVIOUS
  <1>5. PICK masks : masks = CollectChunkMasks(p, chunk, Samples(len), m)
    OBVIOUS
  <1>6. MasksRight(masks, p, len, chunk, k, m)
    BY <1>5, MasksCollected
  <1> DEFINE active == {i \in DOMAIN masks : masks[i].active}
             D == {RowPlace(i, n) : i \in active}
             W == {at \in (0..k - 1) \X (0..n - 1) : Wants(p, len, chunk, at[1], at[2]) # <<>>}
             e == [at \in D |-> <<fbank, masks[at[1] * n + at[2]].dest>>]
  <1>7. EmbedChunk(p, session, chunk, Samples(len)) = e
    BY <1>1, <1>2, <1>3, <1>4, <1>5 DEF EmbedChunk, RowPlace
  <1>8. DOMAIN masks = 0..m - 1 /\ \A i \in 0..m - 1 : MaskRight(masks[i], RowPlace(i, n), p, len, chunk, k)
    BY <1>1, <1>6 DEF MasksRight
  <1>9. ASSUME NEW i \in active PROVE RowPlace(i, n) \in W
    <2>1. i \in 0..m - 1 /\ masks[i].active
      BY <1>8
    <2>2. PICK l \in Nat : l = i \div n
      BY <1>1, <2>1, DivBounds
    <2>3. PICK s \in 0..n - 1 : s = i % n
      BY <1>1, <2>1
    <2>4a. PICK at : at = <<l, s>>
      OBVIOUS
    <2>4b. at[1] = l /\ at[2] = s
      BY <2>4a
    <2>4c. RowPlace(i, n) = at
      BY <2>2, <2>3, <2>4a DEF RowPlace
    <2>4. at = RowPlace(i, n) /\ at = <<l, s>> /\ at[1] = l /\ at[2] = s
      BY <2>4a, <2>4b, <2>4c
    <2>5. MaskRight(masks[i], at, p, len, chunk, k)
      BY <1>8, <2>1, <2>4
    <2>6. l < k /\ MaskAgrees(masks[i], Wants(p, len, chunk, at[1], at[2]))
      BY <2>1, <2>4, <2>5 DEF MaskRight
    <2>7. Wants(p, len, chunk, at[1], at[2]) # <<>>
      BY <2>1, <2>6 DEF MaskAgrees
    <2>8. at \in (0..k - 1) \X (0..n - 1)
      BY <1>2, <2>2, <2>3, <2>4, <2>6
    <2> QED
      BY <2>4, <2>7, <2>8
  <1>10. ASSUME NEW at \in W
         PROVE  at \in D /\ masks[at[1] * n + at[2]].dest = Wants(p, len, chunk, at[1], at[2])
    <2>1. PICK l \in 0..k - 1, s \in 0..n - 1 : at = <<l, s>> /\ at[1] = l /\ at[2] = s
      OBVIOUS
    <2>1a. l \in Nat /\ l + 1 <= k /\ l + 1 \in Nat
      BY <1>2
    <2>2. PICK x \in Nat : x = l * n
      BY <2>1a
    <2>3. (l + 1) * n = x + n
      BY <2>1a, <2>2, Distribute
    <2>4. (l + 1) * n <= k * n
      BY <1>2, <2>1a, TimesMonotone
    <2>5a. PICK y \in Nat : y = k * n
      BY <1>2
    <2>5b. x + n <= m
      BY <1>3, <2>3, <2>4, <2>5a
    <2>5. PICK i \in 0..m - 1 : i = x + s
      BY <2>5b
    <2>6. i \div n = l /\ i % n = s
      <3>1. i = l * n + s
        BY <2>2, <2>5
      <3> QED
        BY <2>1a, <3>1, DivModUnique
    <2>7. RowPlace(i, n) = at
      BY <2>1, <2>6 DEF RowPlace
    <2>8. MaskRight(masks[i], at, p, len, chunk, k)
      BY <1>8, <2>7
    <2>9. l < k
      BY <1>2, <2>1
    <2>10. MaskAgrees(masks[i], Wants(p, len, chunk, at[1], at[2]))
      BY <2>1, <2>8, <2>9 DEF MaskRight
    <2>11. masks[i].active /\ masks[i].dest = Wants(p, len, chunk, at[1], at[2])
      BY <2>10 DEF MaskAgrees
    <2>12. i \in active
      BY <1>8, <2>11
    <2> HIDE DEF active
    <2>13. at \in D
      BY <2>7, <2>12
    <2>14. at[1] * n + at[2] = i
      BY <2>1, <2>2, <2>5
    <2> QED
      BY <2>11, <2>13, <2>14
  <1>11. D = W
    <2> HIDE DEF W, active
    <2> QED
      BY <1>9, <1>10
  <1>12. DOMAIN e = W
    BY <1>11
  <1>13. ASSUME NEW at \in W
         PROVE  e[at][2] = Wants(p, len, chunk, at[1], at[2])
                /\ FeaturesRight(e[at][1], p, len, chunk.start + at[1], at[1])
    <2>1. e[at] = <<fbank, masks[at[1] * n + at[2]].dest>>
      BY <1>11
    <2>2. e[at][1] = fbank /\ e[at][2] = masks[at[1] * n + at[2]].dest
      BY <2>1
    <2>3. at[1] \in 0..k - 1
      OBVIOUS
    <2>4. FeaturesRight(fbank, p, len, chunk.start + at[1], at[1])
      BY <1>4, <2>3, ChunkFeaturesRight
    <2> QED
      BY <1>10, <2>2, <2>4
  <1> HIDE DEF e, W
  <1>14. Embeds(e, p, len, chunk, k)
    BY <1>1, <1>12, <1>13 DEF Embeds, W
  <1> QED
    BY <1>7, <1>14

SessionsFit(p) ==
  /\ p.sessions # <<>>
  /\ p.sessions \in Seq([windows : Nat \ {0}, frames : Nat, masks : Nat])
  /\ \A i \in DOMAIN p.sessions :
       /\ (p.sessions[i].windows - 1) * p.step + p.window - 2 <= p.sessions[i].frames
       /\ p.sessions[i].windows * p.speakers <= p.sessions[i].masks

LEMMA SessionTakes ==
  ASSUME NEW p, IsPlan(p), SessionsFit(p), NEW i \in DOMAIN p.sessions, NEW k \in Nat \ {0},
         k <= p.sessions[i].windows
  PROVE  Takes(p.sessions[i], p, k)
  <1>1. PICK step \in Nat : step = p.step
    BY DEF IsPlan
  <1>2. PICK window \in Nat : window = p.window
    BY DEF IsPlan
  <1>3. PICK n \in Nat : n = p.speakers
    BY DEF IsPlan
  <1>4. PICK X : X = [windows : Nat \ {0}, frames : Nat, masks : Nat]
    OBVIOUS
  <1>5. PICK q \in Seq(X) : q = p.sessions
    BY <1>4 DEF SessionsFit
  <1>6. PICK s \in X : s = p.sessions[i]
    BY <1>5, ElementOfSeq
  <1>7. PICK w \in Nat \ {0} : w = s.windows
    BY <1>4
  <1>8. s.frames \in Nat /\ s.masks \in Nat
    BY <1>4
  <1>9. (w - 1) * step + window - 2 <= s.frames /\ w * n <= s.masks
    BY <1>1, <1>2, <1>3, <1>6, <1>7 DEF SessionsFit
  <1>10. (k - 1) * step <= (w - 1) * step
    <2>1. k - 1 \in Nat /\ w - 1 \in Nat /\ k - 1 <= w - 1
      BY <1>6, <1>7
    <2> QED
      BY <2>1, TimesMonotone
  <1>11. k * n <= w * n
    <2>1. k <= w
      BY <1>6, <1>7
    <2> QED
      BY <2>1, TimesMonotone
  <1>12. PICK x \in Nat : x = (k - 1) * step
    <2>1. k - 1 \in Nat
      OBVIOUS
    <2> QED
      BY <2>1
  <1>13. PICK y \in Nat : y = (w - 1) * step
    <2>1. w - 1 \in Nat
      BY <1>7
    <2> QED
      BY <2>1
  <1>14. x + window - 2 <= s.frames
    BY <1>8, <1>9, <1>10, <1>12, <1>13
  <1>15. PICK u \in Nat, v \in Nat : u = k * n /\ v = w * n
    BY <1>3, <1>7
  <1>16. u <= s.masks
    BY <1>8, <1>9, <1>11, <1>15
  <1> QED
    BY <1>1, <1>2, <1>3, <1>6, <1>8, <1>12, <1>14, <1>15, <1>16 DEF Takes

LEMMA LastSession ==
  ASSUME NEW p, SessionsFit(p)
  PROVE  \E i \in DOMAIN p.sessions : /\ Last(p.sessions) = p.sessions[i]
                                      /\ p.sessions[i].windows \in Nat \ {0}
  <1>1. PICK X : X = [windows : Nat \ {0}, frames : Nat, masks : Nat]
    OBVIOUS
  <1>2. PICK q \in Seq(X) : q = p.sessions /\ q # <<>>
    BY <1>1 DEF SessionsFit
  <1>3. PICK n \in Nat : n = Len(q) /\ DOMAIN q = 1..n
    BY LenProperties
  <1>4. n # 0
    <2>1. ASSUME n = 0 PROVE FALSE
      <3>1. q = <<>>
        BY <1>3, <2>1, EmptySeq
      <3> QED
        BY <1>2, <3>1
    <2> QED
      BY <2>1
  <1>5. n \in DOMAIN q /\ q[n] \in X
    BY <1>3, <1>4, ElementOfSeq
  <1>6. q[n].windows \in Nat \ {0}
    BY <1>1, <1>5
  <1>7. Last(q) = q[n]
    BY <1>3 DEF Last
  <1> QED
    BY <1>2, <1>5, <1>6, <1>7

LEMMA SessionFits ==
  ASSUME NEW p, IsPlan(p), SessionsFit(p), NEW pipelined, NEW chunk, NEW k \in Nat \ {0},
         Len(chunk.decoded) = k, k <= Last(p.sessions).windows
  PROVE  Takes(SessionFor(p, pipelined, chunk), p, k)
  <1>1. PICK last \in DOMAIN p.sessions : /\ Last(p.sessions) = p.sessions[last]
                                          /\ p.sessions[last].windows \in Nat \ {0}
    BY LastSession
  <1>2. CASE pipelined
    <2>1. SessionFor(p, pipelined, chunk) = p.sessions[last]
      BY <1>1, <1>2 DEF SessionFor
    <2> QED
      BY <1>1, <2>1, SessionTakes
  <1>3. CASE ~pipelined
    <2> DEFINE I == {i \in 1..Len(p.sessions) : p.sessions[i].windows >= k}
    <2>1. SessionFor(p, pipelined, chunk) = p.sessions[IF I # {} THEN Min(I) ELSE 0]
      BY <1>3 DEF SessionFor, SelectInSeq
    <2>2. PICK X : X = [windows : Nat \ {0}, frames : Nat, masks : Nat]
      OBVIOUS
    <2>3. PICK q \in Seq(X) : q = p.sessions
      BY <2>2 DEF SessionsFit
    <2>4. PICK n \in Nat : n = Len(q) /\ DOMAIN q = 1..n
      BY LenProperties
    <2>5. \A i \in 1..n : q[i].windows \in Nat
      <3>1. ASSUME NEW i \in 1..n PROVE q[i].windows \in Nat
        <4>1. q[i] \in X
          BY <2>4, ElementOfSeq
        <4> QED
          BY <2>2, <4>1
      <3> QED
        BY <3>1
    <2>6. I \subseteq Nat /\ last \in I
      <3>1. p.sessions[last].windows >= k
        BY <1>1
      <3> QED
        BY <1>1, <2>3, <2>4, <3>1
    <2> HIDE DEF I
    <2>7. PICK i : i = Min(I) /\ i \in I
      <3>1. \E x \in I : \A y \in I : x <= y
        BY <2>6, LeastElement
      <3>2. Min(I) \in I
        BY <3>1 DEF Min
      <3> QED
        BY <3>2
    <2>8. SessionFor(p, pipelined, chunk) = p.sessions[i]
      BY <2>1, <2>6, <2>7
    <2>9. i \in DOMAIN p.sessions /\ k <= p.sessions[i].windows
      BY <2>3, <2>4, <2>5, <2>7 DEF I
    <2> QED
      BY <2>8, <2>9, SessionTakes
  <1> QED
    BY <1>2, <1>3

(* Chunk i of the file: h windows, from window start on.                   *)
Piece(start, h, i, cap, total, K) ==
  /\ start \in Nat /\ h \in 1..cap /\ IsTimes(start, i - 1, cap) /\ start + h <= total
  /\ i < K => h = cap
  /\ i = K => start + h = total
IsChunkAt(chunk, decoded, start, h) ==
  chunk.start = start /\ IsPiece(chunk.decoded, decoded, start, h)

ChunksRight(cs, decoded, cap, total, K) ==
  /\ K \in Nat /\ cs \in Seq({cs[i] : i \in 1..K}) /\ Len(cs) = K /\ (K = 0 <=> total = 0)
  /\ \A i \in 1..K : \E start, h : /\ Piece(start, h, i, cap, total, K)
                                   /\ IsChunkAt(cs[i], decoded, start, h)

LEMMA ChunksCut ==
  ASSUME NEW p, SessionsFit(p), NEW X, NEW decoded \in Seq(X), NEW total \in Nat, Len(decoded) = total,
         NEW cap \in Nat \ {0}, Last(p.sessions).windows = cap, NEW K, K = CeilDiv(total, cap)
  PROVE  ChunksRight(Chunks(p, decoded), decoded, cap, total, K)
  <1>1. K \in Nat /\ total <= K * cap /\ K * cap < total + cap /\ (K = 0 <=> total = 0)
    BY CeilDivBounds
  <1> DEFINE piece(i) == [start |-> (i - 1) * cap,
                          decoded |-> SubSeq(decoded, (i - 1) * cap + 1, Min({i * cap, total}))]
  <1>2. PICK cs : cs = Chunks(p, decoded)
    OBVIOUS
  <1>3. cs = [i \in 1..K |-> piece(i)]
    BY <1>2 DEF Chunks
  <1>4. cs \in Seq({cs[i] : i \in 1..K}) /\ Len(cs) = K
    <2> HIDE DEF piece
    <2>1. PICK S : S = {cs[i] : i \in 1..K}
      OBVIOUS
    <2>2. DOMAIN cs = 1..K
      BY <1>3
    <2>3. cs \in [1..K -> S]
      BY <1>3, <2>1
    <2>4. cs \in Seq(S) /\ Len(cs) = K
      BY <1>1, <2>2, <2>3
    <2> QED
      BY <2>1, <2>4
  <1>5. ASSUME NEW i \in 1..K
        PROVE  \E start, h : Piece(start, h, i, cap, total, K) /\ IsChunkAt(cs[i], decoded, start, h)
    <2>1. PICK j \in Nat : j = i - 1 /\ i = j + 1 /\ j + 1 <= K
      BY <1>1
    <2>2. PICK start \in Nat : start = j * cap
      OBVIOUS
    <2>3. i * cap = start + cap
      BY <2>1, <2>2, Distribute
    <2>4. PICK top \in Nat : top = K * cap
      BY <1>1
    <2>5. start + cap <= top
      <3>1. (j + 1) * cap <= K * cap
        BY <1>1, <2>1, TimesMonotone
      <3> QED
        BY <2>1, <2>3, <2>4, <3>1
    <2>6. start < total
      BY <1>1, <2>4, <2>5
    <2>7. PICK h \in 1..cap : h = IF start + cap <= total THEN cap ELSE total - start
      <3>1. (IF start + cap <= total THEN cap ELSE total - start) \in 1..cap
        BY <2>6
      <3> QED
        BY <3>1
    <2>8. Min({i * cap, total}) = start + h
      <3>1. PICK e \in Nat : e = i * cap /\ e = start + cap
        BY <2>3
      <3>2. Min({e, total}) = IF e <= total THEN e ELSE total
        BY <3>1, MinTwo
      <3> QED
        BY <2>6, <2>7, <3>1, <3>2
    <2>9. IsChunkAt(cs[i], decoded, start, h)
      <3>1. cs[i] = piece(i)
        BY <1>3
      <3>2. (i - 1) * cap = start
        BY <2>1, <2>2
      <3>3. cs[i].start = start /\ cs[i].decoded = SubSeq(decoded, start + 1, start + h)
        <4>1. piece(i) = [start |-> start, decoded |-> SubSeq(decoded, start + 1, start + h)]
          BY <2>8, <3>2
        <4> HIDE DEF piece
        <4> QED
          BY <3>1, <4>1
      <3> QED
        BY <3>3 DEF IsChunkAt, IsPiece
    <2>10. i < K => h = cap
      <3>1. ASSUME i < K PROVE start + cap <= total
        <4>1. PICK f \in Nat : f = (j + 2) * cap
          OBVIOUS
        <4>2. f = (start + cap) + cap
          <5>1. PICK i1 \in Nat : i1 = j + 1
            OBVIOUS
          <5>2. (i1 + 1) * cap = i1 * cap + cap /\ i1 * cap \in Nat
            BY Distribute
          <5>3. i1 + 1 = j + 2 /\ i1 = i
            BY <2>1, <5>1
          <5> QED
            BY <2>3, <4>1, <5>2, <5>3
        <4>3. f <= top
          <5>1. PICK j2 \in Nat : j2 = j + 2
            OBVIOUS
          <5>2. j2 <= K
            BY <1>1, <2>1, <3>1, <5>1
          <5>3. j2 * cap <= K * cap
            BY <1>1, <5>2, TimesMonotone
          <5> QED
            BY <2>4, <4>1, <5>1, <5>3
        <4> QED
          BY <1>1, <2>4, <4>2, <4>3
      <3> QED
        BY <2>7, <3>1
    <2>11. i = K => start + h = total
      <3>1. ASSUME i = K PROVE total <= start + cap
        BY <1>1, <2>3, <3>1
      <3> QED
        BY <2>6, <2>7, <3>1
    <2>12. start + h <= total /\ IsTimes(start, i - 1, cap)
      BY <2>1, <2>2, <2>6, <2>7 DEF IsTimes
    <2>13. Piece(start, h, i, cap, total, K)
      BY <2>10, <2>11, <2>12 DEF Piece
    <2> QED
      BY <2>9, <2>13
  <1> HIDE DEF piece
  <1> QED
    BY <1>1, <1>2, <1>4, <1>5 DEF ChunksRight

WantsAt(p, len, decoded, n, s) ==
  SelectSpeakerWeights(decoded[n + 1], s, Min({p.window, len - n * p.step}), p.minSamples, p.minActivity)

FirstOnes(decoded, done) == [n \in 0..done - 1 |-> decoded[n + 1]]
EmbsRight(embs, done, p, len, decoded, cap) ==
  /\ DOMAIN embs = {at \in (0..done - 1) \X (0..p.speakers - 1) :
                      WantsAt(p, len, decoded, at[1], at[2]) # <<>>}
  /\ \A at \in DOMAIN embs :
       /\ embs[at][2] = WantsAt(p, len, decoded, at[1], at[2])
       /\ FeaturesRight(embs[at][1], p, len, at[1], at[1] % cap)

Moved(e, slot) == [at \in {<<slot + x[1], x[2]>> : x \in DOMAIN e} |-> e[<<at[1] - slot, at[2]>>]]

AddedSegs(c, start, h, old) == Over([n \in start..start + h - 1 |-> c[n - start + 1]], old)

LEMMA SegsStored ==
  ASSUME NEW X, NEW decoded \in Seq(X), NEW start \in Nat, NEW h \in Nat, start + h <= Len(decoded),
         NEW c, IsPiece(c, decoded, start, h)
  PROVE  AddedSegs(c, start, h, FirstOnes(decoded, start)) = FirstOnes(decoded, start + h)
  <1>0. PieceOf(c, decoded, start, h, X)
    BY PieceIs
  <1>1. \A i \in 1..h : c[i] = decoded[start + i]
    BY <1>0 DEF PieceOf
  <1>2. PICK new : new = [n \in start..start + h - 1 |-> c[n - start + 1]]
    OBVIOUS
  <1>3. PICK old : old = [n \in 0..start - 1 |-> decoded[n + 1]]
    OBVIOUS
  <1>4. Over(new, old) = [n \in 0..start + h - 1 |-> IF n \in start..start + h - 1 THEN new[n] ELSE old[n]]
    <2>1. DOMAIN old \cup DOMAIN new = 0..start + h - 1
      BY <1>2, <1>3
    <2>2. DOMAIN new = start..start + h - 1
      BY <1>2
    <2> QED
      BY <2>1, <2>2 DEF Over
  <1>5. ASSUME NEW n \in 0..start + h - 1
        PROVE  (IF n \in start..start + h - 1 THEN new[n] ELSE old[n]) = decoded[n + 1]
    <2>1. CASE n \in start..start + h - 1
      <3>1. PICK i \in 1..h : i = n - start + 1 /\ start + i = n + 1
        BY <2>1
      <3>2. new[n] = c[i]
        BY <1>2, <2>1, <3>1
      <3> QED
        BY <1>1, <2>1, <3>1, <3>2
    <2>2. CASE n \notin start..start + h - 1
      <3>1. n \in 0..start - 1
        BY <2>2
      <3> QED
        BY <1>3, <2>2, <3>1
    <2> QED
      BY <2>1, <2>2
  <1>6. Over(new, old) = [n \in 0..start + h - 1 |-> decoded[n + 1]]
    BY <1>4, <1>5
  <1>7. old = FirstOnes(decoded, start)
    BY <1>3 DEF FirstOnes
  <1>8. Over(new, old) = FirstOnes(decoded, start + h)
    BY <1>6 DEF FirstOnes
  <1> QED
    BY <1>2, <1>7, <1>8 DEF AddedSegs

PairIn(at, l, s, e, start, h, n) ==
  l \in 0..h - 1 /\ s \in 0..n - 1 /\ at = <<start + l, s>> /\ <<l, s>> \in DOMAIN e

MovedRight(new, e, start, h, n) ==
  /\ \A at \in DOMAIN new : \E l, s : PairIn(at, l, s, e, start, h, n)
  /\ \A at, l, s : PairIn(at, l, s, e, start, h, n) => at \in DOMAIN new /\ new[at] = e[<<l, s>>]

LEMMA MovedIs ==
  ASSUME NEW start \in Nat, NEW h \in Nat, NEW n \in Nat, NEW e,
         DOMAIN e \subseteq (0..h - 1) \X (0..n - 1)
  PROVE  MovedRight(Moved(e, start), e, start, h, n)
  <1> DEFINE S == {<<start + x[1], x[2]>> : x \in DOMAIN e}
  <1>1. Moved(e, start) = [at \in S |-> e[<<at[1] - start, at[2]>>]]
    BY DEF Moved
  <1>2. ASSUME NEW at \in S PROVE \E l, s : PairIn(at, l, s, e, start, h, n)
    <2>1. PICK x \in DOMAIN e : at = <<start + x[1], x[2]>>
      OBVIOUS
    <2>2. PICK l \in 0..h - 1, s \in 0..n - 1 : x = <<l, s>>
      OBVIOUS
    <2>3. x[1] = l /\ x[2] = s
      BY <2>2
    <2>4. PairIn(at, l, s, e, start, h, n)
      BY <2>1, <2>2, <2>3 DEF PairIn
    <2> QED
      BY <2>4
  <1>3. ASSUME NEW at, NEW l, NEW s, PairIn(at, l, s, e, start, h, n)
        PROVE  at \in S /\ <<at[1] - start, at[2]>> = <<l, s>>
    <2>1. l \in Int /\ at = <<start + l, s>>
      BY <1>3 DEF PairIn
    <2>2. PICK x \in DOMAIN e : x = <<l, s>>
      BY <1>3 DEF PairIn
    <2>3. x[1] = l /\ x[2] = s
      BY <2>2
    <2>4. at \in S
      BY <2>1, <2>3
    <2>5. at[1] = start + l /\ at[2] = s
      BY <2>1
    <2>6. at[1] - start = l
      BY <2>1, <2>5
    <2> QED
      BY <2>4, <2>5, <2>6
  <1> HIDE DEF S
  <1>4. DOMAIN Moved(e, start) = S
    BY <1>1
  <1>5. ASSUME NEW at, NEW l, NEW s, PairIn(at, l, s, e, start, h, n)
        PROVE  at \in DOMAIN Moved(e, start) /\ Moved(e, start)[at] = e[<<l, s>>]
    <2>1. at \in S /\ <<at[1] - start, at[2]>> = <<l, s>>
      BY <1>3, <1>5
    <2>2. Moved(e, start)[at] = e[<<at[1] - start, at[2]>>]
      BY <1>1, <2>1
    <2> QED
      BY <1>4, <2>1, <2>2
  <1> QED
    BY <1>2, <1>4, <1>5 DEF MovedRight

RightAt(value, p, len, decoded, at, cap) ==
  /\ value[2] = WantsAt(p, len, decoded, at[1], at[2])
  /\ FeaturesRight(value[1], p, len, at[1], at[1] % cap)

LEMMA WantsOfChunk ==
  ASSUME NEW X, NEW decoded \in Seq(X), NEW start \in Nat, NEW h \in Nat, start + h <= Len(decoded),
         NEW chunk, IsChunkAt(chunk, decoded, start, h), NEW p, NEW len, NEW l \in 0..h - 1, NEW s
  PROVE  Wants(p, len, chunk, l, s) = WantsAt(p, len, decoded, start + l, s)
  <1>1. chunk.start = start /\ IsPiece(chunk.decoded, decoded, start, h)
    BY DEF IsChunkAt
  <1>2. PICK i \in 1..h : i = l + 1
    OBVIOUS
  <1>3. chunk.decoded[i] = decoded[start + i]
    <2>1. PICK c : c = chunk.decoded
      OBVIOUS
    <2>2. PieceOf(c, decoded, start, h, X)
      BY <1>1, <2>1, PieceIs
    <2> QED
      BY <1>2, <2>1, <2>2 DEF PieceOf
  <1>4. PICK n \in Nat : n = start + l
    OBVIOUS
  <1>5. start + i = n + 1
    BY <1>2, <1>4
  <1>6. chunk.decoded[l + 1] = decoded[n + 1]
    BY <1>2, <1>3, <1>5
  <1>7. (chunk.start + l) * p.step = n * p.step
    BY <1>1, <1>4
  <1> QED
    BY <1>4, <1>6, <1>7 DEF Wants, WantsAt

LEMMA EmbsStored ==
  ASSUME NEW X, NEW decoded \in Seq(X), NEW start \in Nat, NEW h \in Nat, start + h <= Len(decoded),
         NEW chunk, IsChunkAt(chunk, decoded, start, h), NEW p, IsPlan(p), NEW len \in Nat,
         NEW cap \in Nat \ {0}, h <= cap, NEW j \in Nat, IsTimes(start, j, cap),
         NEW e, Embeds(e, p, len, chunk, h), NEW old, EmbsRight(old, start, p, len, decoded, cap)
  PROVE  EmbsRight(Over(Moved(e, start), old), start + h, p, len, decoded, cap)
  <1>1. PICK n \in Nat \ {0} : n = p.speakers
    BY DEF IsPlan
  <1>2. chunk.start = start
    BY DEF IsChunkAt
  <1> DEFINE want(m, s) == WantsAt(p, len, decoded, m, s)
  <1>3. \A l \in 0..h - 1, s \in 0..n - 1 : Wants(p, len, chunk, l, s) = want(start + l, s)
    BY WantsOfChunk
  <1>4. /\ DOMAIN e \subseteq (0..h - 1) \X (0..n - 1)
        /\ \A at \in (0..h - 1) \X (0..n - 1) :
             at \in DOMAIN e <=> Wants(p, len, chunk, at[1], at[2]) # <<>>
    BY <1>1 DEF Embeds
  <1>5. ASSUME NEW l \in 0..h - 1, NEW s \in 0..n - 1
        PROVE  <<l, s>> \in DOMAIN e <=> want(start + l, s) # <<>>
    <2>1. PICK at \in (0..h - 1) \X (0..n - 1) : at = <<l, s>>
      OBVIOUS
    <2>2. at[1] = l /\ at[2] = s
      BY <2>1
    <2>3. Wants(p, len, chunk, at[1], at[2]) = want(start + l, s)
      BY <1>3, <2>2
    <2> HIDE DEF want
    <2> QED
      BY <1>4, <2>1, <2>3
  <1>6. PICK new : new = Moved(e, start)
    OBVIOUS
  <1>7. /\ \A at \in DOMAIN new : \E l, s : PairIn(at, l, s, e, start, h, n)
        /\ \A at, l, s : PairIn(at, l, s, e, start, h, n) => at \in DOMAIN new /\ new[at] = e[<<l, s>>]
    <2>1. MovedRight(new, e, start, h, n)
      BY <1>4, <1>6, MovedIs
    <2> QED
      BY <2>1 DEF MovedRight
  <1>8. ASSUME NEW at, NEW l, NEW s, PairIn(at, l, s, e, start, h, n)
        PROVE  RightAt(new[at], p, len, decoded, at, cap)
    <2>1. l \in 0..h - 1 /\ s \in 0..n - 1 /\ at = <<start + l, s>> /\ <<l, s>> \in DOMAIN e
      BY <1>8 DEF PairIn
    <2>2a. PICK x : x = <<l, s>>
      OBVIOUS
    <2>2. x = <<l, s>> /\ x[1] = l /\ x[2] = s
      BY <2>2a
    <2>3. new[at] = e[x]
      BY <1>7, <1>8, <2>2
    <2>4. e[x][2] = Wants(p, len, chunk, l, s) /\ FeaturesRight(e[x][1], p, len, start + l, l)
      BY <1>2, <2>1, <2>2 DEF Embeds
    <2>5. at[1] = start + l /\ at[2] = s
      BY <2>1
    <2>6. (start + l) % cap = l
      <3>1. start = j * cap
        BY DEF IsTimes
      <3>2. l \in 0..cap - 1 /\ start + l = j * cap + l
        BY <2>1, <3>1, SMTT(30)
      <3>3. PICK y : y = j * cap + l
        OBVIOUS
      <3>4. y % cap = l
        BY <3>2, <3>3, DivModUnique
      <3> QED
        BY <3>2, <3>3, <3>4
    <2>7. e[x][2] = want(at[1], at[2])
      BY <1>3, <2>1, <2>4, <2>5
    <2> HIDE DEF want
    <2>8. FeaturesRight(e[x][1], p, len, at[1], at[1] % cap)
      BY <2>4, <2>5, <2>6
    <2> QED
      BY <2>3, <2>7, <2>8 DEF RightAt, want
  <1>9. /\ DOMAIN old = {at \in (0..start - 1) \X (0..n - 1) : want(at[1], at[2]) # <<>>}
        /\ \A at \in DOMAIN old : RightAt(old[at], p, len, decoded, at, cap)
    BY <1>1 DEF EmbsRight, RightAt
  <1> DEFINE W == {at \in (0..start + h - 1) \X (0..n - 1) : want(at[1], at[2]) # <<>>}
  <1> HIDE DEF want
  <1>10. ASSUME NEW at \in DOMAIN new PROVE at \in W
    <2>1. PICK l, s : PairIn(at, l, s, e, start, h, n)
      BY <1>7
    <2>2. l \in 0..h - 1 /\ s \in 0..n - 1 /\ at = <<start + l, s>> /\ <<l, s>> \in DOMAIN e
      BY <2>1 DEF PairIn
    <2>3. want(start + l, s) # <<>>
      BY <1>5, <2>2
    <2>4. at[1] = start + l /\ at[2] = s /\ start + l \in 0..start + h - 1
      BY <2>2
    <2> QED
      BY <2>2, <2>3, <2>4
  <1>11. ASSUME NEW at \in DOMAIN old PROVE at \in W
    <2>1. PICK m \in 0..start - 1, s \in 0..n - 1 : at = <<m, s>> /\ want(at[1], at[2]) # <<>>
      BY <1>9
    <2>2. m \in 0..start + h - 1
      OBVIOUS
    <2> QED
      BY <2>1, <2>2
  <1>12. ASSUME NEW at \in W PROVE at \in DOMAIN old \cup DOMAIN new
    <2>1. PICK m \in 0..start + h - 1, s \in 0..n - 1 : at = <<m, s>>
      OBVIOUS
    <2>2. at[1] = m /\ at[2] = s /\ want(m, s) # <<>>
      BY <2>1
    <2>3. CASE m < start
      <3>1. at \in (0..start - 1) \X (0..n - 1)
        BY <2>1, <2>3
      <3> HIDE DEF W
      <3> QED
        BY <1>9, <2>2, <3>1
    <2>4. CASE ~(m < start)
      <3>1. PICK l \in 0..h - 1 : l = m - start /\ start + l = m
        BY <2>4
      <3>2. <<l, s>> \in DOMAIN e
        BY <1>5, <2>2, <3>1
      <3>3. PairIn(at, l, s, e, start, h, n)
        BY <2>1, <3>1, <3>2 DEF PairIn
      <3> HIDE DEF W
      <3> QED
        BY <1>7, <3>3
    <2> QED
      BY <2>3, <2>4
  <1> HIDE DEF W
  <1>13. PICK all : all = Over(new, old)
    OBVIOUS
  <1>14. all = [at \in W |-> IF at \in DOMAIN new THEN new[at] ELSE old[at]]
    <2>1. DOMAIN old \cup DOMAIN new = W
      BY <1>10, <1>11, <1>12
    <2> QED
      BY <1>13, <2>1 DEF Over
  <1>15. ASSUME NEW at \in W PROVE RightAt(all[at], p, len, decoded, at, cap)
    <2>1. CASE at \in DOMAIN new
      <3>1. PICK l, s : PairIn(at, l, s, e, start, h, n)
        BY <1>7, <2>1
      <3>2. all[at] = new[at]
        BY <1>14, <2>1
      <3>3. RightAt(new[at], p, len, decoded, at, cap)
        BY <1>8, <3>1
      <3> QED
        BY <3>2, <3>3
    <2>2. CASE at \notin DOMAIN new
      <3>1. at \in DOMAIN old /\ all[at] = old[at]
        BY <1>12, <1>14, <2>2
      <3>2. RightAt(old[at], p, len, decoded, at, cap)
        BY <1>9, <3>1
      <3> QED
        BY <3>1, <3>2
    <2> QED
      BY <2>1, <2>2
  <1>16. DOMAIN all = W
    BY <1>14
  <1>17. EmbsRight(all, start + h, p, len, decoded, cap)
    <2>1. W = {at \in (0..start + h - 1) \X (0..p.speakers - 1) : WantsAt(p, len, decoded, at[1], at[2]) # <<>>}
      BY <1>1 DEF W, want
    <2>2. \A at \in DOMAIN all : /\ all[at][2] = WantsAt(p, len, decoded, at[1], at[2])
                                 /\ FeaturesRight(all[at][1], p, len, at[1], at[1] % cap)
      BY <1>15, <1>16 DEF RightAt
    <2> QED
      BY <1>16, <2>1, <2>2 DEF EmbsRight
  <1> QED
    BY <1>6, <1>13, <1>17

NoneStored == [slots |-> [segs |-> <<>>, embs |-> <<>>], next |-> 0]
StoresAll(p, pipelined, decoded, audio, q, m) ==
  \E run : /\ FoldRun(run, "store", <<p, pipelined, audio>>, NoneStored, q, m)
           /\ TryChunkEmbedding(p, decoded, audio) = run[m].slots

IsPipelined(pipelined, q) == pipelined = (Len(q) >= 2)

AreChunks(q, p, decoded) == q = Chunks(p, decoded)

LEMMA StoreFolds ==
  ASSUME NEW p, NEW decoded, NEW audio, NEW m \in Nat, NEW q, AreChunks(q, p, decoded), DOMAIN q = 1..m,
         NEW pipelined, IsPipelined(pipelined, q)
  PROVE  StoresAll(p, pipelined, decoded, audio, q, m)
  <1> DEFINE base == [slots |-> [segs |-> <<>>, embs |-> <<>>], next |-> 0]
             body(t) == [s \in SUBSET (1..m) |->
                           IF s = {} THEN base
                           ELSE StoreChunk(p, pipelined, audio, t[s \ {Max(s)}], q[Max(s)])]
             it == CHOOSE t : t = body(t)
             ctx == <<p, pipelined, audio>>
  <1>1. TryChunkEmbedding(p, decoded, audio) = it[1..m].slots
    BY DEF TryChunkEmbedding, FoldLeft, MapThenFoldSet, IsPipelined, AreChunks
  <1>2. \A acc, x : FoldStep("store", ctx, acc, x) = StoreChunk(p, pipelined, audio, acc, x)
    BY DEF FoldStep
  <1> HIDE DEF ctx, base
  <1>3. PICK t : FoldTable(t, "store", ctx, base, q, SUBSET (1..m))
    BY FoldTablesExist
  <1>4. t = body(t)
    BY <1>2, <1>3 DEF FoldTable
  <1>5. it = body(it)
    <2> HIDE DEF body
    <2> QED
      BY <1>4
  <1> HIDE DEF it
  <1>6. FoldTable(it, "store", ctx, base, q, SUBSET (1..m))
    BY <1>2, <1>5 DEF FoldTable
  <1> HIDE DEF body
  <1>7. PICK run : FoldRun(run, "store", ctx, base, q, m) /\ run[m] = it[1..m]
    <2>1. RunsTo(it[1..m], "store", ctx, base, q, m)
      BY <1>6, FoldTableRuns
    <2> QED
      BY <2>1 DEF RunsTo
  <1>8. TryChunkEmbedding(p, decoded, audio) = run[m].slots
    BY <1>1, <1>7
  <1>9. base = NoneStored /\ ctx = <<p, pipelined, audio>>
    BY DEF base, ctx, NoneStored
  <1> QED
    BY <1>7, <1>8, <1>9 DEF StoresAll

(* What is stored when done windows are.                                   *)
StoreInv(acc, done, p, len, decoded, cap) ==
  /\ acc.next = done
  /\ acc.slots.segs = FirstOnes(decoded, done)
  /\ EmbsRight(acc.slots.embs, done, p, len, decoded, cap)

(* The windows of a file of len samples.                                   *)
IsFile(p, len, decoded, frames) ==
  /\ Len(decoded) = SegmentationWindowCount(len, p)
  /\ \A i \in 1..Len(decoded) : IsWindow(decoded[i], frames, p.speakers)

LEMMA ChunkOfFile ==
  ASSUME NEW p, IsPlan(p), NEW len \in Nat, NEW frames, NEW X, NEW decoded \in Seq(X),
         IsFile(p, len, decoded, frames), NEW start \in Nat, NEW h \in Nat \ {0},
         start + h <= Len(decoded), NEW chunk, IsChunkAt(chunk, decoded, start, h)
  PROVE  IsChunk(chunk, p, len, frames, h)
  <1>1. chunk.start = start /\ IsPiece(chunk.decoded, decoded, start, h)
    BY DEF IsChunkAt
  <1>2. Len(chunk.decoded) = h /\ \A i \in 1..h : chunk.decoded[i] = decoded[start + i]
    <2>1. PICK c : c = chunk.decoded
      OBVIOUS
    <2>2. PieceOf(c, decoded, start, h, X)
      BY <1>1, <2>1, PieceIs
    <2> QED
      BY <2>1, <2>2 DEF PieceOf
  <1>3. PICK total \in Nat : total = Len(decoded) /\ total = SegmentationWindowCount(len, p)
    BY LenProperties DEF IsFile
  <1>4. ASSUME NEW l \in 0..h - 1 PROVE IsWindow(chunk.decoded[l + 1], frames, p.speakers)
    <2>1. PICK i \in 1..h : i = l + 1
      OBVIOUS
    <2>2. start + i \in 1..total
      BY <1>3
    <2>3. IsWindow(decoded[start + i], frames, p.speakers)
      BY <1>3, <2>2 DEF IsFile
    <2> QED
      BY <1>2, <2>1, <2>3
  <1>5. ASSUME NEW l \in 0..h - 1 PROVE (chunk.start + l) * p.step < len
    <2>1. PICK n \in Nat : n = start + l /\ n < total
      BY <1>3
    <2>2. p.step \in Nat \ {0} /\ p.window \in Nat \ {0}
      BY DEF IsPlan
    <2>3. PICK a : IsTimes(a, n, p.step) /\ a = n * p.step
      BY DEF IsTimes
    <2>4. a < len
      BY <1>3, <2>1, <2>2, <2>3, WindowStarts
    <2> QED
      BY <1>1, <2>1, <2>3, <2>4
  <1> QED
    BY <1>1, <1>2, <1>4, <1>5 DEF IsChunk

LEMMA StoreStepRight ==
  ASSUME NEW p, IsPlan(p), SessionsFit(p), NEW len \in Nat, NEW frames, NEW X, NEW decoded \in Seq(X),
         IsFile(p, len, decoded, frames), NEW start \in Nat, NEW cap \in Nat \ {0},
         Last(p.sessions).windows = cap, NEW h \in 1..cap, NEW j \in Nat, IsTimes(start, j, cap),
         start + h <= Len(decoded), NEW chunk, IsChunkAt(chunk, decoded, start, h),
         NEW acc, StoreInv(acc, start, p, len, decoded, cap), NEW pipelined
  PROVE  StoreInv(StoreChunk(p, pipelined, Samples(len), acc, chunk), start + h, p, len, decoded, cap)
  <1>1. IsChunk(chunk, p, len, frames, h) /\ h \in Nat \ {0} /\ h <= cap
    BY ChunkOfFile
  <1>2. chunk.start = start /\ Len(chunk.decoded) = h /\ IsPiece(chunk.decoded, decoded, start, h)
    BY <1>1 DEF IsChunk, IsChunkAt
  <1>3. PICK session : session = SessionFor(p, pipelined, chunk)
    OBVIOUS
  <1>4. Takes(session, p, h)
    BY <1>1, <1>2, <1>3, SessionFits
  <1>5. PICK e : e = EmbedChunk(p, session, chunk, Samples(len))
    OBVIOUS
  <1>6. Embeds(e, p, len, chunk, h)
    BY <1>1, <1>4, <1>5, ChunkEmbeds
  <1>7. acc.next = start
    BY DEF StoreInv
  <1>8. PICK segs, embs : segs = acc.slots.segs /\ embs = acc.slots.embs
    OBVIOUS
  <1>9. segs = FirstOnes(decoded, start) /\ EmbsRight(embs, start, p, len, decoded, cap)
    BY <1>8 DEF StoreInv
  <1>10. PICK new : new = StoreChunk(p, pipelined, Samples(len), acc, chunk)
    OBVIOUS
  <1>11. (IF pipelined THEN chunk.start ELSE acc.next) = start
    BY <1>2, <1>7
  <1>12. new = [slots |-> Stored(acc.slots, start, chunk, e), next |-> start + h]
    BY <1>2, <1>3, <1>5, <1>7, <1>10, <1>11 DEF StoreChunk
  <1> DEFINE nsegs == Over([n \in start..start + h - 1 |-> chunk.decoded[n - start + 1]], segs)
             nembs == Over(Moved(e, start), embs)
  <1>13. Stored(acc.slots, start, chunk, e) = [segs |-> nsegs, embs |-> nembs]
    BY <1>2, <1>8 DEF Stored, Moved
  <1>14. nsegs = FirstOnes(decoded, start + h)
    <2>1. PICK c : c = chunk.decoded /\ IsPiece(c, decoded, start, h)
      BY <1>2
    <2>2. h \in Nat
      BY <1>1
    <2>3. AddedSegs(c, start, h, FirstOnes(decoded, start)) = FirstOnes(decoded, start + h)
      BY <2>1, <2>2, SegsStored
    <2> QED
      BY <1>9, <2>1, <2>3, Zenon DEF AddedSegs
  <1>15. EmbsRight(nembs, start + h, p, len, decoded, cap)
    <2>1. PICK g \in Nat : g = h /\ g <= cap
      BY <1>1
    <2>2. IsChunkAt(chunk, decoded, start, g) /\ Embeds(e, p, len, chunk, g) /\ start + g <= Len(decoded)
      BY <1>6, <2>1
    <2>3. EmbsRight(Over(Moved(e, start), embs), start + g, p, len, decoded, cap)
      BY <1>9, <2>1, <2>2, EmbsStored
    <2> QED
      BY <2>1, <2>3
  <1> HIDE DEF nsegs, nembs
  <1>16. new.next = start + h /\ new.slots.segs = nsegs /\ new.slots.embs = nembs
    BY <1>12, <1>13
  <1>17. StoreInv(new, start + h, p, len, decoded, cap)
    BY <1>14, <1>15, <1>16 DEF StoreInv
  <1> QED
    BY <1>10, <1>17

StoredUpTo(acc, k, p, len, decoded, cap, K) ==
  \E done \in Nat : /\ StoreInv(acc, done, p, len, decoded, cap)
                    /\ k < K => IsTimes(done, k, cap)
                    /\ k = K => done = Len(decoded)

LEMMA NoneStoredRight ==
  ASSUME NEW p, NEW len, NEW decoded, NEW cap
  PROVE  StoreInv(NoneStored, 0, p, len, decoded, cap)
  <1>1. <<>> = FirstOnes(decoded, 0)
    <2>1. 0..0 - 1 = {} /\ DOMAIN <<>> = {}
      OBVIOUS
    <2> QED
      BY <2>1 DEF FirstOnes
  <1>2. EmbsRight(<<>>, 0, p, len, decoded, cap)
    <2>1. (0..0 - 1) \X (0..p.speakers - 1) = {} /\ DOMAIN <<>> = {}
      <3>1. 0..0 - 1 = {}
        OBVIOUS
      <3> QED
        BY <3>1
    <2> QED
      BY <2>1 DEF EmbsRight
  <1>3. NoneStored.next = 0 /\ NoneStored.slots.segs = <<>> /\ NoneStored.slots.embs = <<>>
    BY DEF NoneStored
  <1> QED
    BY <1>1, <1>2, <1>3 DEF StoreInv

StoredRight(slots, p, len, decoded, cap) ==
  /\ slots.segs = FirstOnes(decoded, Len(decoded))
  /\ EmbsRight(slots.embs, Len(decoded), p, len, decoded, cap)

LEMMA FileStored ==
  ASSUME NEW p, IsPlan(p), SessionsFit(p), NEW len \in Nat, NEW frames, NEW X, NEW decoded \in Seq(X),
         IsFile(p, len, decoded, frames), NEW cap \in Nat \ {0}, Last(p.sessions).windows = cap
  PROVE  StoredRight(TryChunkEmbedding(p, decoded, Samples(len)), p, len, decoded, cap)
  <1>1. PICK total \in Nat : total = Len(decoded)
    BY LenProperties
  <1>2. PICK K : K = CeilDiv(total, cap)
    OBVIOUS
  <1>3. PICK q : q = Chunks(p, decoded)
    OBVIOUS
  <1>4. /\ K \in Nat /\ q \in Seq({q[i] : i \in 1..K}) /\ Len(q) = K /\ (K = 0 <=> total = 0)
        /\ \A i \in 1..K : \E start, h : Piece(start, h, i, cap, total, K) /\ IsChunkAt(q[i], decoded, start, h)
    <2>1. ChunksRight(q, decoded, cap, total, K)
      BY <1>1, <1>2, <1>3, ChunksCut
    <2> QED
      BY <2>1 DEF ChunksRight
  <1>5. DOMAIN q = 1..K
    BY <1>4, LenProperties
  <1>6. PICK pipelined : IsPipelined(pipelined, q)
    BY DEF IsPipelined
  <1>7. PICK run : /\ FoldRun(run, "store", <<p, pipelined, Samples(len)>>, NoneStored, q, K)
                   /\ TryChunkEmbedding(p, decoded, Samples(len)) = run[K].slots
    <2>1. StoresAll(p, pipelined, decoded, Samples(len), q, K)
      BY <1>3, <1>4, <1>5, <1>6, StoreFolds DEF AreChunks
    <2> QED
      BY <2>1 DEF StoresAll
  <1> DEFINE N == {k \in Nat : k <= K => StoredUpTo(run[k], k, p, len, decoded, cap, K)}
  <1>8. 0 \in N
    <2>1. run[0] = NoneStored
      BY <1>7 DEF FoldRun
    <2>2. StoreInv(run[0], 0, p, len, decoded, cap)
      BY <2>1, NoneStoredRight
    <2>3. IsTimes(0, 0, cap) /\ (0 = K => 0 = Len(decoded))
      BY <1>1, <1>4 DEF IsTimes
    <2>4. StoredUpTo(run[0], 0, p, len, decoded, cap, K)
      BY <2>2, <2>3 DEF StoredUpTo
    <2> QED
      BY <2>4
  <1>9. ASSUME NEW k \in Nat, k \in N PROVE k + 1 \in N
    <2> SUFFICES ASSUME k + 1 <= K PROVE StoredUpTo(run[k + 1], k + 1, p, len, decoded, cap, K)
      OBVIOUS
    <2>1. PICK i \in 1..K : i = k + 1 /\ k < K /\ i - 1 = k
      BY <1>4
    <2>2. PICK done \in Nat : StoreInv(run[k], done, p, len, decoded, cap) /\ IsTimes(done, k, cap)
      BY <1>4, <1>9, <2>1 DEF StoredUpTo
    <2>3. PICK start, h : Piece(start, h, i, cap, total, K) /\ IsChunkAt(q[i], decoded, start, h)
      BY <1>4
    <2>4. start \in Nat /\ h \in 1..cap /\ IsTimes(start, k, cap) /\ start + h <= total
          /\ (i < K => h = cap) /\ (i = K => start + h = total)
      BY <2>1, <2>3 DEF Piece
    <2>5. start = done
      BY <2>2, <2>4 DEF IsTimes
    <2>6. run[i] = StoreChunk(p, pipelined, Samples(len), run[k], q[i])
      <3>1. k \in 0..K - 1
        BY <1>4, <2>1
      <3>2. run[k + 1] = FoldStep("store", <<p, pipelined, Samples(len)>>, run[k], q[k + 1])
        BY <1>7, <3>1 DEF FoldRun
      <3> QED
        BY <2>1, <3>2 DEF FoldStep
    <2>7. PICK next \in Nat : next = start + h
      BY <2>4
    <2>8. StoreInv(run[i], next, p, len, decoded, cap)
      BY <1>1, <2>2, <2>3, <2>4, <2>5, <2>6, <2>7, StoreStepRight
    <2>9. i < K => IsTimes(next, i, cap)
      <3>1. (k + 1) * cap = k * cap + cap
        BY Distribute
      <3> QED
        BY <2>1, <2>4, <2>7, <3>1 DEF IsTimes
    <2>10. i = K => next = Len(decoded)
      BY <1>1, <2>4, <2>7
    <2> QED
      BY <2>1, <2>8, <2>9, <2>10 DEF StoredUpTo
  <1> HIDE DEF N
  <1>10. K \in N
    BY <1>4, <1>8, <1>9, NatSetInduction
  <1>11. StoredUpTo(run[K], K, p, len, decoded, cap, K)
    BY <1>4, <1>10 DEF N
  <1>12. StoreInv(run[K], Len(decoded), p, len, decoded, cap)
    BY <1>11 DEF StoredUpTo
  <1> QED
    BY <1>7, <1>12 DEF StoreInv, StoredRight

(* The windows of a file, of which some repeat.                            *)
WindowsOf(decoded, total) == [n \in 1..total |-> decoded[1 + (n % Len(decoded))]]

LEMMA WindowsRepeat ==
  ASSUME NEW X, NEW decoded \in Seq(X), decoded # <<>>, NEW total \in Nat
  PROVE  /\ WindowsOf(decoded, total) \in Seq(X) /\ Len(WindowsOf(decoded, total)) = total
  <1>1. PICK l \in Nat : l = Len(decoded) /\ DOMAIN decoded = 1..l
    BY LenProperties
  <1>2. l # 0
    <2>1. ASSUME l = 0 PROVE decoded = <<>>
      BY <1>1, <2>1, EmptySeq
    <2> QED
      BY <2>1
  <1>3. ASSUME NEW n \in 1..total PROVE decoded[1 + (n % l)] \in X
    <2>1. PICK i \in 1..l : i = 1 + (n % l)
      <3>1. n % l \in 0..l - 1
        BY <1>2
      <3>2. 1 + (n % l) \in 1..l
        BY <3>1
      <3> QED
        BY <3>2
    <2> QED
      BY <1>1, <2>1, ElementOfSeq
  <1>4. PICK q : q = WindowsOf(decoded, total)
    OBVIOUS
  <1>5. q = [n \in 1..total |-> decoded[1 + (n % l)]]
    BY <1>1, <1>4 DEF WindowsOf
  <1>6. q \in [1..total -> X]
    BY <1>3, <1>5
  <1>7. q \in Seq(X) /\ Len(q) = total
    BY <1>5, <1>6
  <1> QED
    BY <1>4, <1>7

LEMMA CountIsNat ==
  ASSUME NEW p, p.step \in Nat \ {0}, p.window \in Nat, NEW len \in Nat
  PROVE  SegmentationWindowCount(len, p) \in Nat
  <1>1. PICK step \in Nat \ {0} : step = p.step
    OBVIOUS
  <1>2. PICK window \in Nat : window = p.window
    OBVIOUS
  <1>3. CASE len = 0 \/ len <= window
    BY <1>2, <1>3 DEF SegmentationWindowCount
  <1>4. CASE ~(len = 0 \/ len <= window)
    <2>1. PICK y \in Nat : y = len - window
      BY <1>4
    <2>2. PICK f \in Nat : f = y \div step + 1
      BY DivBounds
    <2>3. PICK z : z = f * step
      OBVIOUS
    <2>4. SegmentationWindowCount(len, p) = f + IF z < len THEN 1 ELSE 0
      BY <1>1, <1>2, <1>4, <2>1, <2>2, <2>3 DEF SegmentationWindowCount
    <2> QED
      BY <2>4
  <1> QED
    BY <1>3, <1>4

ShapedPlan(x, p, len, decoded, frames) ==
  /\ p = x.p /\ len = x.len /\ decoded = x.decoded /\ frames = FramesOf(x.decoded[1])
  /\ IsPlan(p) /\ SessionsFit(p) /\ len \in Nat /\ decoded # <<>> /\ frames \in Nat \ {0}
  /\ decoded \in Seq([0..frames - 1 -> [0..p.speakers - 1 -> Nat]])

LEMMA ChunkInputShaped ==
  ASSUME NEW x \in ChunkInputs
  PROVE  \E p, len, decoded, frames : ShapedPlan(x, p, len, decoded, frames)
  <1>1. ChunksShaped(x)
    BY ChunkAssumption
  <1>2. ShapedPlan(x, x.p, x.len, x.decoded, FramesOf(x.decoded[1]))
    BY <1>1 DEF ChunksShaped, ShapedPlan, IsPlan, SessionsFit, Upto
  <1> QED
    BY <1>2

(* The inputs of the calls, and what a call of another kind leaves alone.  *)
AskedInv ==
  /\ call.kind = "decode" => call.input \in DecodeInputs
  /\ call.kind = "windows" => call.input \in WindowInputs
  /\ call.kind = "layout" => call.input \in LayoutInputs
  /\ call.kind = "filter" => call.input \in FilterInputs
  /\ call.kind = "segments" => call.input \in SegmentInputs
  /\ call.kind = "plan" => call.input \in SpecInputs
  /\ call.kind = "extract" => call.input \in ExtractInputs
  /\ call.kind = "chunks" => call.input \in ChunkInputs

CallInv ==
  /\ AskedInv /\ ClassesAreSets /\ WindowsPlanned /\ FilterSound
  /\ SpeakersWereHeard /\ TurnsFaithful /\ RunnableMeansMeasured /\ ExtractionAligned

LEMMA AskedInitially == CallInit => AskedInv /\ result = <<>>
  BY DEF CallInit, Choose, AskedInv

LEMMA CallSteps ==
  ASSUME CallNext
  PROVE  /\ call' = call
         /\ call.kind = "decode" => Decode
         /\ call.kind = "windows" => Windows
         /\ call.kind = "layout" => Layout
         /\ call.kind = "filter" => Filter
         /\ call.kind = "segments" => Segments
         /\ call.kind = "plan" => Plan
         /\ call.kind = "extract" => Extract
         /\ call.kind = "chunks" => EmbedInChunks
  <1>1. Decode => call' = call /\ call.kind = "decode"
    BY DEF Decode, Return
  <1>2. Segments => call' = call /\ call.kind = "segments"
    BY DEF Segments, Return
  <1>3. Filter => call' = call /\ call.kind = "filter"
    BY DEF Filter, Return
  <1>4. Assign => call' = call /\ call.kind = "assign"
    BY DEF Assign, Return
  <1>5. Cut => call' = call /\ call.kind = "cut"
    BY DEF Cut, Return
  <1>6. Mask => call' = call /\ call.kind = "mask"
    BY DEF Mask, Return
  <1>7. Extract => call' = call /\ call.kind = "extract"
    BY DEF Extract, Return
  <1>8. EmbedInChunks => call' = call /\ call.kind = "chunks"
    BY DEF EmbedInChunks, Return
  <1>9. Layout => call' = call /\ call.kind = "layout"
    BY DEF Layout, Return
  <1>10. Der => call' = call /\ call.kind = "der"
    BY DEF Der, Return
  <1>11. Mapping => call' = call /\ call.kind = "mapping"
    BY DEF Mapping, Return
  <1>12. Windows => call' = call /\ call.kind = "windows"
    BY DEF Windows, Return
  <1>13. Embed => call' = call /\ call.kind = "embed"
    BY DEF Embed, Return
  <1>14. Sessions => call' = call /\ call.kind = "sessions"
    BY DEF Sessions, Return
  <1>15. Report => call' = call /\ call.kind = "report"
    BY DEF Report, Return
  <1>16. Plan => call' = call /\ call.kind = "plan"
    BY DEF Plan, Return
  <1>17. CASE Decode \/ Segments \/ Assign \/ Cut \/ Mask \/ Extract \/ EmbedInChunks \/ Der
    BY <1>1, <1>2, <1>4, <1>5, <1>6, <1>7, <1>8, <1>10, <1>17
  <1>18. CASE Mapping \/ Embed \/ Sessions \/ Report \/ Plan
    BY <1>11, <1>13, <1>14, <1>15, <1>16, <1>18
  <1>19. CASE Filter \/ Layout \/ Windows
    BY <1>3, <1>9, <1>12, <1>19
  <1> QED
    BY <1>17, <1>18, <1>19 DEF CallNext

LEMMA DecodeAnswered ==
  ASSUME AskedInv, Decode
  PROVE  ClassesAreSets'
  <1>1. PICK x : x = call.input
    OBVIOUS
  <1>2. call.kind = "decode" /\ call' = call /\ x \in DecodeInputs
    BY <1>1 DEF Decode, Return, AskedInv
  <1> DEFINE y == PowersetMapping(x.speakers, x.maxSet)
  <1>3. result' = <<y>>
    BY <1>1 DEF Decode, Return, in
  <1>4. AllSetsInOrder(y, x.speakers, x.maxSet)
    <2>1. x.speakers \in Nat /\ x.maxSet \in Nat
      BY <1>2, DecodeAssumption
    <2> QED
      BY <2>1, ClassesInOrder
  <1> HIDE DEF y
  <1>5. out' = y /\ in' = x
    BY <1>1, <1>2, <1>3 DEF out, in
  <1> QED
    BY <1>2, <1>4, <1>5 DEF ClassesAreSets, Returned

LEMMA WindowsAnswered ==
  ASSUME AskedInv, Windows
  PROVE  WindowsPlanned'
  <1>1. PICK x : x = call.input
    OBVIOUS
  <1>2. call.kind = "windows" /\ call' = call /\ x \in WindowInputs
    BY <1>1 DEF Windows, Return, AskedInv
  <1> DEFINE all == Collect(x.len, x.spec)
             tasks == BuildTasks(TotalWindows(all), x.plan)
  <1>3. result' = <<[windows |-> all, tasks |-> tasks]>>
    BY <1>1 DEF Windows, Return, in
  <1>4. /\ x.len \in Nat /\ x.spec.window \in Nat \ {0} /\ x.spec.step \in Nat \ {0}
        /\ x.plan.warmStart \in BOOLEAN /\ x.plan.warm \in Nat
        /\ x.plan.small \in Nat \ {0} /\ x.plan.large \in Nat \ {0}
    BY <1>2, WindowsAssumption
  <1>5. CoversAudio(all, x.len, x.spec)
    BY <1>4, CollectCoversAudio
  <1>6. TotalWindows(all) \in Nat
    BY <1>4, <1>5 DEF CoversAudio, SegmentationWindowCount
  <1>7. FollowsPlan(tasks, TotalWindows(all), x.plan)
    BY <1>4, <1>6, BuildFollowsPlan
  <1> HIDE DEF all, tasks
  <1>8. out'.windows = all /\ out'.tasks = tasks /\ in' = x
    BY <1>1, <1>2, <1>3 DEF out, in
  <1> QED
    BY <1>2, <1>5, <1>7, <1>8 DEF WindowsPlanned, Returned

LEMMA LayoutAnswered ==
  ASSUME AskedInv, Layout
  PROVE  WindowsPlanned'
  <1>1. PICK x : x = call.input
    OBVIOUS
  <1>2. call.kind = "layout" /\ call' = call /\ x \in LayoutInputs
    BY <1>1 DEF Layout, Return, AskedInv
  <1>3. result' = <<[starts |-> StartFrames(x.windows, x.step),
                     frames |-> OutputFrames(x.windows, x.step)]>>
    BY <1>1 DEF Layout, Return, in
  <1>4. FramesHold(StartFrames(x.windows, x.step), OutputFrames(x.windows, x.step))
    BY <1>2, LayoutAssumption, LayoutIsSound
  <1>5. out'.starts = StartFrames(x.windows, x.step) /\ out'.frames = OutputFrames(x.windows, x.step)
    BY <1>3 DEF out
  <1>6. FramesHold(out'.starts, out'.frames)
    BY <1>4, <1>5
  <1> QED
    BY <1>2, <1>6 DEF WindowsPlanned, Returned, FramesHold

LEMMA FilterAnswered ==
  ASSUME AskedInv, Filter
  PROVE  FilterSound'
  <1>1. PICK x : x = call.input
    OBVIOUS
  <1>2. call.kind = "filter" /\ call' = call /\ x \in FilterInputs
    BY <1>1 DEF Filter, Return, AskedInv
  <1>3. result' = <<Binarize(x.scores, x.config)>>
    BY <1>1 DEF Filter, Return, in
  <1>4. FilterFaithful(x.scores, x.config, Binarize(x.scores, x.config))
    <2>1. PICK n \in Nat : n = FramesOf(x.scores) /\ x.scores \in [Upto(n) -> Int]
      BY <1>2, FilterAssumption
    <2>2. PICK config \in [onset : Int, offset : Int, minOn : Nat, minOff : Nat,
                           padOnset : Nat, padOffset : Nat] : config = x.config
      BY <1>2, FilterAssumption
    <2>3. PICK scores \in [0 .. n - 1 -> Int] : scores = x.scores
      BY <2>1 DEF Upto
    <2>4. FilterFaithful(scores, config, Binarize(scores, config))
      BY FilterIsFaithful
    <2> QED
      BY <2>2, <2>3, <2>4
  <1>5. out' = Binarize(x.scores, x.config) /\ in' = x
    BY <1>1, <1>2, <1>3 DEF out, in
  <1> QED
    BY <1>2, <1>4, <1>5 DEF FilterSound, Returned

(* The speakers of a chunk that hold a cluster each vote for their own, so *)
(* as many clusters have votes as a chunk hears speakers.                  *)
LEMMA VotedForEnough ==
  ASSUME NEW H, IsFiniteSet(H), NEW labels, NEW P, IsFiniteSet(P),
         \A s \in H : labels[s] \in P,
         \A s, t \in H : s # t => labels[s] # labels[t]
  PROVE  Cardinality(H) <= Cardinality(P)
  <1> DEFINE g == [s \in H |-> labels[s]]
  <1>1. g \in Injection(H, P)
    BY DEF Injection, IsInjective
  <1> QED
    BY <1>1, FS_Injection

LEMMA HeardIsActive ==
  ASSUME NEW n \in Nat, NEW S, NEW seg \in [0 .. n - 1 -> [S -> {0, 1}]],
         NEW f \in 0 .. n - 1, NEW s \in S, seg[f][s] = 1
  PROVE  Activity(seg, s) > 0
  <1> DEFINE D == 0 .. n - 1
             h == [g \in D |-> seg[g][s]]
             ones == {g \in D : h[g] = 1}
  <1>1. Activity(seg, s) = SumFunction(h)
    BY DEF Activity, SumOver
  <1>2. h \in [D -> {0, 1}] /\ IsFiniteSet(D)
    BY FS_Interval
  <1>3. f \in ones
    OBVIOUS
  <1> HIDE DEF h, D
  <1>4. SumFunction(h) = Cardinality(ones)
    BY <1>2, SumCountsOnes
  <1>5. IsFiniteSet(ones)
    BY <1>2, FS_Subset
  <1> HIDE DEF ones
  <1>6. Cardinality(ones) \in Nat /\ Cardinality(ones) # 0
    BY <1>3, <1>5, FS_CardinalityType, FS_EmptySet
  <1> QED
    BY <1>1, <1>4, <1>6

LEMMA PlacedAreHeard ==
  ASSUME NEW segs, NEW starts, Chunked(segs, starts), segs # <<>>, NEW n \in Nat,
         NEW clusters \in [DOMAIN segs -> [Speakers(segs) -> Int]],
         NEW count, count = SpeakerCount(segs, starts, 0, n), count \in [0 .. n - 1 -> Nat],
         NEW columns \in Nat,
         \A c \in DOMAIN segs, s \in Speakers(segs) : clusters[c][s] < columns,
         NEW chosen, NEW smooth,
         Elected(chosen, columns, segs, starts, clusters, count, n, smooth),
         \A c \in DOMAIN segs : \A s, t \in Speakers(segs) :
           Activity(segs[c], s) > 0 =>
             clusters[c][s] >= 0 /\ (s # t => clusters[c][s] # clusters[c][t]),
         NEW f \in 0 .. n - 1, NEW k \in chosen[f]
  PROVE  Voters(segs, starts, clusters, f, k) # {}
  <1> DEFINE S == Speakers(segs)
             C == Covering(segs, starts, 0, f)
             heard == HeardAt(segs, starts, f)
             V(l) == Voters(segs, starts, clusters, f, l)
             cols == 0 .. columns - 1
             P == {l \in cols : V(l) # {}}
  <1> SUFFICES ASSUME V(k) = {} PROVE FALSE
    OBVIOUS
  <1>1. f \in Nat /\ IsFiniteSet(S) /\ IsFiniteSet(cols)
    BY FS_Interval DEF Chunked
  <1>2. IsFiniteSet(P) /\ Cardinality(P) \in Nat
    <2>1. P \subseteq cols
      OBVIOUS
    <2> HIDE DEF P, cols
    <2> QED
      BY <1>1, <2>1, FS_Subset, FS_CardinalityType
  <1>3. C \subseteq DOMAIN segs /\ IsFiniteSet(C)
    BY <1>1, CoveringFacts
  <1>4. \A l \in cols : IsFiniteSet(V(l)) /\ Cardinality(V(l)) \in Nat
    <2>1. \A l \in cols : V(l) \subseteq C
      BY DEF Voters
    <2> HIDE DEF V, C, cols
    <2> QED
      BY <1>3, <2>1, FS_Subset, FS_CardinalityType
  <1>5. heard = [c \in C |-> {s \in S : segs[c][f - starts[c]][s] = 1}]
    BY DEF HeardAt
  <1>6. ASSUME NEW c \in C PROVE Cardinality(heard[c]) <= Cardinality(P)
    <2>1. PICK H : H = heard[c]
      OBVIOUS
    <2>2. PICK labels \in [S -> Int] : labels = clusters[c]
      BY <1>3
    <2>3. \A s \in H : s \in S /\ segs[c][f - starts[c]][s] = 1
      BY <1>5, <2>1
    <2>4. ASSUME NEW s \in H PROVE Activity(segs[c], s) > 0
      <3>1. segs[c] \in [0 .. ChunkFrames(segs) - 1 -> [S -> {0, 1}]]
        BY <1>3 DEF Chunked
      <3>2. f - starts[c] \in 0 .. ChunkFrames(segs) - 1
        <4>1. f - starts[c] \in 0 .. ChunkFrames(segs) - 0 - 1
          BY DEF Covering
        <4> QED
          BY <4>1 DEF Chunked
      <3>3. ChunkFrames(segs) \in Nat
        BY DEF Chunked
      <3> HIDE DEF S, C
      <3> QED
        BY <2>3, <3>1, <3>2, <3>3, HeardIsActive
    <2>5. \A s \in H : labels[s] \in Int /\ labels[s] >= 0 /\ labels[s] < columns
      BY <1>3, <2>2, <2>3, <2>4
    <2>6. \A s, t \in H : s # t => labels[s] # labels[t]
      BY <1>3, <2>2, <2>3, <2>4
    <2>7. ASSUME NEW s \in H PROVE labels[s] \in P
      <3>1. c \in V(labels[s])
        BY <2>1, <2>2 DEF Voters
      <3>2. labels[s] \in cols
        BY <2>5
      <3> HIDE DEF V, cols
      <3> QED
        BY <3>1, <3>2
    <2>8. IsFiniteSet(H)
      <3>1. H \subseteq S
        BY <2>3
      <3> QED
        BY <1>1, <3>1, FS_Subset
    <2> HIDE DEF P
    <2>9. Cardinality(H) <= Cardinality(P)
      BY <1>2, <2>6, <2>7, <2>8, VotedForEnough
    <2> QED
      BY <2>1, <2>9
  <1>7. count[f] <= Cardinality(P)
    <2>1. Counted(count[f], heard)
      BY CountFollowsHeard
    <2>2. DOMAIN heard = C
      BY <1>5
    <2> HIDE DEF heard, P, C
    <2> QED
      BY <1>2, <1>6, <2>1, <2>2 DEF Counted
  <1>8. /\ chosen[f] \subseteq cols /\ IsFiniteSet(chosen[f]) /\ Cardinality(chosen[f]) = count[f]
        /\ \A l \in cols : l \notin chosen[f] => Cardinality(V(k)) >= Cardinality(V(l))
    BY DEF Elected
  <1> HIDE DEF V, cols
  <1>9. P \subseteq chosen[f]
    <2> SUFFICES ASSUME NEW l \in P, l \notin chosen[f] PROVE FALSE
      OBVIOUS
    <2>1. l \in cols /\ V(l) # {}
      OBVIOUS
    <2>2. Cardinality(V(l)) \in Nat /\ Cardinality(V(l)) # 0
      BY <1>4, <2>1, FS_EmptySet
    <2>3. Cardinality(V(k)) = 0
      BY FS_EmptySet
    <2> QED
      BY <1>8, <2>1, <2>2, <2>3
  <1>10. k \notin P
    OBVIOUS
  <1> HIDE DEF P
  <1>11. P # chosen[f]
    BY <1>10
  <1>12. Cardinality(P) <= Cardinality(chosen[f]) /\ Cardinality(P) # Cardinality(chosen[f])
    <2>1. Cardinality(P) <= Cardinality(chosen[f])
      BY <1>8, <1>9, FS_Subset
    <2>2. Cardinality(P) # Cardinality(chosen[f])
      BY <1>8, <1>9, <1>11, FS_Subset
    <2> QED
      BY <2>1, <2>2
  <1> QED
    BY <1>2, <1>7, <1>8, <1>12

LEMMA SilentVotes ==
  ASSUME NEW segs, NEW starts, Chunked(segs, starts), segs # <<>>, NEW n \in Nat,
         NEW count, count = SpeakerCount(segs, starts, 0, n)
  PROVE  /\ count \in [0 .. n - 1 -> Nat]
         /\ \A f \in 0 .. n - 1 : Counted(count[f], HeardAt(segs, starts, f))
  <1>1. \A f \in 0 .. n - 1 : Counted(count[f], HeardAt(segs, starts, f))
    BY CountFollowsHeard
  <1>2. DOMAIN count = 0 .. n - 1 /\ count = [f \in 0 .. n - 1 |-> count[f]]
    BY DEF SpeakerCount, Upto
  <1>3. \A f \in 0 .. n - 1 : count[f] \in Nat
    BY <1>1 DEF Counted
  <1> QED
    BY <1>1, <1>2, <1>3

LEMMA TurnsAreHeard ==
  ASSUME NEW x, SegmentsShaped(x)
  PROVE  OnlyTheHeard(x.segs, x.starts, x.clusters, x.config.epsilon2,
                      PostInference(x.segs, x.starts, x.outputFrames, x.clusters, x.config))
  <1> DEFINE y == PostInference(x.segs, x.starts, x.outputFrames, x.clusters, x.config)
             silent == \A f \in DOMAIN y.count : y.count[f] = 0
  <1>1. PICK segs, starts, clusters, n, epsilon2 :
          /\ segs = x.segs /\ starts = x.starts /\ clusters = x.clusters
          /\ n = x.outputFrames /\ epsilon2 = x.config.epsilon2
    BY Zenon
  <1>0. n \in Nat /\ epsilon2 \in 0 .. 2
    BY <1>1 DEF SegmentsShaped
  <1>2. PICK count : count = SpeakerCount(segs, starts, 0, n)
    OBVIOUS
  <1>3. PICK activations : activations = FrameActivations(segs, starts, 0, clusters, count)
    OBVIOUS
  <1>4. PICK chosen : chosen = Reconstruct(activations, count, epsilon2)
    OBVIOUS
  <1>5. y.count = count
    BY <1>1, <1>2 DEF PostInference
  <1>6. y.chosen = IF silent THEN [f \in DOMAIN count |-> {}] ELSE chosen
    BY <1>1, <1>2, <1>3, <1>4, <1>5 DEF PostInference
  <1> HIDE DEF y, silent
  <1>7. CASE segs = <<>>
    <2>1. DOMAIN y.count = {}
      BY <1>2, <1>5, <1>7 DEF SpeakerCount
    <2>2. OnlyTheHeard(segs, starts, clusters, epsilon2, y)
      BY <2>1 DEF OnlyTheHeard
    <2> QED
      BY <1>1, <2>2 DEF y
  <1>8. CASE segs # <<>>
    <2>1. Chunked(segs, starts) /\ clusters \in [DOMAIN segs -> [Speakers(segs) -> Int]]
      BY <1>1, <1>8 DEF SegmentsShaped, Chunked, Upto
    <2>2. /\ count \in [0 .. n - 1 -> Nat]
          /\ \A f \in 0 .. n - 1 : Counted(count[f], HeardAt(segs, starts, f))
      BY <1>0, <1>2, <1>8, <2>1, SilentVotes
    <2>3. PICK columns : Voted(activations, columns, segs, starts, clusters, count, n)
      BY <1>0, <1>3, <2>1, <2>2, ActivationsAreVotes
    <2>4. Elected(chosen, columns, segs, starts, clusters, count, n, epsilon2 > 0)
      BY <1>0, <1>4, <2>1, <2>2, <2>3, ReconstructElects
    <2> DEFINE placed == \A c \in DOMAIN segs : \A s, t \in Speakers(segs) :
                           Activity(segs[c], s) > 0 =>
                             clusters[c][s] >= 0 /\ (s # t => clusters[c][s] # clusters[c][t])
               known == {k \in UNION {Range(clusters[c]) : c \in DOMAIN segs} : k >= 0}
               heard(c, f) == {s \in Speakers(segs) : segs[c][f - starts[c]][s] = 1}
               chunks(f) == Covering(segs, starts, 0, f)
               voters(k, f) == {c \in chunks(f) : \E s \in heard(c, f) : clusters[c][s] = k}
    <2>5. \A f, k : voters(k, f) = Voters(segs, starts, clusters, f, k)
      BY DEF Voters, HeardAt
    <2>6. known \subseteq 0 .. columns - 1
      <3>1. \A c \in DOMAIN segs, s \in Speakers(segs) :
              clusters[c][s] < columns /\ clusters[c][s] \in Int
        BY <2>1, <2>3 DEF Voted
      <3>2. columns \in Nat
        BY <2>3 DEF Voted
      <3> SUFFICES ASSUME NEW c \in DOMAIN segs, NEW k \in Range(clusters[c]), k >= 0
                   PROVE  k \in 0 .. columns - 1
        OBVIOUS
      <3>3. PICK s \in Speakers(segs) : k = clusters[c][s]
        BY <2>1 DEF Range
      <3> QED
        BY <3>1, <3>2, <3>3
    <2>7. placed => \A f \in 0 .. n - 1 : \A k \in chosen[f] : voters(k, f) # {}
      <3> SUFFICES ASSUME placed, NEW f \in 0 .. n - 1, NEW k \in chosen[f]
                   PROVE  voters(k, f) # {}
        BY Zenon
      <3>1. columns \in Nat /\ \A c \in DOMAIN segs, s \in Speakers(segs) :
                                 clusters[c][s] < columns
        BY <2>3 DEF Voted
      <3>2. Voters(segs, starts, clusters, f, k) # {}
        BY <1>0, <1>2, <1>8, <2>1, <2>2, <2>4, <3>1, PlacedAreHeard
      <3> QED
        BY <2>5, <3>2
    <2> HIDE DEF placed, known
    <2>8. ASSUME NEW f \in 0 .. n - 1
          PROVE  /\ Cardinality(y.chosen[f]) = count[f]
                 /\ placed => \A k \in y.chosen[f] : voters(k, f) # {}
                 /\ \A k \in y.chosen[f], l \in known \ y.chosen[f] :
                      Cardinality(voters(k, f)) >= Cardinality(voters(l, f))
                 /\ f > 0 /\ epsilon2 > 0 =>
                      \A k \in y.chosen[f] \ y.chosen[f - 1],
                         l \in y.chosen[f - 1] \ y.chosen[f] :
                        Cardinality(voters(k, f)) > Cardinality(voters(l, f))
      <3> HIDE DEF voters
      <3>1. CASE silent
        <4>1. DOMAIN count = 0 .. n - 1
          BY <2>2
        <4>2. y.chosen[f] = {}
          BY <1>6, <3>1, <4>1
        <4>3. count[f] = 0
          BY <1>5, <3>1, <4>1 DEF silent
        <4> QED
          BY <4>2, <4>3, FS_EmptySet
      <3>2. CASE ~silent
        <4>1. y.chosen = chosen
          BY <1>6, <3>2
        <4>2. Cardinality(chosen[f]) = count[f]
          BY <2>4 DEF Elected
        <4>3. ASSUME NEW k \in chosen[f], NEW l \in known \ chosen[f]
              PROVE  Cardinality(voters(k, f)) >= Cardinality(voters(l, f))
          BY <2>4, <2>5, <2>6 DEF Elected
        <4>4. ASSUME f > 0, epsilon2 > 0, NEW k \in chosen[f] \ chosen[f - 1],
                     NEW l \in chosen[f - 1] \ chosen[f]
              PROVE  Cardinality(voters(k, f)) > Cardinality(voters(l, f))
          BY <2>4, <2>5, <4>4 DEF Elected
        <4>5. placed => \A k \in chosen[f] : voters(k, f) # {}
          BY <2>7
        <4> QED
          BY <4>1, <4>2, <4>3, <4>4, <4>5
      <3> QED
        BY <3>1, <3>2
    <2>9. ASSUME NEW f \in 0 .. n - 1, chunks(f) # {}, \A c \in chunks(f) : heard(c, f) # {}
          PROVE  count[f] > 0
      <3>1. Counted(count[f], HeardAt(segs, starts, f))
        BY <2>2
      <3>2. HeardAt(segs, starts, f) = [c \in chunks(f) |-> heard(c, f)]
        BY DEF HeardAt
      <3> HIDE DEF chunks, heard
      <3> QED
        BY <2>9, <3>1, <3>2 DEF Counted
    <2>10. OnlyTheHeard(segs, starts, clusters, epsilon2, y)
      <3>1. DOMAIN y.count = 0 .. n - 1
        BY <1>5, <2>2
      <3>0. ASSUME NEW f \in DOMAIN y.count
            PROVE  /\ Cardinality(y.chosen[f]) = y.count[f]
                   /\ placed => \A k \in y.chosen[f] :
                        \E c \in chunks(f) : \E s \in heard(c, f) : clusters[c][s] = k
                   /\ \A k \in y.chosen[f], l \in known \ y.chosen[f] :
                        Cardinality(voters(k, f)) >= Cardinality(voters(l, f))
                   /\ f > 0 /\ epsilon2 > 0 =>
                        \A k \in y.chosen[f] \ y.chosen[f - 1],
                           l \in y.chosen[f - 1] \ y.chosen[f] :
                          Cardinality(voters(k, f)) > Cardinality(voters(l, f))
                   /\ chunks(f) # {} /\ (\A c \in chunks(f) : heard(c, f) # {}) =>
                        y.count[f] > 0
        <4>1. f \in 0 .. n - 1
          BY <3>1
        <4>2. placed => \A k \in y.chosen[f] :
                          \E c \in chunks(f) : \E s \in heard(c, f) : clusters[c][s] = k
          <5>1. placed => \A k \in y.chosen[f] : voters(k, f) # {}
            BY <2>8, <4>1
          <5> QED
            BY <5>1
        <4>3. chunks(f) # {} /\ (\A c \in chunks(f) : heard(c, f) # {}) => y.count[f] > 0
          BY <1>5, <2>9, <4>1
        <4> HIDE DEF chunks, heard, voters
        <4>4. Cardinality(y.chosen[f]) = y.count[f]
          BY <1>5, <2>8, <4>1
        <4>5. \A k \in y.chosen[f], l \in known \ y.chosen[f] :
                Cardinality(voters(k, f)) >= Cardinality(voters(l, f))
          BY <2>8, <4>1
        <4>6. f > 0 /\ epsilon2 > 0 =>
                \A k \in y.chosen[f] \ y.chosen[f - 1], l \in y.chosen[f - 1] \ y.chosen[f] :
                  Cardinality(voters(k, f)) > Cardinality(voters(l, f))
          BY <2>8, <4>1
        <4> QED
          BY <4>2, <4>3, <4>4, <4>5, <4>6
      <3> QED
        BY <3>0, Zenon DEF OnlyTheHeard, placed, known
    <2> QED
      BY <1>1, <2>10 DEF y
  <1> QED
    BY <1>7, <1>8

LEMMA FilterType ==
  ASSUME NEW n \in Nat, NEW scores \in [0 .. n - 1 -> Int], NEW config,
         config.onset \in Int, config.offset \in Int, config.minOn \in Nat,
         config.minOff \in Nat, config.padOnset \in Nat, config.padOffset \in Nat
  PROVE  Binarize(scores, config) \in [0 .. n - 1 -> BOOLEAN]
  <1>1. PICK found : found = Hysteresis(scores, config.onset, config.offset)
    OBVIOUS
  <1>2. found \in [0 .. n - 1 -> BOOLEAN]
    BY <1>1, HysteresisFacts DEF Hysteretic
  <1>3. PICK kept : kept = RemoveShortOn(found, config.minOn)
    OBVIOUS
  <1>4. kept \in [0 .. n - 1 -> BOOLEAN]
    BY <1>2, <1>3, KeptFacts
  <1>5. PICK filled : filled = FillShortOff(kept, config.minOff)
    OBVIOUS
  <1>6. filled \in [0 .. n - 1 -> BOOLEAN]
    BY <1>4, <1>5, FilledFacts
  <1>7. Binarize(scores, config) = PadRegions(filled, config.padOnset, config.padOffset)
    BY <1>1, <1>3, <1>5 DEF Binarize
  <1>8. PadRegions(filled, config.padOnset, config.padOffset)
          = Around(filled, config.padOnset, config.padOffset)
    BY <1>6, PaddedFacts
  <1>9. Around(filled, config.padOnset, config.padOffset) \in [0 .. n - 1 -> BOOLEAN]
    BY <1>6, Zenon DEF Around
  <1> QED
    BY <1>7, <1>8, <1>9

(* The columns the segments are made of, and when there are none.          *)
LEMMA ColumnsAreActive ==
  ASSUME NEW x, SegmentsShaped(x), x.segs # <<>>, NEW y,
         y = PostInference(x.segs, x.starts, x.outputFrames, x.clusters, x.config)
  PROVE  \/ y.active = <<>> /\ y.segments = <<>>
         \/ \E columns \in Nat :
              /\ y.active \in [0 .. columns - 1 -> [0 .. x.outputFrames - 1 -> BOOLEAN]]
              /\ y.segments = MergeSegments(ToSegments(y.active), x.config.mergeGap)
  <1>1. PICK segs, starts, clusters, n, config :
          /\ segs = x.segs /\ starts = x.starts /\ clusters = x.clusters
          /\ n = x.outputFrames /\ config = x.config
    BY Zenon
  <1>2. /\ n \in Nat /\ config.onset \in Int /\ config.offset \in Int /\ config.minOn \in Nat
        /\ config.minOff \in Nat /\ config.padOnset \in Nat /\ config.padOffset \in Nat
    BY <1>1 DEF SegmentsShaped
  <1>3. Chunked(segs, starts) /\ clusters \in [DOMAIN segs -> [Speakers(segs) -> Int]]
    BY <1>1 DEF SegmentsShaped, Chunked, Upto
  <1>4. PICK count : count = SpeakerCount(segs, starts, 0, n)
    OBVIOUS
  <1>5. count \in [0 .. n - 1 -> Nat]
    BY <1>1, <1>2, <1>3, <1>4, SilentVotes
  <1>6. PICK activations : activations = FrameActivations(segs, starts, 0, clusters, count)
    OBVIOUS
  <1>7. PICK columns : Voted(activations, columns, segs, starts, clusters, count, n)
    BY <1>2, <1>3, <1>5, <1>6, ActivationsAreVotes
  <1>8. PICK chosen : chosen = Reconstruct(activations, count, config.epsilon2)
    OBVIOUS
  <1>9. PICK silent \in BOOLEAN : silent = (\A f \in DOMAIN count : count[f] = 0)
    OBVIOUS
  <1>10. CASE silent
    <2>1. y.active = <<>>
      BY <1>1, <1>4, <1>9, <1>10, Zenon DEF PostInference
    <2>2. y.segments = <<>>
      BY <1>1, <1>4, <1>9, <1>10, Zenon DEF PostInference
    <2> QED
      BY <2>1, <2>2
  <1>11. CASE ~silent
    <2>1. 0 \in 0 .. n - 1
      BY <1>2, <1>5, <1>9, <1>11
    <2>2. columns \in Nat /\ DOMAIN activations[0] = 0 .. columns - 1
      BY <1>7, <2>1 DEF Voted
    <2> DEFINE K == 0 .. columns - 1
               discrete == [k \in K |-> [f \in DOMAIN count |-> IF k \in chosen[f] THEN 1 ELSE 0]]
               filtered == [k \in K |-> IF config.minOn > 0 \/ config.minOff > 0
                                        THEN Binarize(discrete[k], config)
                                        ELSE [f \in DOMAIN count |-> discrete[k][f] = 1]]
    <2>3. y.active = filtered /\ y.segments = MergeSegments(ToSegments(filtered), config.mergeGap)
      <3>1. DOMAIN discrete = K
        OBVIOUS
      <3>2. filtered = [k \in DOMAIN discrete |-> IF config.minOn > 0 \/ config.minOff > 0
                                        THEN Binarize(discrete[k], config)
                                        ELSE [f \in DOMAIN count |-> discrete[k][f] = 1]]
        BY <3>1
      <3> QED
        BY <1>1, <1>4, <1>6, <1>8, <1>9, <1>11, <2>2 DEF PostInference
    <2>4. ASSUME NEW k \in K PROVE filtered[k] \in [0 .. n - 1 -> BOOLEAN]
      <3>1. discrete[k] \in [0 .. n - 1 -> Int]
        BY <1>5
      <3> HIDE DEF discrete
      <3>2. Binarize(discrete[k], config) \in [0 .. n - 1 -> BOOLEAN]
        BY <1>2, <3>1, FilterType
      <3>3. [f \in DOMAIN count |-> discrete[k][f] = 1] \in [0 .. n - 1 -> BOOLEAN]
        BY <1>5, Zenon
      <3> QED
        BY <3>2, <3>3
    <2>5. filtered = [k \in K |-> filtered[k]]
      OBVIOUS
    <2> HIDE DEF filtered
    <2>6. filtered \in [K -> [0 .. n - 1 -> BOOLEAN]]
      BY <2>4, <2>5
    <2> QED
      BY <1>1, <2>2, <2>3, <2>6
  <1> QED
    BY <1>10, <1>11

LEMMA TurnsFollow ==
  ASSUME NEW x, SegmentsShaped(x), NEW y,
         y = PostInference(x.segs, x.starts, x.outputFrames, x.clusters, x.config)
  PROVE  TurnsAre(y.segments, y.active, x.outputFrames - 1, x.config.mergeGap)
  <1>1. ASSUME y.active = <<>>, y.segments = <<>>
        PROVE  TurnsAre(y.segments, y.active, x.outputFrames - 1, x.config.mergeGap)
    BY <1>1 DEF TurnsAre
  <1>2. CASE x.segs = <<>>
    <2>1. DOMAIN SpeakerCount(x.segs, x.starts, 0, x.outputFrames) = {}
      BY <1>2 DEF SpeakerCount
    <2>2. y.active = <<>> /\ y.segments = <<>>
      BY <2>1 DEF PostInference
    <2> QED
      BY <1>1, <2>2
  <1>3. CASE x.segs # <<>>
    <2>1. ASSUME NEW columns \in Nat,
                 y.active \in [0 .. columns - 1 -> [0 .. x.outputFrames - 1 -> BOOLEAN]],
                 y.segments = MergeSegments(ToSegments(y.active), x.config.mergeGap)
          PROVE  TurnsAre(y.segments, y.active, x.outputFrames - 1, x.config.mergeGap)
      <3>1. PICK K, n, active, maxGap : K = 0 .. columns - 1 /\ n = x.outputFrames
                                        /\ active = y.active /\ maxGap = x.config.mergeGap
        BY Zenon
      <3>2. K \in SUBSET Int /\ IsFiniteSet(K)
        BY <3>1, FS_Interval
      <3>3. n \in Nat /\ maxGap \in Int
        BY <3>1 DEF SegmentsShaped
      <3>4. active \in [K -> [0 .. n - 1 -> BOOLEAN]]
        BY <2>1, <3>1
      <3>5. TurnsAre(MergeSegments(ToSegments(active), maxGap), active, n - 1, maxGap)
        BY <3>2, <3>3, <3>4, TurnsFollowActivity
      <3> QED
        BY <2>1, <3>1, <3>5
    <2> QED
      BY <1>1, <1>3, <2>1, ColumnsAreActive
  <1> QED
    BY <1>2, <1>3

LEMMA SegmentsAnswered ==
  ASSUME AskedInv, Segments
  PROVE  SpeakersWereHeard' /\ TurnsFaithful'
  <1>1. PICK x : x = call.input
    OBVIOUS
  <1>2. call.kind = "segments" /\ call' = call /\ x \in SegmentInputs
    BY <1>1 DEF Segments, Return, AskedInv
  <1> DEFINE y == PostInference(x.segs, x.starts, x.outputFrames, x.clusters, x.config)
  <1>3. result' = <<y>>
    BY <1>1 DEF Segments, Return, in
  <1>4. OnlyTheHeard(x.segs, x.starts, x.clusters, x.config.epsilon2, y)
    BY <1>2, SegmentAssumption, TurnsAreHeard
  <1>6. TurnsAre(y.segments, y.active, x.outputFrames - 1, x.config.mergeGap)
    BY <1>2, SegmentAssumption, TurnsFollow
  <1> HIDE DEF y
  <1>5. out' = y /\ in' = x
    BY <1>1, <1>2, <1>3 DEF out, in
  <1> QED
    BY <1>2, <1>4, <1>5, <1>6 DEF SpeakersWereHeard, TurnsFaithful, Returned

LEMMA PlanAnswered ==
  ASSUME AskedInv, Plan
  PROVE  RunnableMeansMeasured'
  <1>1. PICK x : x = call.input
    OBVIOUS
  <1>2. PICK spec, files : spec = x.spec /\ files = x.files
    OBVIOUS
  <1>3. call.kind = "plan" /\ call' = call /\ x \in SpecInputs /\ in = x /\ in' = x
    BY <1>1 DEF Plan, Return, AskedInv, in
  <1>4. /\ spec.mode \in {"coreml", "coreml-fast"}
        /\ \A i \in DOMAIN spec.candidates : spec.candidates[i].backend \in {"gaussian", "sphere"}
    BY <1>2, <1>3, SpecAssumption
  <1>5. CASE ~(Validate(spec) /\ EnsureRunnable(spec, files))
    <2>1. result' = <<[runs |-> FALSE]>>
      BY <1>2, <1>3, <1>5 DEF Plan, Return
    <2>2. ~out'.runs
      BY <2>1 DEF out
    <2> QED
      BY <2>2 DEF RunnableMeansMeasured
  <1>6. CASE Validate(spec) /\ EnsureRunnable(spec, files)
    <2> DEFINE y == [runs |-> TRUE, profiled |-> ProfiledModels(spec, files),
                     configs |-> [i \in DOMAIN spec.candidates |->
                                    ApplyCandidate(ConfigFor(spec.mode), spec.candidates[i])]]
    <2>1. result' = <<y>>
      BY <1>2, <1>3, <1>6 DEF Plan, Return
    <2>2. out' = y /\ in'.spec = spec /\ in'.files = files
      BY <1>2, <1>3, <2>1 DEF out
    <2>3. PICK configs : configs = y.configs
      OBVIOUS
    <2>4. out'.profiled = ProfiledModels(spec, files) /\ out'.configs = configs
      BY <2>2, <2>3
    <2>5. ASSUME NEW i \in DOMAIN configs
          PROVE  LET c == spec.candidates[i]
                 IN  /\ configs[i].backend = c.backend
                     /\ c.iters # Unset => configs[i].iters = c.iters
                     /\ c.fb # Unset => configs[i].fb = c.fb
                     /\ c.clean # Unset => configs[i].clean = c.clean
                     /\ c.ahc = Unset
      <3>1. i \in DOMAIN spec.candidates
            /\ configs[i] = ApplyCandidate(ConfigFor(spec.mode), spec.candidates[i])
        BY <2>3
      <3>2. PICK c : c = spec.candidates[i]
        OBVIOUS
      <3>3. CandidateValid(c)
        BY <1>6, <3>1, <3>2 DEF Validate, ValidateDomain
      <3>4. c.backend \in {"gaussian", "sphere"} /\ c.ahc = Unset
        BY <1>4, <1>6, <3>1, <3>2 DEF EnsureRunnable
      <3>5. /\ configs[i].backend = c.backend
            /\ c.iters # Unset => configs[i].iters = c.iters
            /\ c.fb # Unset => configs[i].fb = c.fb
            /\ c.clean # Unset => configs[i].clean = c.clean
        BY <3>1, <3>2, <3>3, <3>4, CandidateApplied
      <3> QED
        BY <3>2, <3>4, <3>5
    <2>6. Runnable(spec, files)
      BY <1>4, <1>6, CheckedIsRunnable
    <2> HIDE DEF y
    <2> DEFINE specs == ChunkSessionSpecs(files, spec.mode, ExperimentOf(spec))
               full == {Native(spec.layout, w) : w \in Range(RequiredWindows(spec.layout, spec.ladder))}
    <2>7. /\ [i \in DOMAIN specs |-> specs[i].windows] = RequiredWindows(spec.layout, spec.ladder)
          /\ {specs[i].asset : i \in DOMAIN specs} \subseteq ProfiledModels(spec, files) \cup full
      BY <2>6, RunnableIsMeasured
    <2>8. DemandedSessions(files) \subseteq files => Loads(files, spec.mode, ExperimentOf(spec))
      BY <2>6, RunnableLoads
    <2> QED
      BY <2>2, <2>4, <2>5, <2>7, <2>8 DEF RunnableMeansMeasured
  <1> QED
    BY <1>5, <1>6

LEMMA ExtractAnswered ==
  ASSUME call.kind = "extract" => call.input \in ExtractInputs, Extract
  PROVE  ExtractionAligned'
  <1>1. PICK x : x = call.input
    OBVIOUS
  <1>2. call.kind = "extract" /\ call' = call /\ x \in ExtractInputs /\ in = x /\ in' = x
    BY <1>1 DEF Extract, Return, in
  <1>3. PICK active : active = x.active
    OBVIOUS
  <1>4. PICK size, largest : size = x.batchSize /\ largest = x.largest
    OBVIOUS
  <1>5. largest \in Nat \ {0}
    BY <1>2, <1>4, ExtractAssumption
  <1> DEFINE y == [split |-> ExtractSplit(active, size),
                   masked |-> ExtractMasked(active, size, largest),
                   multiMask |-> ExtractMultiMask(active, size)]
  <1>6. result' = <<y>>
    BY <1>2, <1>3, <1>4 DEF Extract, Return
  <1>7. out' = y /\ in'.active = active
    BY <1>2, <1>3, <1>6 DEF out
  <1>8. ASSUME NEW way \in DOMAIN y, NEW c \in DOMAIN active, NEW s \in DOMAIN active[c]
        PROVE  y[way][<<c, s>>] = IF active[c][s] THEN <<c, s>> ELSE Missing
    <2>1. active # <<>>
      <3>1. DOMAIN <<>> = {}
        OBVIOUS
      <3> QED
        BY <3>1
    <2>2. NumSpeakers(active) \in Nat /\ active \in Seq([Upto(NumSpeakers(active)) -> BOOLEAN])
      BY <1>2, <1>3, <2>1, ExtractAssumption
    <2>3. PICK n \in Nat : n = NumSpeakers(active)
      BY <2>2
    <2>4. PICK R : R = [0..n - 1 -> BOOLEAN]
      OBVIOUS
    <2>5. active \in Seq(R)
      BY <2>2, <2>3, <2>4 DEF Upto
    <2>6. PICK len \in Nat : len = Len(active) /\ DOMAIN active = 1..len
      BY <2>5, LenProperties
    <2>7. active[c] \in R
      BY <2>5, ElementOfSeq
    <2>8. DOMAIN active[c] = 0..n - 1
      BY <2>4, <2>7
    <2>9. c \in 1..len /\ s \in 0..n - 1
      BY <2>6, <2>8
    <2>10. /\ Aligned(ExtractSplit(active, size), Grid(len, n), Speaking(active, len, n))
           /\ Aligned(ExtractMasked(active, size, largest), Grid(len, n), Speaking(active, len, n))
           /\ Aligned(ExtractMultiMask(active, size), Grid(len, n), Speaking(active, len, n))
      BY <1>5, <2>3, <2>6, SplitAligned, MaskedAligned, MultiAligned
    <2>11. Aligned(y[way], Grid(len, n), Speaking(active, len, n))
      <3>1. way = "split" \/ way = "masked" \/ way = "multiMask"
        OBVIOUS
      <3> QED
        BY <2>10, <3>1
    <2> HIDE DEF y
    <2>12. PICK at \in Grid(len, n) : at = <<c, s>> /\ at[1] = c /\ at[2] = s
      <3>1. <<c, s>> \in Grid(len, n)
        BY <2>9 DEF Grid
      <3> QED
        BY <3>1
    <2>13. y[way][at] = IF at \in Speaking(active, len, n) THEN at ELSE Missing
      BY <2>11 DEF Aligned
    <2>14. at \in Speaking(active, len, n) <=> active[c][s]
      BY <2>12 DEF Speaking
    <2> QED
      BY <2>12, <2>13, <2>14
  <1> HIDE DEF y
  <1>9. ~Returned("chunks")'
    BY <1>2 DEF Returned
  <1>10. \A way \in DOMAIN y : SpeakersAligned(active, y[way])
    BY <1>8 DEF SpeakersAligned
  <1> QED
    BY <1>7, <1>9, <1>10 DEF ExtractionAligned

LEMMA ChunksAnswered ==
  ASSUME call.kind = "chunks" => call.input \in ChunkInputs, EmbedInChunks
  PROVE  ExtractionAligned'
  <1>1. PICK x : x = call.input
    OBVIOUS
  <1>2. call.kind = "chunks" /\ call' = call /\ x \in ChunkInputs /\ in = x /\ in' = x
    BY <1>1 DEF EmbedInChunks, Return, in
  <1>3. PICK p, len, given, frames : ShapedPlan(x, p, len, given, frames)
    BY <1>2, ChunkInputShaped
  <1>4. p = x.p /\ len = x.len /\ given = x.decoded
    BY <1>3 DEF ShapedPlan
  <1>5. IsPlan(p) /\ SessionsFit(p) /\ len \in Nat /\ given # <<>> /\ frames \in Nat \ {0}
    BY <1>3 DEF ShapedPlan
  <1>6. PICK X : X = [0..frames - 1 -> [0..p.speakers - 1 -> Nat]] /\ given \in Seq(X)
    BY <1>3 DEF ShapedPlan
  <1>7. PICK total \in Nat : total = SegmentationWindowCount(len, p)
    <2>1. p.step \in Nat \ {0} /\ p.window \in Nat
      BY <1>5 DEF IsPlan
    <2> QED
      BY <1>5, <2>1, CountIsNat
  <1>8. PICK decoded : decoded = WindowsOf(given, total)
    OBVIOUS
  <1>9. decoded \in Seq(X) /\ Len(decoded) = total
    BY <1>5, <1>6, <1>8, WindowsRepeat
  <1>10. IsFile(p, len, decoded, frames)
    <2>1. ASSUME NEW i \in 1..total PROVE IsWindow(decoded[i], frames, p.speakers)
      <3>1. i \in DOMAIN decoded
        BY <1>9, LenProperties
      <3>2. decoded[i] \in X
        BY <1>9, <3>1, ElementOfSeq
      <3>3. p.speakers \in Nat
        BY <1>5 DEF IsPlan
      <3> QED
        BY <1>5, <1>6, <3>2, <3>3 DEF IsWindow
    <2> QED
      BY <1>7, <1>9, <2>1 DEF IsFile
  <1>11. PICK cap \in Nat \ {0} : cap = Last(p.sessions).windows
    BY <1>5, LastSession
  <1>12. PICK y : y = TryChunkEmbedding(p, decoded, Samples(len))
    OBVIOUS
  <1>13. StoredRight(y, p, len, decoded, cap)
    BY <1>5, <1>9, <1>10, <1>11, <1>12, FileStored
  <1>14. result' = <<y>>
    BY <1>2, <1>4, <1>7, <1>8, <1>12 DEF EmbedInChunks, Return, WindowsOf, Samples
  <1>15. out' = y /\ in'.p = p /\ in'.len = len /\ in'.decoded = given
    BY <1>2, <1>4, <1>14 DEF out
  <1> DEFINE windowAt(n) == x.decoded[1 + ((n + 1) % Len(x.decoded))]
             wanted(n, s) == SelectSpeakerWeights(windowAt(n), s,
                               Min({x.p.window, x.len - n * x.p.step}),
                               x.p.minSamples, x.p.minActivity)
             count == SegmentationWindowCount(x.len, x.p)
  <1>16. ASSUME NEW n \in 0..total - 1 PROVE decoded[n + 1] = windowAt(n)
    <2>1. n + 1 \in 1..total
      OBVIOUS
    <2> QED
      BY <1>4, <1>8, <2>1 DEF WindowsOf
  <1>17. y.segs = [n \in Upto(count) |-> windowAt(n)]
    <2>1. y.segs = [n \in 0..total - 1 |-> decoded[n + 1]]
      BY <1>9, <1>13 DEF StoredRight, FirstOnes
    <2>2. count = total
      BY <1>4, <1>7
    <2> HIDE DEF windowAt, count
    <2> QED
      BY <1>16, <2>1, <2>2 DEF Upto
  <1>18. PICK embs : embs = y.embs
    OBVIOUS
  <1>19. EmbsRight(embs, total, p, len, decoded, cap)
    BY <1>9, <1>13, <1>18 DEF StoredRight
  <1>20. ASSUME NEW n \in Upto(total), NEW s \in Upto(p.speakers)
         PROVE  IF wanted(n, s) = <<>> THEN <<n, s>> \notin DOMAIN embs
                ELSE /\ embs[<<n, s>>][2] = wanted(n, s)
                     /\ \A r \in Upto(p.window - 2) :
                          n * p.step + r + 3 <= len =>
                            embs[<<n, s>>][1][(n % cap) * p.step + r] = Triple(n * p.step + r)
    <2>1. n \in 0..total - 1 /\ s \in 0..p.speakers - 1
      BY DEF Upto
    <2>2. PICK at \in (0..total - 1) \X (0..p.speakers - 1) : at = <<n, s>> /\ at[1] = n /\ at[2] = s
      <3>1. <<n, s>> \in (0..total - 1) \X (0..p.speakers - 1)
        BY <2>1
      <3> QED
        BY <3>1
    <2>3. WantsAt(p, len, decoded, at[1], at[2]) = wanted(n, s)
      <3>1. decoded[n + 1] = windowAt(n)
        BY <1>16, <2>1
      <3> HIDE DEF windowAt
      <3> QED
        BY <1>4, <2>2, <3>1 DEF WantsAt
    <2> HIDE DEF wanted
    <2>4. at \in DOMAIN embs <=> wanted(n, s) # <<>>
      BY <1>19, <2>3 DEF EmbsRight
    <2>5. ASSUME at \in DOMAIN embs
          PROVE  /\ embs[at][2] = wanted(n, s)
                 /\ \A r \in Upto(p.window - 2) :
                      n * p.step + r + 3 <= len => embs[at][1][(n % cap) * p.step + r] = Triple(n * p.step + r)
      <3>1. embs[at][2] = wanted(n, s) /\ FeaturesRight(embs[at][1], p, len, at[1], at[1] % cap)
        BY <1>19, <2>3, <2>5 DEF EmbsRight
      <3>2. FeaturesRight(embs[at][1], p, len, n, n % cap)
        BY <2>2, <3>1
      <3>3. p.window - 2 - 1 = p.window - 3
        BY <1>5 DEF IsPlan
      <3> QED
        BY <3>1, <3>2, <3>3 DEF FeaturesRight, Upto
    <2> QED
      BY <2>2, <2>4, <2>5
  <1> HIDE DEF wanted, windowAt
  <1>22. \A n \in Upto(count), s \in Upto(x.p.speakers) :
           IF wanted(n, s) = <<>> THEN <<n, s>> \notin DOMAIN y.embs
           ELSE /\ y.embs[<<n, s>>][2] = wanted(n, s)
                /\ \A r \in Upto(x.p.window - 2) :
                     LET at == n * x.p.step + r
                     IN  at + 3 <= x.len =>
                           y.embs[<<n, s>>][1][(n % Last(x.p.sessions).windows) * x.p.step + r]
                             = <<at + 1, at + 2, at + 3>>
    <2>1. count = total
      BY <1>4, <1>7
    <2> HIDE DEF count
    <2>2. x.p = p /\ x.len = len /\ y.embs = embs /\ Last(x.p.sessions).windows = cap
      BY <1>4, <1>11, <1>18
    <2> QED
      BY <1>20, <2>1, <2>2, ZenonT(30) DEF Triple
  <1>23. ~Returned("extract")'
    BY <1>2 DEF Returned
  <1>24. ChunksAligned(x, y)
    BY <1>17, <1>22, Zenon DEF ChunksAligned, wanted, windowAt, count
  <1> QED
    BY <1>2, <1>12, <1>15, <1>23, <1>24 DEF ExtractionAligned

LEMMA CallInitially == CallInit => CallInv
  BY AskedInitially
  DEF CallInv, ClassesAreSets, WindowsPlanned, FilterSound, SpeakersWereHeard, TurnsFaithful,
      RunnableMeansMeasured, ExtractionAligned, Returned

LEMMA CallsAnswered ==
  ASSUME CallInv, [CallNext]_callVars
  PROVE  CallInv'
  <1>1. CASE UNCHANGED callVars
    <2>1. call' = call /\ result' = result
      BY <1>1 DEF callVars
    <2>2. in' = in /\ out' = out
      BY <2>1 DEF in, out
    <2>3. AskedInv'
      BY <2>1 DEF CallInv, AskedInv
    <2>4. ClassesAreSets'
      BY <2>1, <2>2 DEF CallInv, ClassesAreSets, Returned
    <2>5. WindowsPlanned'
      BY <2>1, <2>2 DEF CallInv, WindowsPlanned, Returned
    <2>6. FilterSound'
      BY <2>1, <2>2 DEF CallInv, FilterSound, Returned
    <2>7. SpeakersWereHeard'
      BY <2>1, <2>2 DEF CallInv, SpeakersWereHeard, Returned
    <2>8. TurnsFaithful'
      BY <2>1, <2>2 DEF CallInv, TurnsFaithful, Returned
    <2>9. RunnableMeansMeasured'
      BY <2>1, <2>2 DEF CallInv, RunnableMeansMeasured, Returned
    <2>10. ExtractionAligned'
      BY <2>1, <2>2 DEF CallInv, ExtractionAligned, Returned
    <2> QED
      BY <2>3, <2>4, <2>5, <2>6, <2>7, <2>8, <2>9, <2>10 DEF CallInv
  <1>2. CASE CallNext
    <2>1. call' = call
      BY <1>2, CallSteps
    <2>2. AskedInv'
      BY <2>1 DEF CallInv, AskedInv
    <2>3. WindowsPlanned'
      <3>1. CASE call.kind = "windows"
        BY <1>2, <3>1, CallSteps, WindowsAnswered DEF CallInv
      <3>2. CASE call.kind = "layout"
        BY <1>2, <3>2, CallSteps, LayoutAnswered DEF CallInv
      <3>3. CASE call.kind # "windows" /\ call.kind # "layout"
        BY <2>1, <3>3 DEF WindowsPlanned, Returned
      <3> QED
        BY <3>1, <3>2, <3>3
    <2>4. FilterSound'
      <3>1. CASE call.kind = "filter"
        BY <1>2, <3>1, CallSteps, FilterAnswered DEF CallInv
      <3>2. CASE call.kind # "filter"
        BY <2>1, <3>2 DEF FilterSound, Returned
      <3> QED
        BY <3>1, <3>2
    <2>5. SpeakersWereHeard'
      <3>1. CASE call.kind = "segments"
        BY <1>2, <3>1, CallSteps, SegmentsAnswered DEF CallInv
      <3>2. CASE call.kind # "segments"
        BY <2>1, <3>2 DEF SpeakersWereHeard, Returned
      <3> QED
        BY <3>1, <3>2
    <2>6. ClassesAreSets'
      <3>1. CASE call.kind = "decode"
        BY <1>2, <3>1, CallSteps, DecodeAnswered DEF CallInv
      <3>2. CASE call.kind # "decode"
        BY <2>1, <3>2 DEF ClassesAreSets, Returned
      <3> QED
        BY <3>1, <3>2
    <2>7. TurnsFaithful'
      <3>1. CASE call.kind = "segments"
        BY <1>2, <3>1, CallSteps, SegmentsAnswered DEF CallInv
      <3>2. CASE call.kind # "segments"
        BY <2>1, <3>2 DEF TurnsFaithful, Returned
      <3> QED
        BY <3>1, <3>2
    <2>8. RunnableMeansMeasured'
      <3>1. CASE call.kind = "plan"
        BY <1>2, <3>1, CallSteps, PlanAnswered DEF CallInv
      <3>2. CASE call.kind # "plan"
        BY <2>1, <3>2 DEF RunnableMeansMeasured, Returned
      <3> QED
        BY <3>1, <3>2
    <2>9. ExtractionAligned'
      <3>1. CASE call.kind = "extract"
        BY <1>2, <3>1, CallSteps, ExtractAnswered DEF CallInv, AskedInv
      <3>2. CASE call.kind = "chunks"
        BY <1>2, <3>2, CallSteps, ChunksAnswered DEF CallInv, AskedInv
      <3>3. CASE call.kind # "extract" /\ call.kind # "chunks"
        BY <2>1, <3>3 DEF ExtractionAligned, Returned
      <3> QED
        BY <3>1, <3>2, <3>3
    <2> QED
      BY <2>2, <2>3, <2>4, <2>5, <2>6, <2>7, <2>8, <2>9 DEF CallInv
  <1> QED
    BY <1>1, <1>2

(* The classes of the segmentation model are all the sets of speakers up   *)
(* to the largest size, the smaller first and those of one size in         *)
(* lexicographic order (powerset.rs).                                      *)
THEOREM DecodingIsOrdered == CallSpec => []ClassesAreSets
  <1>1. CallInv => ClassesAreSets
    BY DEF CallInv
  <1> QED
    BY <1>1, CallInitially, CallsAnswered, PTL DEF CallSpec

(* The windows cut from a file are the full ones and at most one zero      *)
(* padded tail, the tasks tile them with warm-up chunks first              *)
(* (tensor.rs, parallel.rs), and every window's frames are inside the      *)
(* output and start after those of the window before (layout.rs).          *)
THEOREM WindowsArePlanned == CallSpec => []WindowsPlanned
  <1>1. CallInv => WindowsPlanned
    BY DEF CallInv
  <1> QED
    BY <1>1, CallInitially, CallsAnswered, PTL DEF CallSpec

(* The duration filter keeps no region and no inner gap shorter than its   *)
(* minimums, is idempotent before padding, adds only frames between two    *)
(* regions a short gap apart, and pads every region by exactly the frames  *)
(* asked for (binarize.rs).                                                *)
THEOREM FiltersAreSound == CallSpec => []FilterSound
  <1>1. CallInv => FilterSound
    BY DEF CallInv
  <1> QED
    BY <1>1, CallInitially, CallsAnswered, PTL DEF CallSpec

(* Every frame has exactly the speakers that were counted, the clusters    *)
(* most chunks voted for, with smoothing none that is new instead of one   *)
(* that stayed as likely; if the speakers of each chunk have clusters of   *)
(* their own, only clusters that were heard; and someone if every chunk    *)
(* hears someone (reconstruct.rs).                                         *)
THEOREM SpeakersAreHeard == CallSpec => []SpeakersWereHeard
  <1>1. CallInv => SpeakersWereHeard
    BY DEF CallInv
  <1> QED
    BY <1>1, CallInitially, CallsAnswered, PTL DEF CallSpec

(* The turns of a speaker are ordered and disjoint, contain every frame in *)
(* which the speaker is active after filtering and no other, except those  *)
(* of a gap short enough to be merged and the last one (segment.rs,        *)
(* post_inference.rs).                                                     *)
THEOREM TurnsAreFaithful == CallSpec => []TurnsFaithful
  <1>1. CallInv => TurnsFaithful
    BY DEF CallInv
  <1> QED
    BY <1>1, CallInitially, CallsAnswered, PTL DEF CallSpec

(* An experiment that passes the checks before its run loads its model if  *)
(* the ONNX sessions are there, measures the sessions of its layout and    *)
(* ladder, in that order, which are those a profile looks for or their     *)
(* full-precision ones, and applies every setting of a candidate           *)
(* (validate, ensure_runnable, apply_candidate_config).                    *)
THEOREM RunnableIsWhatIsMeasured == CallSpec => []RunnableMeansMeasured
  <1>1. CallInv => RunnableMeansMeasured
    BY DEF CallInv
  <1> QED
    BY <1>1, CallInitially, CallsAnswered, PTL DEF CallSpec

(* Every active speaker of every chunk gets the embedding computed from    *)
(* the features of that chunk and from its own mask, and no other place is *)
(* written, whatever the batch size and in each of the three loops         *)
(* (extract.rs); so does every speaker of a window that is embedded in a   *)
(* chunk: each window keeps its slot and its mask, and its features are    *)
(* those of its audio also where they are stitched (prep.rs,               *)
(* orchestrate.rs).                                                        *)
THEOREM ExtractionIsAligned == CallSpec => []ExtractionAligned
  <1>1. CallInv => ExtractionAligned
    BY DEF CallInv
  <1> QED
    BY <1>1, CallInitially, CallsAnswered, PTL DEF CallSpec
=============================================================================
