--------------------------- MODULE ExperimentStore ---------------------------
(***************************************************************************)
(* The run directory of a macOS experiment                                 *)
(* (xtask/src/commands/mac_experiment: store.rs, execute.rs and the        *)
(* commands new, resume and summarize of mac_experiment.rs).               *)
(*                                                                         *)
(* An invocation of the command writes an immutable manifest, then starts  *)
(* one worker process per repetition; the worker writes one durable record *)
(* per file and candidate, and at its end the record of the repetition     *)
(* with its measured time.  A comparison interleaves the repetitions of    *)
(* two stores (A-B-B-A).  At the end three projections are rebuilt from    *)
(* the records.  The manager waits for its worker, so an invocation is one *)
(* sequential process; it may die at any step and be resumed later, and    *)
(* nothing stops a second invocation on the same directory.  A worker that *)
(* outlives its killed manager is such a second invocation, one that dies  *)
(* when its worker ends.                                                   *)
(*                                                                         *)
(* Files are numbers in manifest order, candidates numbers in the order of *)
(* the specification.  Record contents are reduced to their status and, as *)
(* ghost fields, to the worker that wrote them and whether the pinned      *)
(* binary and inputs were in place.  A document or a record of a           *)
(* repetition, written through a temporary file and a rename, is one step. *)
(***************************************************************************)
EXTENDS Naturals, FiniteSets, SequencesExt

CONSTANT
  Configurations \* experiments: [comparison, invocations, reps, files, candidates,
                 \* maxFaults, maxFailures], the last two bounds on crashes and
                 \* failed worker starts, and on files or candidates that fail

ASSUME StoreAssumption ==
  \A e \in Configurations :
       /\ e.comparison \in BOOLEAN
       /\ IsFiniteSet(e.invocations) /\ e.invocations # {}
       /\ e.maxFaults \in Nat /\ e.maxFailures \in Nat
       /\ e.reps \in Nat \ {0} /\ e.files \in Nat \ {0}
       /\ e.candidates \in Nat \ {0}
       \* domain.rs and run_abba_comparison
       /\ e.comparison => e.reps >= 4 /\ e.reps % 2 = 0

VARIABLES
  experiment, \* the validated specification
  manifest,   \* per store: "absent", "bare" directory, "partial" temporary
              \* file, "written"
  temp,       \* temporary record files: target -> record
  records,    \* durable records: target -> record
  timing,     \* durable repetition records: <<store, repetition>> -> kind
  projection, \* files.jsonl, summary.json and report.md
  drift,      \* what no longer matches the manifest: "none", "worker", "inputs"
  proc,       \* per invocation: where it is in the command
  attempts,   \* ghost: worker processes started for each repetition
  contended,  \* ghost: repetitions two invocations were in at the same moment
  faults,     \* crashes and failed starts so far
  failures    \* failed files and candidates so far

vars == <<experiment, manifest, temp, records, timing, projection, drift, proc,
          attempts, contended, faults, failures>>

Stores == {"candidate", "baseline"}
Invocations == experiment.invocations
Documents == <<"files.jsonl", "summary.json", "report.md">>

Abba(first) == << <<"baseline", first>>, <<"candidate", first>>,
                  <<"candidate", first + 1>>, <<"baseline", first + 1>> >>

\* The order of the processes that the manifest declares.
DeclaredOrder ==
  IF experiment.comparison
  THEN FlattenSeq([k \in 1..experiment.reps \div 2 |-> Abba(2 * (k - 1))])
  ELSE [k \in 1..experiment.reps |-> <<"candidate", k - 1>>]

\* Mutant: both stores in the same order in every pair, A-B-A-B.
ScheduleAlternating ==
  IF experiment.comparison
  THEN [k \in 1..2 * experiment.reps |->
          <<IF k % 2 = 1 THEN "baseline" ELSE "candidate", (k - 1) \div 2>>]
  ELSE [k \in 1..experiment.reps |-> <<"candidate", k - 1>>]

\* The order of the loops of run_isolated_repetitions and run_abba_comparison.
Schedule ==
  IF experiment.comparison
  THEN [k \in 1..2 * experiment.reps |-> Abba(((k - 1) \div 4) * 2)[((k - 1) % 4) + 1]]
  ELSE [k \in 1..experiment.reps |-> <<"candidate", k - 1>>]

\* The comparison baseline keeps the candidates of its source run, here one.
CandidatesOf(s) == IF s = "baseline" THEN 1..1 ELSE 1..experiment.candidates
Files == 1..experiment.files
RepetitionTargets(job) ==
  {<<job[1], job[2], f, c>> : f \in Files, c \in CandidatesOf(job[1])}
TargetsOf(s) ==
  UNION {RepetitionTargets(<<s, r>>) : r \in 0..experiment.reps - 1}

RecordExists(t) == t \in DOMAIN records
RepetitionComplete(job) == \A t \in RepetitionTargets(job) : RecordExists(t)
RepetitionStarted(job) == \E t \in RepetitionTargets(job) : RecordExists(t)
MissingCandidates(job, f) ==
  SetToSortSeq({c \in CandidatesOf(job[1]) : ~RecordExists(<<job[1], job[2], f, c>>)}, <)

\* A map with one more, or one other, entry.
Put(map, key, value) ==
  [k \in DOMAIN map \union {key} |-> IF k = key THEN value ELSE map[k]]

InputsMatch == drift # "inputs"
AssertWorker == drift # "worker"

At(i, label) == proc[i].at = label
Job(i) == Schedule[proc[i].slot]
Idle == [at |-> "idle", slot |-> 1, file |-> 1, fresh |-> FALSE, todo |-> <<>>,
         by |-> 0, seen |-> "none"]
Move(i, label) == proc' = [proc EXCEPT ![i].at = label]
Exit(i) == proc' = [proc EXCEPT ![i] = Idle]
NextSlot(i) ==
  proc' = [proc EXCEPT ![i] = [Idle EXCEPT !.at = "schedule", !.slot = proc[i].slot + 1]]

\* Invocation k is in the middle of a repetition.
Working(k, job) ==
  proc[k].at \in {"files", "write", "open", "rename", "stamp"} /\ Job(k) = job
TakeUp(i) ==
  contended' = contended \union
    (IF \E k \in Invocations \ {i} : Working(k, Job(i)) THEN {Job(i)} ELSE {})

\* Mutant: the record of a repetition is written anew.
RecordRepetitionAnew(i, measured) ==
  /\ proc' = [proc EXCEPT ![i].at = "stamp", ![i].fresh = measured]
  /\ TakeUp(i)

\* write_repetition_record: a repetition record that exists is left as it is.
RecordRepetition(i, measured) ==
  \/ Job(i) \in DOMAIN timing /\ NextSlot(i) /\ UNCHANGED contended
  \/ /\ Job(i) \notin DOMAIN timing
     /\ proc' = [proc EXCEPT ![i].at = "stamp", ![i].fresh = measured]
     /\ TakeUp(i)

Init ==
  /\ experiment \in Configurations
  /\ manifest = [s \in Stores |-> "absent"]
  /\ temp = <<>> /\ records = <<>> /\ timing = <<>>
  /\ projection = [d \in Range(Documents) |-> "none"]
  /\ drift = "none"
  /\ proc = [i \in experiment.invocations |-> Idle]
  /\ attempts = [job \in Range(Schedule) |-> 0] /\ contended = {} /\ faults = 0 /\ failures = 0
-----------------------------------------------------------------------------
(* The commands and the manifest.                                          *)

\* `new`: the directory must not exist; its creation and the two steps of the
\* atomic manifest write are separate.
CreateRunDir(i) ==
  /\ At(i, "idle") /\ InputsMatch /\ AssertWorker
  /\ manifest["candidate"] = "absent"
  /\ manifest' = [manifest EXCEPT !["candidate"] = "bare"]
  /\ Move(i, "candidate")
  /\ UNCHANGED <<experiment, temp, records, timing, projection, drift, attempts,
                 contended, faults, failures>>

\* Two invocations may both have found the baseline directory empty: the second one
\* is refused by atomic_write_new, or had looked before the manifest was there and
\* writes it again with its own creation time.
WriteManifestTemp(i, s) ==
  /\ At(i, s)
  /\ \/ /\ manifest[s] = "bare"
        /\ manifest' = [manifest EXCEPT ![s] = "partial"] /\ UNCHANGED proc
     \/ /\ manifest[s] = "written" /\ UNCHANGED manifest
        /\ Exit(i) \/ Move(i, "schedule")
  /\ UNCHANGED <<experiment, temp, records, timing, projection, drift, attempts,
                 contended, faults, failures>>

RenameManifest(i, s) ==
  /\ At(i, s)
  /\ manifest[s] = "partial"
  /\ manifest' = [manifest EXCEPT ![s] = "written"]
  /\ Move(i, IF s = "candidate" THEN "managed" ELSE "schedule")
  /\ UNCHANGED <<experiment, temp, records, timing, projection, drift, attempts,
                 contended, faults, failures>>

\* `resume` and `summarize` start from a directory that opens.
Resume(i) ==
  /\ At(i, "idle") /\ manifest["candidate"] = "written" /\ InputsMatch
  /\ Move(i, "managed")
  /\ UNCHANGED <<experiment, manifest, temp, records, timing, projection, drift,
                 attempts, contended, faults, failures>>

Summarize(i) ==
  /\ At(i, "idle") /\ manifest["candidate"] = "written" /\ InputsMatch
  /\ Move(i, "project")
  /\ UNCHANGED <<experiment, manifest, temp, records, timing, projection, drift,
                 attempts, contended, faults, failures>>

\* load_existing_comparison_manifest: a directory that holds anything else than a
\* manifest is refused, an empty one is not.
BaselineRefused == manifest["baseline"] = "partial"


\* run_managed_with_worker: the worker and the inputs must be the pinned ones;
\* a comparison then opens or creates its baseline directory, and refuses one
\* that holds anything but a manifest.
Manage(i) ==
  /\ At(i, "managed")
  /\ \/ /\ ~(InputsMatch /\ AssertWorker)
        /\ Exit(i) /\ UNCHANGED manifest
     \/ /\ InputsMatch /\ AssertWorker /\ ~experiment.comparison
        /\ Move(i, "schedule") /\ UNCHANGED manifest
     \/ /\ InputsMatch /\ AssertWorker /\ experiment.comparison
        /\ \/ /\ manifest["baseline"] = "written"
              /\ Move(i, "schedule") /\ UNCHANGED manifest
           \/ /\ manifest["baseline"] \in {"absent", "bare"}
              /\ manifest' = [manifest EXCEPT !["baseline"] = "bare"]
              /\ Move(i, "baseline")
           \/ BaselineRefused /\ Exit(i) /\ UNCHANGED manifest
  /\ UNCHANGED <<experiment, temp, records, timing, projection, drift, attempts,
                 contended, faults, failures>>
-----------------------------------------------------------------------------
(* The manager's loop over the schedule.                                   *)

SkipComplete(i) ==
  /\ At(i, "schedule") /\ proc[i].slot <= Len(Schedule)
  /\ RepetitionComplete(Job(i))
  /\ RecordRepetition(i, FALSE)
  /\ UNCHANGED <<experiment, manifest, temp, records, timing, projection, drift,
                 attempts, faults, failures>>

\* assert_worker, then the worker process; the worker opens the directory again.
StartWorker(i) ==
  /\ At(i, "schedule") /\ proc[i].slot <= Len(Schedule)
  /\ ~RepetitionComplete(Job(i))
  /\ IF AssertWorker
     THEN /\ attempts' = [attempts EXCEPT ![Job(i)] = @ + 1]
          /\ proc' = [proc EXCEPT ![i].at = "worker", ![i].by = attempts'[Job(i)]]
     ELSE Exit(i) /\ UNCHANGED attempts
  /\ UNCHANGED <<experiment, manifest, temp, records, timing, projection, drift,
                 contended, faults, failures>>

ScheduleDone(i) ==
  /\ At(i, "schedule") /\ proc[i].slot > Len(Schedule)
  /\ Move(i, "project")
  /\ UNCHANGED <<experiment, manifest, temp, records, timing, projection, drift,
                 attempts, contended, faults, failures>>
-----------------------------------------------------------------------------
(* The worker process (execute_store_repetition).                          *)

WorkerAlreadyComplete(i) ==
  /\ At(i, "worker") /\ RepetitionComplete(Job(i))
  /\ RecordRepetition(i, FALSE)
  /\ UNCHANGED <<experiment, manifest, temp, records, timing, projection, drift,
                 attempts, faults, failures>>

\* Mutant: a worker that continues a repetition measures it.
WorkerBeginUnaware(i) ==
  /\ At(i, "worker") /\ ~RepetitionComplete(Job(i))
  /\ proc' = [proc EXCEPT ![i].at = "files", ![i].file = 1, ![i].fresh = TRUE]
  /\ TakeUp(i)
  /\ UNCHANGED <<experiment, manifest, temp, records, timing, projection, drift,
                 attempts, faults, failures>>

WorkerBegin(i) ==
  /\ At(i, "worker") /\ ~RepetitionComplete(Job(i))
  /\ IF InputsMatch
     THEN /\ proc' = [proc EXCEPT ![i].at = "files", ![i].file = 1,
                                  ![i].fresh = ~RepetitionStarted(Job(i))]
          /\ TakeUp(i)
     ELSE Exit(i) /\ UNCHANGED contended
  /\ UNCHANGED <<experiment, manifest, temp, records, timing, projection, drift,
                 attempts, faults, failures>>

\* The pipeline does not build or the warm-up fails: the worker exits with an
\* error and the manager gives up.
WorkerStartFails(i) ==
  /\ At(i, "files") /\ proc[i].file = 1 /\ faults < experiment.maxFaults
  /\ faults' = faults + 1
  /\ Exit(i)
  /\ UNCHANGED <<experiment, manifest, temp, records, timing, projection, drift,
                 attempts, contended, failures>>

FileDone(i) ==
  /\ At(i, "files") /\ proc[i].file <= experiment.files
  /\ MissingCandidates(Job(i), proc[i].file) = <<>>
  /\ proc' = [proc EXCEPT ![i].file = @ + 1]
  /\ UNCHANGED <<experiment, manifest, temp, records, timing, projection, drift,
                 attempts, contended, faults, failures>>

\* execute_file: a file that does not load or whose inference fails gives a
\* failed record to every missing candidate; a candidate may also fail alone.
ExecuteFile(i) ==
  /\ At(i, "files") /\ proc[i].file <= experiment.files
  /\ LET missing == MissingCandidates(Job(i), proc[i].file)
         Payloads(failed) ==
           [k \in DOMAIN missing |->
              [candidate |-> missing[k],
               status |-> IF missing[k] \in failed THEN "failed" ELSE "complete"]]
     IN  /\ missing # <<>>
         /\ \E failed \in {{}, Range(missing)} \union {{c} : c \in Range(missing)} :
              /\ failures + (IF failed = {} THEN 0 ELSE 1) <= experiment.maxFailures
              /\ failures' = failures + (IF failed = {} THEN 0 ELSE 1)
              /\ proc' = [proc EXCEPT ![i].at = "write", ![i].todo = Payloads(failed)]
  /\ UNCHANGED <<experiment, manifest, temp, records, timing, projection, drift,
                 attempts, contended, faults>>

Target(i) == <<Job(i)[1], Job(i)[2], proc[i].file, Head(proc[i].todo).candidate>>

\* write_record: refuse a record that exists, ...
CheckRecord(i) ==
  /\ At(i, "write") /\ proc[i].todo # <<>>
  /\ IF RecordExists(Target(i)) THEN Exit(i) ELSE Move(i, "open")
  /\ UNCHANGED <<experiment, manifest, temp, records, timing, projection, drift,
                 attempts, contended, faults, failures>>

\* ... truncate and fill the temporary file, whose name depends only on the
\* target, ...
WriteTemp(i) ==
  /\ At(i, "open")
  /\ temp' = Put(temp, Target(i), [by |-> proc[i].by, status |-> Head(proc[i].todo).status,
                                   pinned |-> InputsMatch])
  /\ Move(i, "rename")
  /\ UNCHANGED <<experiment, manifest, records, timing, projection, drift, attempts,
                 contended, faults, failures>>

\* ... and rename it over the target.
RenameRecord(i) ==
  /\ At(i, "rename")
  /\ IF Target(i) \in DOMAIN temp
     THEN /\ records' = Put(records, Target(i), temp[Target(i)])
          /\ temp' = [t \in DOMAIN temp \ {Target(i)} |-> temp[t]]
          /\ proc' = [proc EXCEPT ![i].at = "write", ![i].todo = Tail(@)]
     ELSE Exit(i) /\ UNCHANGED <<records, temp>>
  /\ UNCHANGED <<experiment, manifest, timing, projection, drift, attempts,
                 contended, faults, failures>>

RecordsWritten(i) ==
  /\ At(i, "write") /\ proc[i].todo = <<>>
  /\ proc' = [proc EXCEPT ![i].at = "files", ![i].file = @ + 1]
  /\ UNCHANGED <<experiment, manifest, temp, records, timing, projection, drift,
                 attempts, contended, faults, failures>>

\* The repetition is measured unless records of it existed when the worker began.
FinishRepetition(i) ==
  /\ At(i, "files") /\ proc[i].file > experiment.files
  /\ RepetitionComplete(Job(i))
  /\ RecordRepetition(i, proc[i].fresh)
  /\ UNCHANGED <<experiment, manifest, temp, records, timing, projection, drift,
                 attempts, faults, failures>>

\* atomic_write_new: refuse a record that is there by now, or had looked before
\* and replace it.
Stamp(i) ==
  /\ At(i, "stamp")
  /\ \/ Job(i) \in DOMAIN timing /\ Exit(i) /\ UNCHANGED timing
     \/ /\ timing' = Put(timing, Job(i),
                         IF proc[i].fresh THEN "measured" ELSE "unmeasured")
        /\ NextSlot(i)
  /\ UNCHANGED <<experiment, manifest, temp, records, projection, drift, attempts,
                 contended, faults, failures>>
-----------------------------------------------------------------------------
(* The projections.                                                        *)

\* Files of which candidate c of store s has a complete record.
Observed(s, c) ==
  {f \in Files : \E r \in 0..experiment.reps - 1 :
     /\ RecordExists(<<s, r, f, c>>)
     /\ records[<<s, r, f, c>>].status = "complete"}

\* Observations of equal number are paired by file, and a file without a
\* partner is an error.
Unpairable(left, right) ==
  left # {} /\ Cardinality(left) = Cardinality(right) /\ left # right

\* load_external_baseline reads the baseline directory as soon as it exists.
ProjectionFails ==
  IF experiment.comparison
  THEN \/ manifest["baseline"] \in {"bare", "partial"}
       \/ /\ manifest["baseline"] = "written"
          /\ \/ ~\E t \in TargetsOf("baseline") : RecordExists(t)
             \/ \E c \in CandidatesOf("candidate") :
                  Unpairable(Observed("baseline", 1), Observed("candidate", c))
  ELSE \E c \in CandidatesOf("candidate") \ {1} :
         Unpairable(Observed("candidate", 1), Observed("candidate", c))

ReadRecords(i) ==
  /\ At(i, "project")
  /\ \/ ProjectionFails /\ Exit(i)
     \/ /\ ~ProjectionFails
        /\ LET status == IF \A t \in TargetsOf("candidate") : RecordExists(t)
                         THEN "complete" ELSE "incomplete"
           IN  proc' = [proc EXCEPT ![i].at = "documents", ![i].slot = 1,
                                    ![i].seen = status]
  /\ UNCHANGED <<experiment, manifest, temp, records, timing, projection, drift,
                 attempts, contended, faults, failures>>

WriteDocument(i) ==
  /\ At(i, "documents")
  /\ projection' = [projection EXCEPT ![Documents[proc[i].slot]] = proc[i].seen]
  /\ IF proc[i].slot = Len(Documents)
     THEN Exit(i) ELSE proc' = [proc EXCEPT ![i].slot = @ + 1]
  /\ UNCHANGED <<experiment, manifest, temp, records, timing, drift, attempts,
                 contended, faults, failures>>
-----------------------------------------------------------------------------
(* The environment.                                                        *)

\* The invocation is killed, its worker included, or the machine stops.
Crash(i) ==
  /\ ~At(i, "idle") /\ faults < experiment.maxFaults
  /\ faults' = faults + 1
  /\ Exit(i)
  /\ UNCHANGED <<experiment, manifest, temp, records, timing, projection, drift,
                 attempts, contended, failures>>

\* The worker is rebuilt from other code at any moment; models or audio change
\* while nothing runs.
Drift ==
  /\ drift = "none" /\ manifest["candidate"] = "written"
  /\ \/ drift' = "worker"
     \/ (\A i \in Invocations : At(i, "idle")) /\ drift' = "inputs"
  /\ UNCHANGED <<experiment, manifest, temp, records, timing, projection, proc,
                 attempts, contended, faults, failures>>

Step(i) ==
  \/ \E s \in Stores : WriteManifestTemp(i, s) \/ RenameManifest(i, s)
  \/ Manage(i) \/ SkipComplete(i) \/ StartWorker(i) \/ ScheduleDone(i)
  \/ WorkerAlreadyComplete(i) \/ WorkerBegin(i) \/ FileDone(i) \/ ExecuteFile(i)
  \/ CheckRecord(i) \/ WriteTemp(i) \/ RenameRecord(i) \/ RecordsWritten(i)
  \/ FinishRepetition(i) \/ Stamp(i) \/ ReadRecords(i) \/ WriteDocument(i)

Next ==
  \/ \E i \in Invocations :
       \/ CreateRunDir(i) \/ Resume(i) \/ Summarize(i) \/ Step(i)
       \/ WorkerStartFails(i) \/ Crash(i)
  \/ Drift

Spec == Init /\ [][Next]_vars

\* Started commands go on, and the operator resumes a run again and again.
FairSpec ==
  /\ Spec
  /\ \A i \in UNION {e.invocations : e \in Configurations} :
       WF_vars(i \in Invocations /\ Step(i))
  /\ SF_vars(\E i \in Invocations : Resume(i))
-----------------------------------------------------------------------------
\* Records that may be compared: every record was written with the pinned
\* inputs, a repetition is accounted for only when it is complete, and one whose
\* time counts was produced by one worker from beginning to end, whatever crashed
\* before and whoever else works on the run; except that two invocations in one
\* repetition at the same moment, which nothing prevents, leave it mixed.
RecordsComparable ==
  /\ \A t \in DOMAIN records : records[t].pinned
  /\ \A job \in DOMAIN timing :
       /\ RepetitionComplete(job)
       /\ timing[job] = "measured" /\ job \notin contended =>
            \A t, u \in RepetitionTargets(job) : records[t].by = records[u].by

\* The processes ran in the order the manifest declares, which keeps slow drifts
\* of the machine out of a comparison: a repetition has a record only when every
\* repetition before it is complete, whatever was resumed.
InDeclaredOrder ==
  \A k \in DOMAIN DeclaredOrder : RepetitionStarted(DeclaredOrder[k]) =>
    \A j \in 1..k - 1 : RepetitionComplete(DeclaredOrder[j])

\* What is durable stays: no step, a crash and a resume included, removes a
\* record, a repetition record or a manifest, nor changes a record.  store.rs
\* refuses "to overwrite immutable file", but looks before it renames: only of a
\* repetition two invocations were in at the same moment can a record be replaced.
DurableStays ==
  [][/\ \A t \in DOMAIN records :
          /\ t \in DOMAIN records'
          /\ <<t[1], t[2]>> \notin contended => records'[t] = records[t]
     /\ \A job \in DOMAIN timing :
          /\ job \in DOMAIN timing'
          /\ job \notin contended => timing'[job] = timing[job]
     /\ \A s \in Stores : manifest[s] = "written" => manifest'[s] = "written"]_vars

RunComplete == \A k \in DOMAIN Schedule : RepetitionComplete(Schedule[k])
Completed == \A d \in Range(Documents) : projection[d] = "complete"
Quiet == \A i \in Invocations : At(i, "idle")


\* What the command line says of summarize, "Rebuild deterministic projections
\* from durable records": once every repetition of the schedule is durable, the
\* projections can be rebuilt.
ProjectionsRebuildable ==
  RunComplete => ~ProjectionFails
=============================================================================
