------------------------------- MODULE SamRun -------------------------------
(***************************************************************************)
(* SamWorkflow.run: one run id, started again and again over the same      *)
(* output directory.  A run skips the episodes it finds complete, executes *)
(* the others (one after the other on its own SAM backend, or in the       *)
(* worker pool, which may lose an execution and repeat it) and writes the  *)
(* summary last.  Every file is replaced by a rename of its own, so that   *)
(* what a crash leaves behind is a directory between two files.  Here a    *)
(* file is the attempt that wrote it and what it says about the masks.     *)
(***************************************************************************)
EXTENDS Integers, Sequences, FiniteSets

CONSTANTS
    NumEpisodes,         \* the selected episodes, in order
    Workers,             \* SAM workers of a parallel run
    MaxEpisodeAttempts,  \* executions of one episode in a parallel run
    MaxRuns,             \* bound of the model: starts of the workflow
    MaxFaults            \* bound of the model: things that go wrong

Episode == 1..NumEpisodes

ASSUME SamRunAssumption ==
    /\ NumEpisodes \in Nat \ {0}
    /\ Workers \in Nat \ {0}
    /\ MaxEpisodeAttempts \in Nat \ {0}
    /\ MaxRuns \in Nat \ {0}
    /\ MaxFaults \in Nat

VARIABLES
    at,          \* where the workflow is
    runs,        \* how often it was started
    options,     \* of this run
    rows,        \* [Episode -> status recorded by this run]
    attempts,    \* [Episode -> executions begun by this run]
    fatal,       \* a fatal CUDA error ended the serial loop
    writers,     \* the executions that are writing, in whatever process
    gen,         \* [Episode -> executions ever begun]
    disk,        \* [Episode -> [File -> content]]
    receipt,     \* [Episode -> the files its completion receipt freezes]
    summary,     \* process_summary.json
    cut,         \* [Episode -> how its complete files may have been cut into]
    faults       \* how many things went wrong

run == <<runs, options>>
artifacts == <<disk, receipt, summary>>
vars == <<at, run, rows, attempts, fatal, writers, gen, artifacts, cut, faults>>

\* plan: semantic_plan.json, then the prompt and the answer it came from.  masks:
\* the roles' seeds and tracks, masks.npz and frame_provenance.json.
\* gripper_files: its track and gripper_seed_qc.json.
File == {"plan", "mask_qc", "masks", "run_manifest", "gripper_files"}

\* run_qwen.
PlanFiles == <<"plan">>

\* Slip: the manifest is replaced before the masks it describes.
ManifestBeforeMasks == <<"run_manifest", "masks">>

\* save_sam_artifacts, in either stage: the manifest comes last.
MaskFiles == <<"masks", "run_manifest">>

\* What an execution saves, in order.
ObjectScript == PlanFiles \o <<"mask_qc">> \o MaskFiles
GripperScript == <<"gripper_files">> \o MaskFiles
Script(mode) == IF mode = "full" THEN ObjectScript \o GripperScript ELSE ObjectScript

MaxGen == MaxRuns * MaxEpisodeAttempts
Content == [gen : 0..MaxGen, objects : BOOLEAN, gripper : {"none", "good", "bad"}]
Absent == [gen |-> 0, objects |-> FALSE, gripper |-> "none"]
NoFiles == [f \in File |-> Absent]

Mode == {"object", "full"}
Options == [mode : Mode, force : BOOLEAN, parallel : BOOLEAN, incremental : BOOLEAN]

\* pc: the next file of its script; objects, gripper: how its masks came out.
Writer == [episode : Episode, gen : 1..MaxGen, run : 1..MaxRuns, mode : Mode,
           pc : 1..8, objects : BOOLEAN, gripper : {"none", "good", "bad"}]

CompletedStatus == {"completed", "skipped_complete"}
FailureStatus == {"failed", "incomplete", "not_run_after_fatal_cuda",
                  "not_run_no_healthy_sam_worker"}

\* What is kept of the summary: by which execution an episode was completed.
Summary == [by : [Episode -> 0..MaxGen], mode : Mode, passed : BOOLEAN]
NoSummary == [by |-> [e \in Episode |-> 0], mode |-> "object", passed |-> FALSE]

TypeOK ==
    /\ at \in {"idle", "scan", "episodes", "returned", "raised", "crashed"}
    /\ runs \in 0..MaxRuns
    /\ options \in Options
    /\ rows \in [Episode -> {"none"} \cup CompletedStatus \cup FailureStatus]
    /\ attempts \in [Episode -> 0..MaxEpisodeAttempts]
    /\ fatal \in BOOLEAN
    /\ writers \subseteq Writer
    /\ gen \in [Episode -> 0..MaxGen]
    /\ disk \in [Episode -> [File -> Content]]
    /\ receipt \in [Episode -> [File -> Content]]
    /\ summary \in Summary
    /\ cut \in [Episode -> {"no", "rewritten", "overlapped"}]
    /\ faults \in 0..MaxFaults

Init ==
    /\ at = "idle"
    /\ runs = 0
    /\ options = [mode |-> "object", force |-> FALSE, parallel |-> FALSE, incremental |-> FALSE]
    /\ rows = [e \in Episode |-> "none"]
    /\ attempts = [e \in Episode |-> 0]
    /\ fatal = FALSE
    /\ writers = {}
    /\ gen = [e \in Episode |-> 0]
    /\ disk = [e \in Episode |-> NoFiles]
    /\ receipt = [e \in Episode |-> NoFiles]
    /\ summary = NoSummary
    /\ cut = [e \in Episode |-> "no"]
    /\ faults = 0

\* Each failure the model chooses to happen counts against the bound.
Faulty == faults < MaxFaults /\ faults' = faults + 1

-----------------------------------------------------------------------------
(* What is on disk *)

HasMasks(e) == disk[e]["masks"] # Absent /\ disk[e]["run_manifest"] # Absent

\* _sam_episode_complete, with mask QC enabled.
ObjectsComplete(e) ==
    /\ HasMasks(e)
    /\ disk[e]["run_manifest"].objects
    /\ disk[e]["mask_qc"].objects

\* _gripper_episode_complete.
GripperComplete(e) ==
    /\ HasMasks(e)
    /\ disk[e]["run_manifest"].objects
    /\ disk[e]["run_manifest"].gripper = "good"
    /\ disk[e]["gripper_files"].gripper = "good"

Complete(mode, e) == IF mode = "full" THEN GripperComplete(e) ELSE ObjectsComplete(e)

-----------------------------------------------------------------------------
(* A run starts *)

\* validate_sam_run_ownership lets any SAM run of this id in again, with other
\* options too.  An incremental source is started by the live URDF workflow
\* only, never forced, and only where no source run exists yet.
Start ==
    /\ at \in {"idle", "returned", "raised", "crashed"}
    /\ runs < MaxRuns
    /\ ~options.incremental
    /\ runs' = runs + 1
    /\ \E o \in Options :
          /\ o.incremental => o.mode = "object" /\ ~o.force /\ runs = 0
          /\ options' = o
    /\ at' = "scan"
    /\ rows' = [e \in Episode |-> "none"]
    /\ attempts' = [e \in Episode |-> 0]
    /\ fatal' = FALSE
    /\ UNCHANGED <<writers, gen, artifacts, cut, faults>>

\* What a run that stops this way knew is gone; what its processes do is not.
Leave(end, still) ==
    /\ at' = end
    /\ rows' = [e \in Episode |-> "none"]
    /\ attempts' = [e \in Episode |-> 0]
    /\ fatal' = FALSE
    /\ writers' = still
    /\ options' = [mode |-> "object", force |-> FALSE, parallel |-> FALSE,
                   incremental |-> options.incremental]
    /\ UNCHANGED <<runs, gen, artifacts, cut>>
    /\ Faulty

\* The Qwen health check.
HealthFails == at = "scan" /\ Leave("raised", writers)

\* episode_terminal: a completed episode of an incremental source is frozen.
Freeze(done) ==
    receipt' = [e \in Episode |-> IF options.incremental /\ e \in done
                                  THEN disk[e] ELSE receipt[e]]

\* The resume scan.
Scan ==
    /\ at = "scan"
    /\ at' = "episodes"
    /\ LET done == {e \in Episode : ~options.force /\ Complete(options.mode, e)}
       IN /\ rows' = [e \in Episode |-> IF e \in done THEN "skipped_complete" ELSE "none"]
          /\ Freeze(done)
          /\ cut' = [e \in Episode |-> IF e \in done /\ (\E w \in writers : w.episode = e)
                                       THEN "overlapped" ELSE cut[e]]
    /\ UNCHANGED <<run, attempts, fatal, writers, gen, disk, summary, faults>>

Mine == {w \in writers : at = "episodes" /\ w.run = runs}
Active(e) == \E w \in Mine : w.episode = e
Pending == {e \in Episode : rows[e] = "none" /\ ~Active(e)}

\* The serial backend, before the first episode, or the pool.
LoadFails ==
    /\ at = "episodes"
    /\ Pending # {}
    /\ \A e \in Episode : attempts[e] = 0
    /\ Leave("raised", writers)

-----------------------------------------------------------------------------
(* An execution: execute_sam_episode *)

Begin(e) ==
    /\ at = "episodes"
    /\ e \in Pending
    /\ ~fatal
    /\ Cardinality(Mine) < (IF options.parallel THEN Workers ELSE 1)
    /\ \A i \in Pending : i < e => attempts[i] > 0
    /\ attempts' = [attempts EXCEPT ![e] = @ + 1]
    /\ gen' = [gen EXCEPT ![e] = @ + 1]
    /\ writers' = writers \cup
          {[episode |-> e, gen |-> gen[e] + 1, run |-> runs, mode |-> options.mode,
            pc |-> 1, objects |-> TRUE, gripper |-> "none"]}
    /\ cut' = [cut EXCEPT ![e] = IF \E w \in writers : w.episode = e THEN "overlapped"
                                 ELSE IF @ = "no" /\ ObjectsComplete(e) THEN "rewritten"
                                 ELSE @]
    /\ UNCHANGED <<at, run, rows, fatal, artifacts, faults>>

\* The object stage ends after its manifest unless every role came out.
Ended(w) == w.pc > Len(Script(w.mode)) \/ (w.pc > Len(ObjectScript) /\ ~w.objects)

\* The verdicts an execution may reach as it writes its next file: mask QC
\* refuses a role, temporal QC quarantines one, gripper seed QC or the gripper
\* track fails.
Verdicts(w) ==
    LET f == Script(w.mode)[w.pc]
    IN {v \in [objects : BOOLEAN, gripper : {"none", "good", "bad"}] :
          /\ v.objects # w.objects =>
                w.objects /\ w.gripper = "none" /\ f \in {"mask_qc", "masks"}
          /\ f = "gripper_files" <=> v.gripper # w.gripper}
Adverse(w, v) == v.objects # w.objects \/ (v.gripper # w.gripper /\ v.gripper = "bad")

\* _load_completed_sam_stage: the gripper stage reads the objects back from disk.
ObjectsLoad(e) == HasMasks(e) /\ disk[e]["run_manifest"].objects

Store(e, f, content) == disk' = [disk EXCEPT ![e] = [disk[e] EXCEPT ![f] = content]]
Advanced(w, v) ==
    [episode |-> w.episode, gen |-> w.gen, run |-> w.run, mode |-> w.mode,
     pc |-> w.pc + 1, objects |-> v.objects, gripper |-> v.gripper]

\* write_json, write_text, write_npz: a temporary file, then a rename.
Write(w) ==
    /\ w \in writers
    /\ ~Ended(w)
    /\ w.pc = Len(ObjectScript) + 1 => ObjectsLoad(w.episode)
    /\ \E v \in Verdicts(w) :
          /\ Store(w.episode, Script(w.mode)[w.pc],
                   [gen |-> w.gen, objects |-> v.objects, gripper |-> v.gripper])
          /\ writers' = (writers \ {w}) \cup {Advanced(w, v)}
          /\ IF Adverse(w, v) THEN Faulty ELSE UNCHANGED faults
    /\ UNCHANGED <<at, run, rows, attempts, fatal, gen, receipt, summary, cut>>

Row(e, status) == rows' = [rows EXCEPT ![e] = status]

\* _emit_sam_result, _emit_gripper_result.
CameOut(w) == w.objects /\ (w.mode = "full" => w.gripper = "good")

\* The outcome is recorded, and only then is the episode terminal.
Finish(w) ==
    /\ w \in Mine
    /\ Ended(w)
    /\ Row(w.episode, IF CameOut(w) THEN "completed" ELSE "incomplete")
    /\ Freeze(IF CameOut(w) THEN {w.episode} ELSE {})
    /\ writers' = writers \ {w}
    /\ cut' = [cut EXCEPT ![w.episode] = IF @ = "rewritten" THEN "no" ELSE @]
    /\ UNCHANGED <<at, run, attempts, fatal, gen, disk, summary, faults>>

\* save_qwen_failure: the answer Qwen gave stands where the plan's should.
QwenFails(w) ==
    /\ w \in Mine
    /\ w.pc = 1
    /\ Store(w.episode, "plan", [gen |-> w.gen, objects |-> FALSE, gripper |-> "none"])
    /\ writers' = writers \ {w}
    /\ Row(w.episode, "failed")
    /\ UNCHANGED <<at, run, attempts, fatal, gen, receipt, summary, cut>>
    /\ Faulty

AfterFatal(f) == [e \in Episode |-> IF f /\ rows[e] = "none"
                                    THEN "not_run_after_fatal_cuda" ELSE rows[e]]

\* An exception the workflow expects, in any stage.  In the serial loop a fatal
\* CUDA error leaves the rest unexecuted.
Fails(w) ==
    /\ w \in Mine
    /\ ~Ended(w)
    /\ writers' = writers \ {w}
    /\ fatal' \in (IF options.parallel THEN {FALSE} ELSE BOOLEAN)
    /\ rows' = [AfterFatal(fatal') EXCEPT ![w.episode] = "failed"]
    /\ UNCHANGED <<at, run, attempts, gen, artifacts, cut>>
    /\ Faulty

\* Slip: the worker freezes its episode itself, before its outcome is accepted.
LostOnceFrozen(w) ==
    /\ options.parallel
    /\ w \in Mine
    /\ writers' = writers \ {w}
    /\ Freeze(IF Ended(w) /\ w.objects THEN {w.episode} ELSE {})
    /\ IF attempts[w.episode] < MaxEpisodeAttempts
       THEN UNCHANGED rows
       ELSE Row(w.episode, "failed")
    /\ UNCHANGED <<at, run, attempts, fatal, gen, disk, summary, cut>>
    /\ Faulty

\* The pool loses an execution: its process died or was killed, in the middle
\* of a file or with the outcome under way.
Lost(w) ==
    /\ options.parallel
    /\ w \in Mine
    /\ writers' = writers \ {w}
    /\ IF attempts[w.episode] < MaxEpisodeAttempts
       THEN UNCHANGED rows
       ELSE Row(w.episode, "failed")
    /\ UNCHANGED <<at, run, attempts, fatal, gen, artifacts, cut>>
    /\ Faulty

NoWorkerLeft ==
    /\ options.parallel
    /\ at = "episodes"
    /\ Mine = {}
    /\ Pending # {}
    /\ rows' = [e \in Episode |-> IF rows[e] = "none" THEN "not_run_no_healthy_sam_worker"
                                  ELSE rows[e]]
    /\ UNCHANGED <<at, run, attempts, fatal, writers, gen, artifacts, cut>>
    /\ Faulty

-----------------------------------------------------------------------------
(* The run ends *)

\* Slip: the run passes when nothing failed, whatever was not run.
PassedUnlessFailed == \A e \in Episode : rows[e] # "failed" /\ rows[e] # "incomplete"

\* No row is a failure, and neither is rendering.
Passed == ~fatal /\ \A e \in Episode : rows[e] \notin FailureStatus

\* Rendering may fail, where there is something to render; then the summary.
Summarise ==
    /\ at = "episodes"
    /\ \A e \in Episode : rows[e] # "none"
    /\ \E rendered \in BOOLEAN :
          /\ ~rendered => /\ ~fatal
                          /\ options.mode = "full"
                          /\ \E e \in Episode : rows[e] \in CompletedStatus
          /\ summary' = [by |-> [e \in Episode |-> IF rows[e] \in CompletedStatus
                                                   THEN gen[e] ELSE 0],
                         mode |-> options.mode,
                         passed |-> rendered /\ Passed]
    /\ at' = "returned"
    /\ UNCHANGED <<run, rows, attempts, fatal, writers, gen, disk, receipt, cut, faults>>

\* An exception that is not expected, or KeyboardInterrupt: a serial execution
\* ends with it, the pool kills its workers.  A receipt that is refused, too.
Interrupt == at = "episodes" /\ Leave("raised", writers \ Mine)

\* The workflow's process is killed: the pool's workers do not notice before
\* they have finished their episode.
Crash ==
    /\ at \in {"scan", "episodes"}
    /\ Leave("crashed", IF options.parallel THEN writers ELSE writers \ Mine)

\* Such a worker ends: done, failed, or killed.
OrphanEnds(w) ==
    /\ w \in writers \ Mine
    /\ writers' = writers \ {w}
    /\ UNCHANGED <<at, run, rows, attempts, fatal, gen, artifacts, cut, faults>>

Next ==
    \/ Start \/ HealthFails \/ Scan \/ LoadFails
    \/ \E e \in Episode : Begin(e)
    \/ \E w \in writers : Write(w) \/ QwenFails(w) \/ Fails(w) \/ Finish(w) \/ Lost(w)
                          \/ OrphanEnds(w)
    \/ NoWorkerLeft \/ Summarise \/ Interrupt \/ Crash

Spec == Init /\ [][Next]_vars

-----------------------------------------------------------------------------
\* The files of one execution, none of them older or newer than the others.
Whole(e, files) == \A f, g \in files : disk[e][f].gen = disk[e][g].gen

\* What a later run skips, and what a URDF run derives from, is the work of one
\* execution: after any crash, retry or restart, an episode that looks complete
\* has its plan, masks, QC record and manifest from the same attempt.  The two
\* exceptions are exactly these: a new attempt on an episode that already
\* looked complete (--force, an execution repeated by the pool, a full run over
\* an object source) has been stopped half-way, or it ran beside a worker that
\* outlived its coordinator.
CompleteIsWhole ==
    \A e \in Episode : cut[e] = "no" =>
        /\ ObjectsComplete(e) =>
             Whole(e, {"plan", "mask_qc", "masks", "run_manifest"})
        /\ GripperComplete(e) =>
             /\ Whole(e, File)
             /\ disk[e]["masks"].gripper = "good"

\* The summary tells the truth about the disk, as long as nobody has begun on
\* the episode again: what it calls complete the next resume scan skips, and a
\* run that passed has nothing left for it.
SummaryIsTrue ==
    \A e \in Episode :
        /\ summary.passed => summary.by[e] # 0
        /\ summary.by[e] # 0 /\ summary.by[e] = gen[e] /\ cut[e] # "overlapped"
             => Complete(summary.mode, e)

\* A completion receipt is immutable, and so must be what it names: from the
\* moment the URDF process may read the episode, no execution, late, repeated
\* or orphaned, writes into it again.
ReceiptFreezesEpisode ==
    \A e \in Episode : receipt[e] # NoFiles =>
        /\ receipt[e] = disk[e]
        /\ ObjectsComplete(e)
        /\ \A w \in writers : w.episode # e

=============================================================================
