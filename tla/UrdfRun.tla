------------------------------- MODULE UrdfRun -------------------------------
(***************************************************************************)
(* UrdfWorkflow: gripper masks rendered from the URDF replace those of a   *)
(* source run, and the result is published as a canonical run.  A frozen   *)
(* derivation reads a source run that is there; a live one makes it first, *)
(* and either waits for all of it (serial) or renders every episode as it  *)
(* gets ready (streaming).  The backend keeps manifest.json and one        *)
(* directory per episode; the publisher turns them into canonical trees.   *)
(* The run may be cut anywhere and resumed, and the source may be changed  *)
(* between any two steps.  A file is the version of its content; a step    *)
(* below makes at most one change on disk.                                 *)
(***************************************************************************)
EXTENDS Integers, Sequences, FiniteSets

CONSTANTS
    NumEpisodes,  \* the episodes of the dataset, in order
    NumConfigs,   \* settings, assets and implementations a run is started with
    MaxRuns,      \* bound of the model: starts of the workflow
    MaxCrashes,   \* bound of the model: processes killed
    MaxChanges    \* bound of the model: changes made to the source run

Episode == 1..NumEpisodes

ASSUME UrdfRunAssumption ==
    /\ NumEpisodes \in Nat \ {0}
    /\ NumConfigs \in Nat \ {0}
    /\ MaxRuns \in Nat
    /\ MaxCrashes \in Nat
    /\ MaxChanges \in Nat

VARIABLES
    kind,     \* where the source run comes from
    src,      \* the source run on disk: the files a lineage names
    loose,    \* [Episode -> its files that are published and no lineage names]
    made,     \* the output directory of the run exists
    man,      \* the backend's manifest.json
    bdir,     \* [Episode -> the backend's directory]
    cdir,     \* [Episode -> the canonical tree: what is written for it]
    beside,   \* [Episode -> the files of the tree that come from the source]
    summary,  \* process_summary.json of the run
    phase,    \* where the workflow is
    job,      \* what it was started with and what it selected
    plan,     \* [Episode -> the source lineage its plan froze]
    rec,      \* [Episode -> the status of its backend record, in memory]
    todo,     \* the episodes the present loop has still to take
    ready,    \* the source episodes handed to the streaming worker
    temp,     \* the episode in hand
    rows,     \* [Episode -> the status published]
    late,     \* [Episode -> the failure found after publication]
    errors,   \* backend and render errors
    runs, crashes, changes

disk == <<made, man, bdir, cdir, beside, summary>>
memory == <<phase, job, plan, rec, todo, ready, temp, rows, late, errors>>
bounds == <<runs, crashes, changes>>
vars == <<kind, src, loose, disk, memory, bounds>>

MaxVersion == MaxChanges + 1
Version == 0..MaxVersion

\* masks: masks.npz; other: the files published beside it that the lineage names,
\* all of them in a live source, the loop and the tracks of the roles in a frozen
\* one; summary: the process summary a frozen source is anchored by.  Version 0:
\* there is no such file.
Lineage == [masks : Version, other : Version, summary : Version]
None == [masks |-> 0, other |-> 0, summary |-> 0]

Nobody == [e \in Episode |-> None]
Status == {"none", "pending", "failed", "complete"}
NoRecords == [e \in Episode |-> "none"]

\* Config 0 marks what is not there.
NoConfig == 0
Config == 0..NumConfigs

\* What a backend directory was rendered from, and by which settings.
Rendered == [masks : Version, config : Config]
NoDir == [masks |-> 0, config |-> NoConfig]

\* The lineage a canonical tree states, and what its masks really are.
Tree == [lineage : Lineage, masks : Version, config : Config]
NoTree == [lineage |-> None, masks |-> 0, config |-> NoConfig]

\* A file of a tree that comes from the source: linked, it is the very file of the
\* source; edited (history), it was written through that link.
File == [version : Version, linked : BOOLEAN, edited : BOOLEAN]
NoFile == [version |-> 0, linked |-> FALSE, edited |-> FALSE]
Beside == [other : File, loose : File]
NoFiles == [other |-> NoFile, loose |-> NoFile]

Manifest == [config : Config, sel : SUBSET Episode,
             plan : [Episode -> Lineage], rec : [Episode -> Status],
             status : {"none", "running", "failed", "complete"}]
NoManifest == [config |-> NoConfig, sel |-> {}, plan |-> Nobody, rec |-> NoRecords,
               status |-> "none"]

Summary == [passed : BOOLEAN, skipRender : BOOLEAN, sel : SUBSET Episode,
            frozen : [Episode -> Lineage]]
NoSummary == [passed |-> FALSE, skipRender |-> FALSE, sel |-> {}, frozen |-> Nobody]

Job == [mode : {"frozen", "serial", "streaming"}, resume : BOOLEAN, skipRender : BOOLEAN,
        config : Config, sel : SUBSET Episode, frozen : [Episode -> Lineage]]
NoJob == [mode |-> "frozen", resume |-> FALSE, skipRender |-> FALSE, config |-> NoConfig,
          sel |-> {}, frozen |-> Nobody]

Idle == [step |-> "idle", episode |-> 1, read |-> None]
Row == {"none", "failed", "completed", "skipped_complete"}
Late == {"none", "source_lineage_changed", "canonical_validation_failed"}

TypeOK ==
    /\ kind \in {"frozen", "live"}
    /\ src \in [made : BOOLEAN, masks : [Episode -> Version], other : [Episode -> Version],
                receipt : [Episode -> Version \X Version], summary : Version,
                listed : SUBSET Episode]
    /\ loose \in [Episode -> Version]
    /\ made \in BOOLEAN
    /\ man \in Manifest
    /\ bdir \in [Episode -> Rendered]
    /\ cdir \in [Episode -> Tree]
    /\ beside \in [Episode -> Beside]
    /\ summary \in Summary
    /\ phase \in {"idle", "source", "select", "plan", "contract", "scan", "render",
                  "publish", "validate", "close"}
    /\ job \in Job
    /\ plan \in [Episode -> Lineage]
    /\ rec \in [Episode -> Status]
    /\ todo \subseteq Episode
    /\ ready \in Seq(Episode)
    /\ temp \in [step : {"idle", "planned", "rendering", "rendered", "staging"},
                 episode : Episode, read : Lineage]
    /\ rows \in [Episode -> Row]
    /\ late \in [Episode -> Late]
    /\ errors \subseteq {"backend", "render"}
    /\ runs \in 0..MaxRuns
    /\ crashes \in 0..MaxCrashes
    /\ changes \in 0..MaxChanges

AtRest ==
    /\ phase = "idle"
    /\ job = NoJob
    /\ plan = Nobody
    /\ rec = NoRecords
    /\ todo = {}
    /\ ready = <<>>
    /\ temp = Idle
    /\ rows = [e \in Episode |-> "none"]
    /\ late = [e \in Episode |-> "none"]
    /\ errors = {}

\* A frozen source has some episodes complete; a live one is still to be made.
Init ==
    /\ kind \in {"frozen", "live"}
    /\ \E done \in SUBSET Episode :
          /\ IF kind = "live" THEN done = {} ELSE done # {}
          /\ src = [made |-> kind = "frozen",
                    masks |-> [e \in Episode |-> IF e \in done THEN 1 ELSE 0],
                    other |-> [e \in Episode |-> IF e \in done THEN 1 ELSE 0],
                    receipt |-> [e \in Episode |-> <<0, 0>>],
                    summary |-> IF kind = "live" THEN 0 ELSE 1,
                    listed |-> done]
          /\ loose = [e \in Episode |-> IF e \in done THEN 1 ELSE 0]
    /\ made = FALSE
    /\ man = NoManifest
    /\ bdir = [e \in Episode |-> NoDir]
    /\ cdir = [e \in Episode |-> NoTree]
    /\ beside = [e \in Episode |-> NoFiles]
    /\ summary = NoSummary
    /\ AtRest
    /\ runs = 0
    /\ crashes = 0
    /\ changes = 0

First(S) == CHOOSE e \in S : \A f \in S : e <= f

\* The workflow returns or raises: nothing of it remains but its files.
Leave ==
    /\ phase' = "idle"
    /\ job' = NoJob
    /\ plan' = Nobody
    /\ rec' = NoRecords
    /\ todo' = {}
    /\ ready' = <<>>
    /\ temp' = Idle
    /\ rows' = [e \in Episode |-> "none"]
    /\ late' = [e \in Episode |-> "none"]
    /\ errors' = {}

InHandAt(step) == [step |-> step, episode |-> temp.episode, read |-> temp.read]
Hold == temp' = InHandAt("idle")

-----------------------------------------------------------------------------
(* The source run: what identifies an episode of it *)

\* A source run that is there, with these files.
Source(masks, other, receipt, number, listed) ==
    [made |-> TRUE, masks |-> masks, other |-> other, receipt |-> receipt,
     summary |-> number, listed |-> listed]

\* _validate_source_summary: the record of the episode is complete.
SummaryNames(e) == src.summary > 0 /\ e \in src.listed

\* _validate_source_completion_receipt: no file differs from the receipt.
ReceiptHolds(e) == src.receipt[e] = <<src.masks[e], src.other[e]>>

\* The masks load; the loop, its encoding and its provenance agree with them.
MasksReadable(e) == src.masks[e] > 0
FilesReadable(e) == src.other[e] > 0

\* _validate_derivation_source_episode accepts the episode ...
SourceValid(e) ==
    /\ MasksReadable(e)
    /\ FilesReadable(e)
    /\ IF kind = "live" THEN ReceiptHolds(e) ELSE SummaryNames(e)

\* ... and returns this lineage: a live source has its receipt in it, a frozen
\* one its process summary.
LineageOf(e) == [masks |-> src.masks[e], other |-> src.other[e],
                 summary |-> IF kind = "live" THEN 0 ELSE src.summary]

\* select_urdf_source_episodes reads the summary first, whatever the source.
Selectable == IF src.summary > 0 THEN {e \in Episode : SourceValid(e)} ELSE {}
FrozenLineages(S) == [e \in Episode |-> IF e \in S THEN LineageOf(e) ELSE None]

-----------------------------------------------------------------------------
(* Starting: validate_urdf_run_ownership and the selection *)

Owned(resume) == IF resume THEN man # NoManifest ELSE ~made

Take(sel, next) ==
    /\ sel # {}
    /\ job' = [mode |-> job.mode, resume |-> job.resume, skipRender |-> job.skipRender,
                config |-> job.config, sel |-> sel, frozen |-> FrozenLineages(sel)]
    /\ phase' = next
    /\ todo' = sel

\* UrdfWorkflow.run, called for a source that is there.  A start that is refused
\* changes nothing.
Start ==
    /\ phase = "idle"
    /\ runs < MaxRuns
    /\ runs' = runs + 1
    /\ \E resume, skipRender \in BOOLEAN, config \in Config \ {NoConfig} :
          /\ Owned(resume)
          /\ Selectable # {}
          /\ job' = [mode |-> "frozen", resume |-> resume, skipRender |-> skipRender,
                     config |-> config, sel |-> Selectable,
                     frozen |-> FrozenLineages(Selectable)]
    /\ phase' = "plan"
    /\ todo' = Selectable
    /\ UNCHANGED <<kind, src, loose, disk, plan, rec, ready, temp, rows, late, errors,
                   crashes, changes>>

\* run_live: neither the run nor its source may be there.
StartLive ==
    /\ phase = "idle"
    /\ kind = "live"
    /\ runs < MaxRuns
    /\ runs' = runs + 1
    /\ Owned(FALSE)
    /\ ~src.made
    /\ \E mode \in {"serial", "streaming"}, skipRender \in BOOLEAN, config \in Config \ {NoConfig} :
          /\ job' = [mode |-> mode, resume |-> FALSE, skipRender |-> skipRender,
                     config |-> config, sel |-> Episode, frozen |-> Nobody]
          /\ phase' = IF mode = "serial" THEN "source" ELSE "plan"
    /\ UNCHANGED <<kind, src, loose, disk, plan, rec, todo, ready, temp, rows, late, errors,
                   crashes, changes>>

\* The source process starts over the episodes; the worker is waiting by then.
OpenSource ==
    /\ phase = "source"
    /\ ~src.made
    /\ src' = Source(src.masks, src.other, src.receipt, src.summary, src.listed)
    /\ todo' = Episode
    /\ UNCHANGED <<kind, loose, disk, phase, job, plan, rec, ready, temp, rows, late, errors, bounds>>

\* An episode of the source ends, complete with its receipt or not at all, and a
\* complete one is announced to the worker.
SourceEpisode(e) ==
    /\ phase = "source"
    /\ src.made
    /\ e \in todo
    /\ todo' = todo \ {e}
    /\ \/ /\ src' = Source([src.masks EXCEPT ![e] = 1], [src.other EXCEPT ![e] = 1],
                           [src.receipt EXCEPT ![e] = <<1, 1>>], src.summary, src.listed)
          /\ ready' = IF job.mode = "streaming" THEN Append(ready, e) ELSE ready
       \/ UNCHANGED <<src, ready>>
    /\ UNCHANGED <<kind, loose, disk, phase, job, plan, rec, temp, rows, late, errors, bounds>>

\* The source run writes its summary when every episode has ended.
CloseSource ==
    /\ phase = "source"
    /\ src.made
    /\ todo = {}
    /\ src.summary = 0
    /\ src' = Source(src.masks, src.other, src.receipt, 1, {e \in Episode : src.masks[e] > 0})
    /\ phase' = IF job.mode = "serial" THEN "select" ELSE phase
    /\ UNCHANGED <<kind, loose, disk, job, plan, rec, todo, ready, temp, rows, late, errors, bounds>>

\* After a live source: an explicit selection that is not whole is refused, and
\* so is a source without one complete episode.
SelectLive ==
    /\ phase = "select"
    /\ \/ /\ Take(Selectable, IF job.mode = "streaming" THEN "publish" ELSE "plan")
          /\ UNCHANGED <<plan, rec, ready, temp, rows, late, errors>>
       \/ /\ Selectable # Episode
          /\ Leave
    /\ UNCHANGED <<kind, src, loose, disk, bounds>>

-----------------------------------------------------------------------------
(* The backend: the plan, the run contract, the manifest *)

\* _build_episode_plan of a frozen derivation; one that fails ends the run.
PlanEpisode ==
    /\ phase = "plan"
    /\ todo # {}
    /\ LET e == First(todo) IN
          IF SourceValid(e)
          THEN /\ plan' = [plan EXCEPT ![e] = LineageOf(e)]
               /\ todo' = todo \ {e}
               /\ UNCHANGED <<phase, job, rec, ready, temp, rows, late, errors>>
          ELSE Leave
    /\ UNCHANGED <<kind, src, loose, disk, bounds>>

\* _checkpoint_manifest: plans, records and status are written together.
Checkpoint(plans, records, status) ==
    man' = [config |-> man.config, sel |-> man.sel, plan |-> plans, rec |-> records,
            status |-> status]

\* Slip: a plan that changed since the run was started is taken over.
ReconciledUnread ==
    /\ man.config = job.config
    /\ man.sel = job.sel
    /\ \A e \in man.sel :
          man.plan[e] = None => man.rec[e] = "pending" /\ bdir[e] = NoDir

\* _reconcile_resume_contract: the same settings, the same episodes, the same
\* plans; a plan may be missing only of an episode that was never touched.
Reconciled ==
    /\ man.config = job.config
    /\ man.sel = job.sel
    /\ \A e \in man.sel :
          /\ man.plan[e] \in {None, plan[e]}
          /\ man.plan[e] = None => man.rec[e] = "pending" /\ bdir[e] = NoDir

Planned == phase = "plan" /\ todo = {}

\* run_experiment of a new run creates its directory first ...
MakeRun ==
    /\ Planned
    /\ ~job.resume
    /\ ~made
    /\ made' = TRUE
    /\ phase' = "contract"
    /\ UNCHANGED <<kind, src, loose, man, bdir, cdir, beside, summary, job, plan, rec, todo, ready, temp,
                   rows, late, errors, bounds>>

\* ... and then its manifest, with every record pending.  The streaming worker
\* does the same before the source starts, and has no plans yet.
FirstManifest ==
    /\ phase = "contract"
    /\ rec' = [e \in Episode |-> IF e \in job.sel THEN "pending" ELSE "none"]
    /\ man' = [config |-> job.config, sel |-> job.sel, plan |-> plan, rec |-> rec',
               status |-> "running"]
    /\ IF job.mode = "streaming"
       THEN phase' = "source" /\ todo' = {}
       ELSE phase' = "scan" /\ todo' = job.sel
    /\ UNCHANGED <<kind, src, loose, made, bdir, cdir, beside, summary, job, plan, ready, temp, rows, late,
                   errors, bounds>>

\* _resume_manifest.
ResumeManifest ==
    /\ Planned
    /\ job.resume
    /\ IF Reconciled
       THEN /\ Checkpoint(plan, man.rec, "running")
            /\ rec' = man.rec
            /\ phase' = "scan"
            /\ todo' = job.sel
            /\ UNCHANGED <<job, plan, ready, temp, rows, late, errors>>
       ELSE Leave /\ UNCHANGED man
    /\ UNCHANGED <<kind, src, loose, made, bdir, cdir, beside, summary, bounds>>

\* validate_completed_episode: what is in the directory was rendered over the
\* masks the source has now.
Rendering(e) == [masks |-> src.masks[e], config |-> job.config]

\* Before anything is rendered every directory found is validated: it is taken
\* over, or its episode fails and is left alone; what the manifest calls complete
\* must be there and valid.
ScanEpisode ==
    /\ phase = "scan"
    /\ todo # {}
    /\ LET e == First(todo)
           found == bdir[e] # NoDir
           valid == bdir[e] = Rendering(e)
       IN  \/ /\ found
              /\ valid
              /\ rec' = [rec EXCEPT ![e] = "complete"]
              /\ Checkpoint(man.plan, rec', man.status)
              /\ todo' = todo \ {e}
              /\ UNCHANGED <<phase, job, plan, ready, temp, rows, late, errors>>
           \/ /\ found
              /\ rec[e] # "complete"
              /\ rec' = [rec EXCEPT ![e] = "failed"]
              /\ Checkpoint(man.plan, rec', man.status)
              /\ todo' = todo \ {e}
              /\ UNCHANGED <<phase, job, plan, ready, temp, rows, late, errors>>
           \/ /\ ~found
              /\ rec[e] # "complete"
              /\ todo' = todo \ {e}
              /\ UNCHANGED <<man, phase, job, plan, rec, ready, temp, rows, late, errors>>
           \/ /\ rec[e] = "complete"
              /\ Leave
              /\ UNCHANGED man
    /\ UNCHANGED <<kind, src, loose, made, bdir, cdir, beside, summary, bounds>>

\* What is rendered is what has no directory.
FinishScan ==
    /\ phase = "scan"
    /\ todo = {}
    /\ todo' = {e \in job.sel : bdir[e] = NoDir}
    /\ phase' = "render"
    /\ UNCHANGED <<kind, src, loose, disk, job, plan, rec, ready, temp, rows, late, errors, bounds>>

-----------------------------------------------------------------------------
(* The backend: one episode *)

\* process_episode: the plan of an episode that is ready goes into the manifest
\* before anything is rendered; without one its record fails.
PlanReady ==
    /\ phase = "source"
    /\ ready # <<>>
    /\ temp.step = "idle"
    /\ LET e == Head(ready) IN
          \/ /\ SourceValid(e)
             /\ plan' = [plan EXCEPT ![e] = LineageOf(e)]
             /\ Checkpoint(plan', man.rec, man.status)
             /\ temp' = [step |-> "planned", episode |-> e, read |-> None]
             /\ UNCHANGED rec
          \/ /\ rec' = [rec EXCEPT ![e] = "failed"]
             /\ temp' = [step |-> "rendered", episode |-> e, read |-> None]
             /\ UNCHANGED <<plan, man>>
    /\ UNCHANGED <<kind, src, loose, made, bdir, cdir, beside, summary, phase, job, todo, ready, rows, late,
                   errors, bounds>>

\* Rendering reads the source masks again, into a directory of its own.
BeginRender ==
    /\ \/ phase = "source" /\ temp.step = "planned"
       \/ phase = "render" /\ temp.step = "idle" /\ todo # {}
    /\ LET e == IF phase = "source" THEN temp.episode ELSE First(todo) IN
          temp' = [step |-> "rendering", episode |-> e, read |-> LineageOf(e)]
    /\ UNCHANGED <<kind, src, loose, disk, phase, job, plan, rec, todo, ready, rows, late, errors,
                   bounds>>

\* Slip: the episode is recorded complete before its directory is in place.
RecordedBeforeRendered ==
    /\ temp.step = "rendering"
    /\ LET e == temp.episode IN
          /\ temp.read.masks = src.masks[e]
          /\ rec[e] # "complete"
          /\ rec' = [rec EXCEPT ![e] = "complete"]
          /\ Checkpoint(man.plan, rec', man.status)
    /\ UNCHANGED <<kind, src, loose, made, bdir, cdir, beside, summary, phase, job, plan, todo, ready, temp,
                   rows, late, errors, bounds>>

\* The directory is validated against the source, moved into place and validated
\* again; it stays in place when that fails.
FinishRender ==
    /\ temp.step = "rendering"
    /\ temp' = InHandAt("rendered")
    /\ LET e == temp.episode IN
          \/ /\ temp.read.masks = src.masks[e]
             /\ bdir' = [bdir EXCEPT ![e] = Rendering(e)]
             /\ rec' \in {[rec EXCEPT ![e] = s] : s \in {"complete", "failed"}}
          \/ /\ rec' = [rec EXCEPT ![e] = "failed"]
             /\ UNCHANGED bdir
    /\ UNCHANGED <<kind, src, loose, made, man, cdir, beside, summary, phase, job, plan, todo, ready, rows,
                   late, errors, bounds>>

\* _checkpoint_manifest after the episode.
SaveRecord ==
    /\ temp.step = "rendered"
    /\ Hold
    /\ Checkpoint(man.plan, rec, man.status)
    /\ IF phase = "source"
       THEN ready' = Tail(ready) /\ UNCHANGED todo
       ELSE todo' = todo \ {temp.episode} /\ UNCHANGED ready
    /\ UNCHANGED <<kind, src, loose, made, bdir, cdir, beside, summary, phase, job, plan, rec, rows, late,
                   errors, bounds>>

\* The end of the backend: UrdfBatchIncompleteError carries the result on.
CloseManifest(records) ==
    LET whole == \A e \in man.sel : records[e] = "complete" IN
    /\ Checkpoint(man.plan, records, IF whole THEN "complete" ELSE "failed")
    /\ errors' = IF whole THEN {} ELSE {"backend"}

FinishBackend ==
    /\ phase = "render"
    /\ todo = {}
    /\ temp.step = "idle"
    /\ CloseManifest(rec)
    /\ phase' = "publish"
    /\ todo' = job.sel
    /\ UNCHANGED <<kind, src, loose, made, bdir, cdir, beside, summary, job, plan, rec, ready, temp, rows,
                   late, bounds>>

\* finalize: an episode that never got ready has failed.
FinishWorker ==
    /\ phase = "source"
    /\ job.mode = "streaming"
    /\ src.summary > 0
    /\ ready = <<>>
    /\ temp.step = "idle"
    /\ rec' = [e \in Episode |-> IF rec[e] = "pending" THEN "failed" ELSE rec[e]]
    /\ CloseManifest(rec')
    /\ phase' = "select"
    /\ UNCHANGED <<kind, src, loose, made, bdir, cdir, beside, summary, job, plan, todo, ready, temp, rows,
                   late, bounds>>

-----------------------------------------------------------------------------
(* The canonical trees *)

\* _backend_provenance: the record is the one on disk, under the plan of the run
\* contract and the implementation that publishes now.
Anchored(e) == man.rec[e] = rec[e] /\ man.plan[e] = plan[e] /\ man.config = job.config

\* _load_product, _validate_backend_combined_masks: the product is whole and its
\* object channels are those of the source.
ProductHolds(e) == bdir[e] = Rendering(e)

\* Slip: the lineage the backend planned from is not compared with the source.
PublishableUnread(e) ==
    /\ rec[e] = "complete"
    /\ plan[e] = job.frozen[e]
    /\ SourceValid(e)
    /\ ProductHolds(e)
    /\ Anchored(e)

\* The record is complete and of the lineage selected, and _prepare_contract finds
\* the source, the record and the backend's masks in agreement.
Publishable(e) ==
    /\ rec[e] = "complete"
    /\ plan[e] = job.frozen[e]
    /\ SourceValid(e)
    /\ LineageOf(e) = plan[e]
    /\ ProductHolds(e)
    /\ Anchored(e)

InHand == phase = "publish" /\ temp.step = "staging"
Recorded(e, status) == rows' = [rows EXCEPT ![e] = status] /\ todo' = todo \ {e}

PreparePublish ==
    /\ phase = "publish"
    /\ temp.step = "idle"
    /\ todo # {}
    /\ LET e == First(todo) IN
          /\ Publishable(e)
          /\ temp' = [step |-> "staging", episode |-> e, read |-> LineageOf(e)]
    /\ UNCHANGED <<kind, src, loose, disk, phase, job, plan, rec, todo, ready, rows, late, errors,
                   bounds>>

\* A record that is not, a contract that cannot be prepared, a stage that cannot be
\* written: the episode fails and nothing is published.
FailPublish ==
    /\ phase = "publish"
    /\ todo # {}
    /\ Recorded(First(todo), "failed")
    /\ Hold
    /\ UNCHANGED <<kind, src, loose, disk, phase, job, plan, rec, ready, late, errors, bounds>>

\* A file taken over from the source is a hard link to it, or a copy where the
\* file system makes no link.
Materialized(version, linked) == [version |-> version, linked |-> linked, edited |-> FALSE]

\* _write_stage takes the masks from the contract and the other files from the
\* source as they are by now; the tree is validated against those, renamed into
\* place and validated again.
PublishTree ==
    /\ InHand
    /\ LET e == temp.episode IN
          /\ cdir[e] = NoTree
          /\ cdir' = [cdir EXCEPT ![e] = [lineage |-> temp.read, masks |-> temp.read.masks,
                                          config |-> job.config]]
          /\ \E linked \in BOOLEAN :
                beside' = [beside EXCEPT ![e] = [other |-> Materialized(src.other[e], linked),
                                                 loose |-> Materialized(loose[e], linked)]]
          /\ \E status \in {"completed", "failed"} : Recorded(e, status)
    /\ Hold
    /\ UNCHANGED <<kind, src, loose, made, man, bdir, summary, phase, job, plan, rec, ready,
                   late, errors, bounds>>

\* _validate_tree: every file taken over is compared with the source of now.
TreeHolds(e, lineage) ==
    /\ cdir[e] = [lineage |-> lineage, masks |-> lineage.masks, config |-> job.config]
    /\ beside[e].other.version = src.other[e]
    /\ beside[e].loose.version = loose[e]

\* A tree that is there is skipped by a resumed run, when it is valid.
SkipTree ==
    /\ InHand
    /\ LET e == temp.episode IN
          /\ cdir[e] # NoTree
          /\ Recorded(e, IF job.resume /\ TreeHolds(e, temp.read)
                         THEN "skipped_complete" ELSE "failed")
    /\ Hold
    /\ UNCHANGED <<kind, src, loose, disk, phase, job, plan, rec, ready, late, errors, bounds>>

Published == {e \in job.sel : rows[e] \in {"completed", "skipped_complete"}}

FinishPublish ==
    /\ phase = "publish"
    /\ todo = {}
    /\ temp.step = "idle"
    /\ IF job.skipRender \/ Published = {}
       THEN phase' = "close" /\ UNCHANGED todo
       ELSE phase' = "validate" /\ todo' = Published
    /\ UNCHANGED <<kind, src, loose, disk, job, plan, rec, ready, temp, rows, late, errors, bounds>>

\* Slip: the source is not read again after publication.
ValidateTreeOnly ==
    /\ phase = "validate"
    /\ todo # {}
    /\ LET e == First(todo) IN
          /\ todo' = todo \ {e}
          /\ late' = [late EXCEPT ![e] =
                         IF ProductHolds(e) THEN "none" ELSE "canonical_validation_failed"]
    /\ UNCHANGED <<kind, src, loose, disk, phase, job, plan, rec, ready, temp, rows, errors, bounds>>

\* Before it renders, the workflow reads every published episode again: the source
\* must still have the lineage selected and the tree must still be valid.
ValidateEpisode ==
    /\ phase = "validate"
    /\ todo # {}
    /\ LET e == First(todo)
           unchanged == SourceValid(e) /\ LineageOf(e) = job.frozen[e]
       IN  /\ todo' = todo \ {e}
           /\ \E found \in Late :
                 /\ late' = [late EXCEPT ![e] = found]
                 /\ found = "source_lineage_changed" <=> ~unchanged
                 /\ found = "none" => Publishable(e) /\ TreeHolds(e, plan[e])
    /\ UNCHANGED <<kind, src, loose, disk, phase, job, plan, rec, ready, temp, rows, errors, bounds>>

\* The overlays of the validated episodes are rendered in one call, which may fail.
RenderReview ==
    /\ phase = "validate"
    /\ todo = {}
    /\ \/ UNCHANGED errors
       \/ /\ \E e \in Published : late[e] = "none"
          /\ errors' = errors \cup {"render"}
    /\ phase' = "close"
    /\ UNCHANGED <<kind, src, loose, disk, job, plan, rec, todo, ready, temp, rows, late, bounds>>

\* passed: no error and no row with a failure status, first or second.
Passed ==
    /\ errors = {}
    /\ \A e \in job.sel : rows[e] # "failed" /\ late[e] = "none"

\* process_summary.json, the last file of the run.
WriteSummary ==
    /\ phase = "close"
    /\ summary' = [passed |-> Passed, skipRender |-> job.skipRender, sel |-> job.sel,
                   frozen |-> job.frozen]
    /\ Leave
    /\ UNCHANGED <<kind, src, loose, made, man, bdir, cdir, beside, bounds>>

-----------------------------------------------------------------------------
(* What happens to the run and to its source *)

\* The processes are killed; directories not yet in place are never looked at again.
Crash ==
    /\ phase # "idle"
    /\ crashes < MaxCrashes
    /\ crashes' = crashes + 1
    /\ Leave
    /\ UNCHANGED <<kind, src, loose, disk, runs, changes>>

\* What becomes of a file of a tree when the file it came from gets a new version:
\* replaced, the two are apart; written in place, a linked file is written too.
Afterwards(file, version) ==
    {[version |-> file.version, linked |-> FALSE, edited |-> file.edited]}
        \cup IF file.linked THEN {[version |-> version, linked |-> TRUE, edited |-> TRUE]} ELSE {}

\* Somebody changes the source run after it was made: its masks, the files beside
\* them, or its summary.  The masks of a tree are never linked.
ChangeMasks(e) ==
    /\ src' = Source([src.masks EXCEPT ![e] = @ + 1], src.other, src.receipt, src.summary,
                     src.listed)
    /\ UNCHANGED <<loose, beside>>

ChangeOther(e) ==
    /\ src' = Source(src.masks, [src.other EXCEPT ![e] = @ + 1], src.receipt, src.summary,
                     src.listed)
    /\ \E file \in Afterwards(beside[e].other, src.other[e] + 1) :
          beside' = [beside EXCEPT ![e] = [other |-> file, loose |-> beside[e].loose]]
    /\ UNCHANGED loose

ChangeLoose(e) ==
    /\ kind = "frozen"
    /\ loose' = [loose EXCEPT ![e] = @ + 1]
    /\ \E file \in Afterwards(beside[e].loose, loose[e] + 1) :
          beside' = [beside EXCEPT ![e] = [other |-> beside[e].other, loose |-> file]]
    /\ UNCHANGED src

ChangeSummary ==
    /\ \E left \in SUBSET src.listed :
          src' = Source(src.masks, src.other, src.receipt, src.summary + 1, left)
    /\ UNCHANGED <<loose, beside>>

ChangeSource ==
    /\ src.summary > 0
    /\ changes < MaxChanges
    /\ changes' = changes + 1
    /\ \/ \E e \in Episode :
             /\ src.masks[e] > 0
             /\ ChangeMasks(e) \/ ChangeOther(e) \/ ChangeLoose(e)
       \/ ChangeSummary
    /\ UNCHANGED <<kind, made, man, bdir, cdir, summary, memory, runs, crashes>>

Next ==
    \/ Start \/ StartLive \/ OpenSource
    \/ \E e \in Episode : SourceEpisode(e)
    \/ CloseSource \/ SelectLive
    \/ PlanEpisode \/ MakeRun \/ FirstManifest \/ ResumeManifest
    \/ ScanEpisode \/ FinishScan
    \/ PlanReady \/ BeginRender \/ FinishRender \/ SaveRecord
    \/ FinishBackend \/ FinishWorker
    \/ PreparePublish \/ FailPublish \/ PublishTree \/ SkipTree \/ FinishPublish
    \/ ValidateEpisode \/ RenderReview \/ WriteSummary
    \/ Crash \/ ChangeSource

Spec == Init /\ [][Next]_vars

-----------------------------------------------------------------------------
(* Properties *)

\* What the manifest on disk calls complete has its directory in place, rendered by
\* the settings of the run, after a crash at any step as well; and a run closed as
\* complete has no other record.
CompleteRecordsStand ==
    /\ \A e \in Episode :
          man.rec[e] = "complete" => /\ bdir[e] # NoDir
                                     /\ bdir[e].config = man.config
                                     /\ man.plan[e] # None
    /\ man.status = "complete" => \A e \in man.sel : man.rec[e] = "complete"

\* A canonical tree was rendered from the very masks its lineage names, under the
\* plan and the settings its run was started with, although the source is read
\* once for the selection, once for the plan, once for rendering and once for
\* publication, and may change in between.
PublicTreesAreDerived ==
    \A e \in Episode : cdir[e] # NoTree =>
        /\ cdir[e].lineage = man.plan[e]
        /\ cdir[e].masks = cdir[e].lineage.masks
        /\ bdir[e] = [masks |-> cdir[e].masks, config |-> man.config]
        /\ cdir[e].config = man.config

\* A summary that says passed stands for published trees of the lineages it lists,
\* whatever is later resumed or changed; and when the run was rendered, no file of
\* a tree that the lineage names is of another version, unless somebody has since
\* written through a link to the source.  Files that no lineage names may be of any
\* version: nothing compares them with the time of the selection.
PassedMeansPublished ==
    summary.passed => \A e \in summary.sel :
        /\ cdir[e] # NoTree
        /\ cdir[e].lineage = summary.frozen[e]
        /\ ~summary.skipRender => \/ beside[e].other.version = summary.frozen[e].other
                                 \/ beside[e].other.edited

\* The file keeps its version, or it is the very file of the source and changes
\* with it.
KeptOrShared(file, file2, source, source2) ==
    file2.version # file.version =>
        file.linked /\ file.version = source /\ file2.version = source2

\* Neither a resume nor a crash nor another source rewrites what a run has fixed:
\* its settings, a plan, a backend directory, the masks and the manifest of a
\* canonical tree.  The other files of a tree change with the source they are
\* linked to and in no other way.
RecordsAreImmutable ==
    [][/\ man # NoManifest => man'.config = man.config /\ man'.sel = man.sel
       /\ \A e \in Episode :
             /\ man.plan[e] # None => man'.plan[e] = man.plan[e]
             /\ bdir[e] # NoDir => bdir'[e] = bdir[e]
             /\ cdir[e] # NoTree =>
                   /\ cdir'[e] = cdir[e]
                   /\ KeptOrShared(beside[e].other, beside'[e].other, src.other[e], src'.other[e])
                   /\ KeptOrShared(beside[e].loose, beside'[e].loose, loose[e], loose'[e])]_vars
=============================================================================
