------------------------------ MODULE UmiBatch ------------------------------
(***************************************************************************)
(* The fast driver of a prepared UMI batch (run_fast_batch).  It checks    *)
(* that it was given the selection it was started with, gives each GPU a   *)
(* worker process with its share of the jobs (run_worker, in detail        *)
(* UmiPipeline) and gathers their ledgers in one.  It may be killed: its   *)
(* workers do not notice, and the same command starts new ones beside      *)
(* them.                                                                   *)
(***************************************************************************)
EXTENDS UmiPrepare

CONSTANTS
    Worker,      \* one per GPU of --gpus
    MaxStarts,   \* bound of the model: starts of the driver
    MaxKills,    \* bound of the model: kills
    MaxAlive     \* bound of the model: worker processes alive at one time

Start == 1..MaxStarts

ASSUME BatchAssumption ==
    /\ Worker # {} /\ IsFiniteSet(Worker)
    /\ MaxStarts \in Nat \ {0}
    /\ MaxKills \in Nat
    /\ MaxAlive \in Nat

VARIABLES
    stateDir,      \* output/.pipeline exists
    selection,     \* selection.json, or None
    folder,        \* [Episode -> its output directory exists]
    identity,      \* [Episode -> its job.json exists]
    masks,         \* [Episode -> the start that made the published masks, or 0]
    video,         \* [Episode -> the start whose masks the overlay shows, or 0]
    workerLedger,  \* [Worker -> the rows of its ledger]
    results,       \* the rows of the batch's episode_results.json, or None
    status,        \* batch_status.json
    driver,        \* where the driver is
    start,         \* how often it was started
    resume,        \* [Start -> it found a selection]
    ledger,        \* its rows in memory
    proc,          \* [Start -> [Worker -> state of the process]]
    step,          \* [Start -> [Episode -> how far its worker got with it]]
    orphaned,      \* history: the driver was killed while workers ran
    setupBroken,   \* history: a kill or an error in the middle of the set-up
    refused,       \* the last start was refused for what it found in the output
    kills          \* kills that have happened

outputVars == <<stateDir, selection, folder, identity, masks, video>>
resultVars == <<workerLedger, results, status>>
driverVars == <<driver, start, resume, ledger>>
workVars == <<proc, step>>
historyVars == <<orphaned, setupBroken, refused, kills>>
vars == <<prepareVars, outputVars, resultVars, driverVars, workVars, historyVars>>

\* Rows of the ledgers: a worker's row is ready (reviewed) or not; in the
\* batch a job is queued, ready (needs_temporal_review) or failed, and any
\* other episode keeps its record of the plan.
WorkerRow == {"none", "ready", "unready"}
BatchRow == RowStatus \cup {"queued", "ready", "failed"}
Rows(f) == [rows |-> f]

Idle == {"none", "done", "failed", "dead"}
Step == {"todo", "made", "pending", "shown", "unshown", "ready", "unready"}

BatchTypeOK ==
    /\ TypeOK
    /\ stateDir \in BOOLEAN
    /\ \/ selection = None
       \/ /\ selection.jobs \subseteq Episode
          /\ selection.lists \in [selection.jobs -> SUBSET Episode]
          /\ selection.shard \in [selection.jobs -> Worker]
    /\ folder \in [Episode -> BOOLEAN]
    /\ identity \in [Episode -> BOOLEAN]
    /\ masks \in [Episode -> 0..MaxStarts]
    /\ video \in [Episode -> 0..MaxStarts]
    /\ workerLedger \in [Worker -> [Episode -> WorkerRow]]
    /\ results \in {Rows(f) : f \in [Episode -> BatchRow]} \cup {None}
    /\ status \in {"none", "running", "rendering_groups", "finished", "interrupted_or_failed"}
    /\ driver \in {"off", "select", "save", "run", "group", "unwind"}
    /\ start \in 0..MaxStarts
    /\ resume \in [Start -> BOOLEAN]
    /\ ledger \in [Episode -> BatchRow]
    /\ proc \in [Start -> [Worker -> Idle \cup {"validate", "identify", "scan", "run"}]]
    /\ step \in [Start -> [Episode -> Step]]
    /\ orphaned \in BOOLEAN
    /\ setupBroken \in BOOLEAN
    /\ refused \in BOOLEAN
    /\ kills \in 0..MaxKills

Init ==
    /\ PrepareInit
    /\ stateDir = FALSE
    /\ selection = None
    /\ folder = [e \in Episode |-> FALSE]
    /\ identity = [e \in Episode |-> FALSE]
    /\ masks = [e \in Episode |-> 0]
    /\ video = [e \in Episode |-> 0]
    /\ workerLedger = [w \in Worker |-> [e \in Episode |-> "none"]]
    /\ results = None
    /\ status = "none"
    /\ driver = "off"
    /\ start = 0
    /\ resume = [r \in Start |-> FALSE]
    /\ ledger = [e \in Episode |-> "none"]
    /\ proc = [r \in Start |-> [w \in Worker |-> "none"]]
    /\ step = [r \in Start |-> [e \in Episode |-> "todo"]]
    /\ orphaned = FALSE
    /\ setupBroken = FALSE
    /\ refused = FALSE
    /\ kills = 0

-----------------------------------------------------------------------------
(* run_fast_batch, until its workers run *)

\* select_jobs: a job per planned episode; its identity hashes the lists of
\* its group (manifest and episodes.jsonl), the clip and the code.
Jobs == PlannedSet
Lists == [e \in Jobs |-> manifest[groupOf[e]]]
Readable == \A e \in Jobs : numbered[e] # Torn

\* partition_jobs: every job to one worker, and none of the workers used idle.
Shards(jobs) ==
    {f \in [jobs -> Worker] :
        LET used == {f[e] : e \in jobs}
        IN used = Worker \/ Cardinality(used) = Cardinality(jobs)}

SameSelection == selection.jobs = Jobs /\ selection.lists = Lists

\* The three refusals of what an output holds.
Refusal ==
    \/ selection # None /\ ~SameSelection
    \/ selection = None /\ stateDir
    \/ selection # None /\ \E e \in Jobs : folder[e] /\ ~identity[e]

\* A driver is started when no preparation is under way and no other driver.
StartBatch ==
    /\ driver = "off"
    /\ doing = "idle"
    /\ start < MaxStarts
    /\ plan # None /\ Jobs # {} /\ Readable
    /\ start' = start + 1
    /\ refused' = Refusal
    /\ resume' = [resume EXCEPT ![start + 1] = selection # None]
    /\ driver' = IF Refusal THEN "off" ELSE IF selection = None THEN "select" ELSE "save"
    /\ ledger' = [e \in Episode |-> IF e \in Jobs THEN "queued" ELSE plan.rows[e]]
    /\ UNCHANGED <<prepareVars, outputVars, resultVars, workVars, orphaned, setupBroken, kills>>

\* write_json of the selection: the directory is made, then the file replaced.
WriteSelection ==
    /\ driver = "select"
    /\ stateDir' = TRUE
    /\ \E f \in Shards(Jobs) : selection' = [jobs |-> Jobs, lists |-> Lists, shard |-> f]
    /\ driver' = "save"
    /\ UNCHANGED <<prepareVars, folder, identity, masks, video, resultVars, start, resume, ledger,
                   workVars, historyVars>>

\* Killed, or out of space, between the two.
SelectionFails ==
    /\ driver = "select"
    /\ kills < MaxKills
    /\ kills' = kills + 1
    /\ stateDir' = TRUE
    /\ setupBroken' = TRUE
    /\ driver' = "off"
    /\ UNCHANGED <<prepareVars, selection, folder, identity, masks, video, resultVars, start,
                   resume, ledger, workVars, orphaned, refused>>

-----------------------------------------------------------------------------
(* save *)

\* A worker's ledger of an earlier start counts until it is written anew.
Merged(f) ==
    [e \in Episode |->
        IF \E w \in Worker : workerLedger[w][e] = "ready" THEN "ready"
        ELSE IF \E w \in Worker : workerLedger[w][e] = "unready" THEN "failed"
        ELSE f[e]]

Save(s, f) ==
    /\ ledger' = f
    /\ results' = Rows(f)
    /\ status' = s

\* save("running"), and the pool; the status follows the results.
SaveFirst ==
    /\ driver = "save"
    /\ results # Rows(Merged(ledger)) \/ status # "running"
    /\ ledger' = Merged(ledger)
    /\ \/ results' = Rows(Merged(ledger)) /\ UNCHANGED status
       \/ results = Rows(Merged(ledger)) /\ status' = "running" /\ UNCHANGED results
    /\ UNCHANGED <<prepareVars, outputVars, workerLedger, driver, start, resume, workVars,
                   historyVars>>

Launched == {selection.shard[e] : e \in selection.jobs}
AliveNow == {p \in Start \X Worker : proc[p[1]][p[2]] \notin Idle}

Launch ==
    /\ driver = "save"
    /\ results = Rows(Merged(ledger)) /\ status = "running"
    /\ Cardinality(AliveNow) + Cardinality(Launched) <= MaxAlive
    /\ driver' = "run"
    /\ proc' = [proc EXCEPT ![start] =
                    [w \in Worker |-> IF w \in Launched THEN "validate" ELSE "none"]]
    /\ UNCHANGED <<prepareVars, outputVars, resultVars, start, resume, ledger, step, historyVars>>

RoundSave ==
    /\ driver = "run"
    /\ ledger # Merged(ledger)
    /\ Save("running", Merged(ledger))
    /\ UNCHANGED <<prepareVars, outputVars, workerLedger, driver, start, resume, workVars,
                   historyVars>>

-----------------------------------------------------------------------------
(* run_worker: the steps of run_umi_pipeline that another process can see. *)
(* r is the start the worker belongs to.                                   *)

Share(w) == {e \in selection.jobs : selection.shard[e] = w}
At(r, w, s) == proc[r][w] = s
Goes(r, w, s) == proc' = [proc EXCEPT ![r][w] = s]
Alive(r, w) == proc[r][w] \notin Idle

\* The ledger holds a row of every job that got so far.
RowAt(s) == IF s = "ready" THEN "ready"
            ELSE IF s \in {"pending", "shown", "unshown", "unready"} THEN "unready" ELSE "none"
Persist(w, steps) ==
    workerLedger' = [workerLedger EXCEPT ![w] = [e \in Episode |->
                        IF e \in Share(w) THEN RowAt(steps[e]) ELSE "none"]]

workerFrame == <<prepareVars, stateDir, selection, driverVars>>

\* Slip: masks of an earlier start are made again.
CompleteNever(r, e) == FALSE

Complete(r, e) == resume[r] /\ masks[e] # 0

\* An API key is needed for what is not complete; then validate_umi_jobs again: an
\* orphan may have been at work since the driver did.
WorkerValidates(r, w) ==
    /\ At(r, w, "validate")
    /\ \/ Goes(r, w, IF \E e \in Share(w) : folder[e] /\ (~resume[r] \/ ~identity[e])
                     THEN "failed" ELSE "identify")
       \/ (\E e \in Share(w) : ~Complete(r, e)) /\ Goes(r, w, "failed")
    /\ UNCHANGED <<workerFrame, folder, identity, masks, video, resultVars, step, historyVars>>

\* One job after another: its directory, then the file that names its owner.
WorkerIdentifies(r, w) ==
    /\ At(r, w, "identify")
    /\ \E e \in Share(w) :
          /\ ~identity[e]
          /\ \A d \in Share(w) \ {e} : folder[d] => identity[d]
          /\ folder' = [folder EXCEPT ![e] = TRUE]
          /\ \/ identity' = [identity EXCEPT ![e] = TRUE]
             \/ ~folder[e] /\ UNCHANGED identity
    /\ UNCHANGED <<workerFrame, masks, video, resultVars, proc, step, historyVars>>

\* Slip: a directory is enough.
WorkerScansFolders(r, w) ==
    /\ At(r, w, "identify")
    /\ \A e \in Share(w) : folder[e]
    /\ Goes(r, w, "scan")
    /\ Persist(w, [e \in Episode |-> "todo"])
    /\ UNCHANGED <<workerFrame, folder, identity, masks, video, results, status, step, historyVars>>

\* The pipeline's first ledger is empty; then what is complete is found, and
\* Qwen and SAM are brought up for the rest.
WorkerScans(r, w) ==
    /\ At(r, w, "identify")
    /\ \A e \in Share(w) : identity[e]
    /\ Goes(r, w, "scan")
    /\ Persist(w, [e \in Episode |-> "todo"])
    /\ UNCHANGED <<workerFrame, folder, identity, masks, video, results, status, step, historyVars>>

WorkerStarts(r, w) ==
    /\ At(r, w, "scan")
    /\ Goes(r, w, "run")
    /\ step' = [step EXCEPT ![r] = [e \in Episode |->
                    IF e \in Share(w) /\ Complete(r, e) THEN "pending" ELSE @[e]]]
    /\ UNCHANGED <<workerFrame, folder, identity, masks, video, resultVars, historyVars>>

\* Qwen is not healthy, or SAM cannot be loaded.
WorkerStartFails(r, w) ==
    /\ At(r, w, "scan")
    /\ \E e \in Share(w) : ~Complete(r, e)
    /\ Goes(r, w, "failed")
    /\ Persist(w, [e \in Episode |-> "unready"])
    /\ UNCHANGED <<workerFrame, folder, identity, masks, video, results, status, step, historyVars>>

InHand(r, w) == {e \in Share(w) : step[r][e] = "made"}
StepTo(r, e, s) == step' = [step EXCEPT ![r][e] = s]

\* SAM publishes the masks of a job, or fails; one job at a time.
SamPublishes(r, w, e) ==
    /\ At(r, w, "run")
    /\ e \in Share(w) /\ step[r][e] = "todo" /\ InHand(r, w) = {}
    /\ masks' = [masks EXCEPT ![e] = r]
    /\ StepTo(r, e, "made")
    /\ UNCHANGED <<workerFrame, folder, identity, video, resultVars, proc, historyVars>>

SamEnds(r, w, e) ==
    /\ At(r, w, "run")
    /\ e \in Share(w)
    /\ \E s \in {"pending", "unshown"} :
          /\ \/ step[r][e] = "made"
             \/ step[r][e] = "todo" /\ InHand(r, w) = {} /\ s = "unshown"
          /\ StepTo(r, e, s)
          /\ Persist(w, [step[r] EXCEPT ![e] = s])
    /\ UNCHANGED <<workerFrame, folder, identity, masks, video, results, status, proc, historyVars>>

\* render_job shows the masks it finds in place; it may fail.
RenderShows(r, w, e) ==
    /\ At(r, w, "run")
    /\ e \in Share(w) /\ step[r][e] = "pending"
    /\ \/ video' = [video EXCEPT ![e] = masks[e]] /\ StepTo(r, e, "shown")
       \/ UNCHANGED video /\ StepTo(r, e, "unshown")
    /\ UNCHANGED <<workerFrame, folder, identity, masks, resultVars, proc, historyVars>>

CollectReview(r, w, e) ==
    /\ At(r, w, "run")
    /\ e \in Share(w) /\ step[r][e] \in {"shown", "unshown"}
    /\ LET s == IF step[r][e] = "shown" THEN "ready" ELSE "unready"
       IN StepTo(r, e, s) /\ Persist(w, [step[r] EXCEPT ![e] = s])
    /\ UNCHANGED <<workerFrame, folder, identity, masks, video, results, status, proc, historyVars>>

\* What a worker had in memory is gone with it.
Exits(r, W) ==
    step' = [step EXCEPT ![r] = [e \in Episode |->
                IF \E w \in W : e \in Share(w) THEN "todo" ELSE @[e]]]

WorkerEnds(r, w) ==
    /\ At(r, w, "run")
    /\ \A e \in Share(w) : step[r][e] \in {"ready", "unready"}
    /\ Goes(r, w, "done")
    /\ Exits(r, {w})
    /\ UNCHANGED <<workerFrame, folder, identity, masks, video, resultVars, historyVars>>

\* A fatal CUDA error, an interrupt or any other exception: reviews that were
\* submitted are collected, the job in hand and the rest are not ready.
WorkerFails(r, w) ==
    /\ At(r, w, "run")
    /\ Cardinality({e \in Share(w) : step[r][e] \in {"made", "pending"}}) <= 1
    /\ LET last == [e \in Episode |-> IF e \notin Share(w) THEN step[r][e]
                                      ELSE IF step[r][e] \in {"shown", "ready"} THEN "ready"
                                      ELSE "unready"]
       IN Persist(w, last)
    /\ Goes(r, w, "failed")
    /\ Exits(r, {w})
    /\ UNCHANGED <<workerFrame, folder, identity, masks, video, results, status, historyVars>>

\* A worker dies, or the identity of a job cannot be written.  The pool ends the
\* other workers with the first that dies, unless the driver is gone itself.
WorkerDies(r, w) ==
    /\ Alive(r, w)
    /\ kills < MaxKills
    /\ kills' = kills + 1
    /\ LET W == IF driver # "off" /\ r = start THEN {v \in Worker : Alive(r, v)} ELSE {w}
       IN \/ /\ proc' = [proc EXCEPT ![r] = [v \in Worker |-> IF v \in W THEN "dead" ELSE @[v]]]
             /\ Exits(r, W)
          \/ /\ At(r, w, "identify")
             /\ Goes(r, w, "failed")
             /\ UNCHANGED step
    /\ setupBroken' = (setupBroken \/ \E e \in selection.jobs : folder[e] /\ ~identity[e])
    /\ UNCHANGED <<workerFrame, folder, identity, masks, video, resultVars, orphaned, refused>>

-----------------------------------------------------------------------------
(* run_fast_batch, from its loop on *)

Ended(w) == ~Alive(start, w)
Lost(w) == proc[start][w] \in {"failed", "dead"}

\* Slip: the first worker that is done ends the loop.
FirstDone ==
    /\ driver = "run"
    /\ \E w \in Worker : At(start, w, "done")
    /\ \A w \in Worker : ~Lost(w)
    /\ driver' = "group"
    /\ Save("rendering_groups", Merged(ledger))
    /\ UNCHANGED <<prepareVars, outputVars, workerLedger, start, resume, workVars, historyVars>>

AllDone ==
    /\ driver = "run"
    /\ \A w \in Worker : Ended(w) /\ ~Lost(w)
    /\ driver' = "group"
    /\ Save("rendering_groups", Merged(ledger))
    /\ UNCHANGED <<prepareVars, outputVars, workerLedger, start, resume, workVars, historyVars>>

\* A worker failed, the user interrupts, or the sheets of a group cannot be made.
BatchFails ==
    /\ driver \in {"run", "group"}
    /\ driver' = "unwind"
    /\ UNCHANGED <<prepareVars, outputVars, resultVars, start, resume, ledger, workVars,
                   historyVars>>

\* The pool has waited for the workers; jobs no worker has a row of were not run.
Unwind ==
    /\ driver = "unwind"
    /\ \A w \in Worker : Ended(w)
    /\ driver' = "off"
    /\ LET last == Merged(ledger)
       IN Save("interrupted_or_failed",
               [e \in Episode |-> IF last[e] = "queued" THEN "failed" ELSE last[e]])
    /\ UNCHANGED <<prepareVars, outputVars, workerLedger, start, resume, workVars, historyVars>>

\* The ledgers, sheets and summaries of the groups, then the last save.
Finish ==
    /\ driver = "group"
    /\ driver' = "off"
    /\ Save("finished", Merged(ledger))
    /\ UNCHANGED <<prepareVars, outputVars, workerLedger, start, resume, workVars, historyVars>>

\* Killed: the workers finish what they were given.
DriverDies ==
    /\ driver # "off"
    /\ kills < MaxKills
    /\ kills' = kills + 1
    /\ driver' = "off"
    /\ orphaned' = (orphaned \/ \E w \in Worker : Alive(start, w))
    /\ UNCHANGED <<prepareVars, outputVars, resultVars, start, resume, ledger, workVars,
                   setupBroken, refused>>

-----------------------------------------------------------------------------
WorkerStep ==
    \E r \in Start, w \in Worker :
        \/ WorkerValidates(r, w) \/ WorkerIdentifies(r, w) \/ WorkerScans(r, w)
        \/ WorkerStarts(r, w) \/ WorkerStartFails(r, w) \/ WorkerEnds(r, w)
        \/ WorkerFails(r, w) \/ WorkerDies(r, w)
        \/ \E e \in Episode : SamPublishes(r, w, e) \/ SamEnds(r, w, e)
                                  \/ RenderShows(r, w, e) \/ CollectReview(r, w, e)

DriverStep ==
    \/ StartBatch \/ WriteSelection \/ SelectionFails \/ SaveFirst \/ Launch \/ RoundSave
    \/ AllDone \/ BatchFails \/ Unwind \/ Finish \/ DriverDies

\* Preparing and running are not to be done at the same time (docs/umi_batch.md).
Prepares ==
    /\ driver = "off"
    /\ \A r \in Start, w \in Worker : ~Alive(r, w)
    /\ PrepareNext
    /\ UNCHANGED <<outputVars, resultVars, driverVars, workVars, historyVars>>

Next == Prepares \/ DriverStep \/ WorkerStep

Spec == Init /\ [][Next]_vars

-----------------------------------------------------------------------------
Ready(e) == results # None /\ results.rows[e] = "ready"

\* What a reviewer sees is what the batch delivers: the overlay of a row that is
\* up for review shows the very masks that are published, over any number of
\* interrupted and resumed starts -- unless the driver was once killed while its
\* workers ran, who may then publish after the new ones have rendered.
ReviewShowsMasks ==
    \A e \in Episode : Ready(e) =>
        /\ masks[e] # 0 /\ video[e] # 0
        /\ video[e] = masks[e] \/ orphaned

\* A batch that says it is finished has the last word of every job's worker: all
\* workers of some start were done, and the rows are what they reported.
FinishedIsWhole ==
    status = "finished" /\ ~orphaned =>
        /\ \E r \in Start : \A e \in selection.jobs : At(r, selection.shard[e], "done")
        /\ \A e \in selection.jobs :
              results.rows[e] = IF workerLedger[selection.shard[e]][e] = "ready"
                                THEN "ready" ELSE "failed"

\* The same command goes on after any failure or interrupt; what it finds is
\* refused only after another preparation, or after a death in the middle of the
\* set-up, between a directory and the file that names its owner (which workers
\* left alone by a killed driver may be at just now).
RefusedForAReason ==
    [][start' # start /\ refused' /\ ~setupBroken /\ ~orphaned =>
           selection # None /\ (selection.jobs # Jobs \/ selection.lists # Lists)]_vars

=============================================================================
