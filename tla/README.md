# Formal model of the RoboTwin annotation pipeline

This directory holds TLA+ models of `robotwin_annotation_v2`, TLC configurations
that check them on small instances, and TLAPS proofs. The program turns robot
recordings into per-frame masks: it finds the grasp and place of every episode,
asks Qwen what the objects are, lets SAM3 segment them, replaces the gripper masks
by ones rendered from the URDF, and publishes the result. The arithmetic on images
is not modelled. What is modelled is the control around it: several processes and
threads, pipes and queues that fill, GPUs that die, runs that are killed and resumed,
and directories of files that must stay consistent with each other all along.

Paths below are relative to `src/src/robotwin_annotation_v2/`, unless they start
with `docs/`, `tests/` or `scripts/`, which are under `src/`.

## 1. Inventory

| Component | State it keeps | Operations | Correct when |
|---|---|---|---|
| SAM worker pool (`application/parallel_sam_runtime.py`, `parallel_sam_protocol.py`) | queue of commands, command in flight per worker, worker phases, retry budgets, outcomes; a process and two pipes per GPU | launch, dispatch, receive, time out, relaunch, retire, give up, stop | every episode gets one outcome, no two processes work on one, no worker's loss costs more than that worker, the call comes back |
| Streaming runtime (`application/urdf_runtime.py`, `streaming.py`) | two child processes, a pipe from each, a bounded queue and a backlog between them | announce, forward, offer, sentinel, notice death, terminate, join | the stream is neither cut, doubled nor reordered, the source is held back, no child is left but by the named windows |
| UMI pipeline (`application/umi_pipeline.py`) | plan futures, review futures, the ledger, job identities and masks on disk, Qwen tokens | submit, plan, SAM, publish, review, collect, unwind, resume | every job is accounted for, no review is lost by one interrupt of the loop, no work is repeated, QC is not starved |
| UMI batch (`application/umi_batch.py`, `scripts/run_umi_fast_batch.py`) | inventory, judgements, conversions, group lists and plan on disk; the selection, a worker process and a ledger per GPU, the merged ledger | screen, convert, assemble; start, launch workers, merge, finish, resume | a conversion is not thrown away, the plan names what is there, a resume is refused only for a reason, the review shows the masks that are published |
| SAM workflow (`application/sam_workflow.py`, `episode_pipeline.py`, `sam_artifacts.py`) | files of each episode, receipts, `process_summary.json` | scan, execute (alone or in the pool), receipt, summarise | a complete episode is the work of one execution, the summary is true, receipted files never change |
| URDF workflow (`application/urdf_workflow.py`, `urdf_batch.py`, `urdf_gripper_publisher.py`) | the backend's manifest and episode directories, canonical trees, the summary; a source run that is read several times | select, plan, make or resume a run, scan, render, publish, validate, summarise | the masks of a published tree are derived from the very source it names, and nothing fixed is rewritten but through a hard link to the source |
| Managed Qwen (`application/managed_qwen.py`, `scripts/manage_qwen_process.py`, `scripts/serve_qwen.py`) | a server process, who owns it, signals | reuse, start, wait until ready, stop | only the owner stops the server, and none outlives its owner |
| Qwen stage, object masks (`pipeline/qwen_stage.py`, `sam_stage.py`, `object_mask/`, `mask_qc.py`) | attempts, candidates, QC verdicts per role | plan, text attempts, bbox rescue, temporal QC, quarantine | the tracked mask is the one QC accepted, a box is drawn only after every text attempt, pixels known to be wrong stay out |
| Gripper stage (`pipeline/gripper/sam/`) | prompted frames, two banks of candidates, the seed | load the saved tracks, prompt, choose or fall back, propagate | the gripper starts from the least bad seed there is, beside accepted objects only |
| State timeline (`pipeline/timeline_detector.py`, `state_loop.py`, `models/timeline.py`) | none | detect loops and holds, derive windows and seed frames | no gesture is overlooked, no later stage refuses what it hands on |
| Discovery, configuration, converters, renderer, terminal UI, reports | none that is shared | parsing, conversion, drawing | outside the models, see section 7 |

How they interact. `dataset_runtime.py` binds the command line to one of two
workflows. `SamWorkflow` runs its episodes itself or hands them to the **worker
pool**, which answers through pipes and announces finished episodes by callback. A
live `UrdfWorkflow` runs a SAM workflow in a child process; in the **streaming**
runtime the finished episodes of that child go through the parent into a queue of a
second child, which renders them while the source is still running. Whatever way the
source was made, the **publisher** reads the source directory and the backend
directory and makes the canonical tree. The **UMI pipeline** calls the same episode
functions from its own threads; the **fast batch** runs one such pipeline per GPU over the
clips that the preparation has converted and grouped. All of them share the Qwen gate (`adapters/qwen_client.py`)
and the artifact store (`adapters/artifact_store.py`), which moves each file into place
by a rename; a *set* of files is not atomic anywhere.

The hard behaviours follow from that: timeouts racing late answers, relaunches over
pipes that are still polled, processes that outlive their parent, bounded buffers
that make everyone wait, one fatal CUDA error in the middle of a batch, kills between
two files, resumes that trust what they find, and a source directory read at four
different moments. `PROJECT.json` lists them, each at its line.

## 2. Modules

`EpisodeBatch` is the abstract promise of a batch: each episode is started at most
`MaxAttempts` times and gets one outcome that never changes, and a batch is handed
back only when all have one.

`SamPool` models the coordinator and the workers. The coordinator is one thread; what
it can do in a round is one action each: `Launch`, `Dispatch`, `ReceiveReady`,
`ReceiveOutcome`, `ReceiveFailure`, `NoticeExit`, `Timeout`, `GiveUp`, `Finish`,
`StopWorkers`. The bodies shared by the failure paths (`handle_failure`) are `TakeBack`
(what becomes of the episode), `CountFailure` (which budget pays) and `MayRelaunch`. A
worker is `proc[w]`, with `toWorker` and `toPool` as its pipes. Time is not counted: a
phase may have lasted too long at any moment, which covers every value of the
timeouts. `ImplementsBatch` is the refinement of `EpisodeBatch`.

`Streaming` models the parent and its two children, one action per step that
another process can see. A pipe holds `PipeSize` messages and a writer blocks on a
full one, which is what makes the termination hang visible. `StartUrdf`, `StartSource` and
`StartFails` start the children, one after the other, before the block that joins them.
The user may interrupt anywhere: `Interrupt` strikes in the loop, whose `except` and `finally` then deal
with the children; `BreakOff` strikes outside the `try` (`Unguarded`: between the two starts and the `try`, or in the
joins of the `finally`), and the call is over at once with whatever is still running. `brokenOff` remembers where.

`UmiPipeline` models the main thread (the program counter `at`), the planner threads,
the renderer and what survives a crash. `SubmitUpTo` is `submit_next`. The way out after an
interrupt is modelled wait by wait, and each may be interrupted again: the executors drain (`LeaveRenders`,
`LeavePlanners`, cut short by `CutRenders`, `CutPlanners`), the reviews that are done are collected
(`CollectReview`, `CollectEnds`, `CutCollect`) and the rows are marked (`Mark`, `CutMark`). `DropReview` is the
moment between the `pop` of a review and the storing of its row. `cut` and `dropped` remember which of this happened. A
write of the ledger that fails or is interrupted at the very end leaves on disk what a kill leaves, and counts as `Crash`; a
plan that is popped and not yet the active job counts as not taken.

`UmiPrepare` models the preparation commands of a UMI batch (`initialize_batch`,
`screen_batch`, `prepare_batch`) over one directory: any of them may be given again, killed at
any point, and find that a recording, its evidence or the question put to Qwen has
changed. A file is the version of what it was made from; the lists of a group are written one by
one (`NumberFrames`, `ListGroup`) before the plan (`WritePlan`), and `Torn` stands for a
clip whose numbers are in the middle of being written.

`UmiBatch` extends it by the driver of the fast batch (`run_fast_batch`) and its workers
(`run_worker`): for each start of the driver and each GPU a process `proc[r][w]`, whose steps are
those of `run_umi_pipeline` that others can see. What a worker does inside is
`UmiPipeline`. A killed driver leaves its workers behind, and the next start puts new ones
beside them; `orphaned` and `setupBroken` remember that such a thing has happened, so the
properties can name their exceptions.

`SamRun` models a run id started again and again over one directory. A file is the
number of the execution that wrote it, so "these files belong together" is an equation.
`Write` moves one file into place; a crash can fall between any two. Orphaned pool
workers go on writing after their coordinator was killed.

`UrdfRun` models a run of the URDF workflow, from the source to the summary, over
kills, resumes and changes of the source. A file is the version of its content. The
lineage that a plan or a tree states is a record of versions, and the properties
compare what is stated with what is there. The files of a source episode are three: its masks, the
others that a lineage names (`other`), and those that are published and no lineage names (`loose`): the
lineage of a frozen source covers the loop and the tracks of the roles, not the semantic plan, the mask QC and the
Qwen texts. `PublishTree` hard-links the last two into the tree, or copies them where no link can be made
(`Materialized`, kept in `beside`), so a change of the source is of one of two kinds (`Afterwards`): the file is
replaced, and the tree keeps the old one, or it is written in place, and a linked tree changes with it.

`ManagedQwen` models several managers (`manage_qwen_process.py`) that share one endpoint.
A manager stands at `at[m]`, its server and its child run beside it in sessions of their
own. A signal is an exception in the manager's only thread: `AfterSignal` says, for each
place it can strike, which clean-up is still ahead (`except` of `_start`, `finally` of
`_run_process`, `__exit__`). `hit` remembers where, so the properties can name the exact
windows in which the clean-up is lost. Borrowers are there too: one whose server belongs to
another manager loses it when that one leaves, which the code does not try to prevent.

`Timeline` has no state: it is stage 1 as operators on a signal, from the median filter
to the loops of an arm, the hold of a target-only episode, the windows and the frames
offered as seeds. Apertures are a few levels; where the motion starts is taken at the two
extremes of its range. `ArmLoops` is a recursive function over the frame from which the
search goes on.

`MaskStage` is one episode from its signal to its masks: `DetectLoop`, `DetectHold`
and `ReadWindow` make the context, `Plan` is Qwen's answer, `TryText`, `TryBox` and
`Settle` are the seed QC of each role (`ObjectMaskResolver.resolve`), `Skip`, `SeedIsEmpty`
and `Track` are `sam_stage._run_role` with the temporal QC. A mask is the method, frame and
letter it came from; letters are used again at each seed, which is what could go wrong.
A stage that refuses what the one before gave it raises: `at = "raised"`.

`GripperStage` extends it by the stage that follows: `LoadTracks` reads back what was saved,
`BuildTextBank` and `BuildBoxBank` prompt SAM at the key frames, `QwenChooses` or
`FallbackChooses` takes a seed, `Propagate` tracks it. A candidate has a rank: nothing left of
it, some mechanical check failed, all passed. Unlike the object stage this one goes on
when Qwen refuses every candidate; the property says what it goes on with.

`SamPoolProofs`, `StreamingProofs`, `UmiPipelineProofs`, `UmiBatchProofs` (with `UmiPrepare`), `SamRunProofs`,
`UrdfRunProofs`, `ManagedQwenProofs` and `EpisodeStageProofs` (`MaskStage` and `GripperStage`) hold the proofs.
`MC*` modules give the lists of episodes, the signals and the video windows, and symmetry
where it is sound (`SamPool_safety`, `UmiBatch_safety`: workers are interchangeable, no liveness in the run).

Operators with a comment that starts with "Slip" are wrong versions of the definition
that follows them, the kind of change that an edit could bring in. Nothing uses them;
putting one in place of the definition makes the property named beside it in
`PROJECT.json` ("mutants") fail, which shows that the property depends on that code.

## 3. Runs

| Run | Instance | Kind | Shows |
|---|---|---|---|
| `SamPool_safety` | 2 workers, 2 episodes, budgets as in the code (2, 2, 1) | safety + refinement | conservation and exclusivity of episodes, the protocol, the give-up rule, `EpisodeBatch` |
| `SamPool_live` | 2 workers, 1 episode | liveness | the coordinator returns; orphans leave their GPUs |
| `SamPool_relaunch` | as safety | violation | a worker lost by message and not relaunched ends the batch |
| `Streaming_safety` | 3 episodes, queue of 1, pipes of 2 | safety + liveness | stream conserved, back-pressure, whole results, the exact windows in which a child is left, the call returns unless the source is stuck on its pipe |
| `Streaming_sigterm` | as safety | violation | that stuck source |
| `UmiPipeline_safety` | 3 jobs, prefetch 2, 1 or 2 tokens, 2 starts | safety + liveness | ledger and reviews over interrupts anywhere, masks, bounds, resume |
| `UmiBatch_safety` | 2 clips in 2 groups, 2 GPUs, 5 commands, 1 fault, 2 starts, 1 kill | safety + action property | conversions kept, a plan that is backed, reviews of the published masks, a finished batch that is whole, refusals with a reason |
| `SamRun_safety` | 2 episodes, 2 starts, 2 faults | safety | files of one execution, true summaries, immutable receipts |
| `UrdfRun_safety` | 2 episodes, 2 configurations, 3 starts, 1 kill, 1 change | safety + action property | derivation, immutability but for hard links, what "passed" means |
| `ManagedQwen_safety` | 2 managers, 2 models, 2 signals, 1 kill | safety + liveness | which servers stay behind, that a run keeps its server, that a signalled manager leaves |
| `GripperStage_safety` | 11 frames, 3 levels, 2 seeds, 2 prompted frames | safety | the timeline, the object masks and the gripper of an episode, one after another |
| `Timeline_loops` | 10 frames, objects only | violation | a second gesture right after the first is not seen |

Why the bounds are enough. Two workers and two episodes are the least with which an
episode can be taken from one worker and given to another while a second one is
waiting; the retry budgets are the code's own (`MAX_EPISODE_ATTEMPTS`,
`MAX_STARTUP_ATTEMPTS`, `MAX_IDLE_RESTARTS`). Three streamed episodes fill the queue
of one, the backlog and the source's pipe at once. Three UMI jobs with a window
of two have one planned, one in SAM and one in review. Two starts of `SamRun` give a
crashed run, its orphans and its successor. Two clips in two groups are the least with which an
assembly can be killed between two groups and a start can split its work between GPUs; five
commands are inventory, screening and preparation and two of them again after a change. Two starts
of the driver are a killed one, with its orphans, and a resume; `Scope` leaves out, in the driver's
part, what only repeats the preparation: see the comment in `MCUmiBatch`. Within it no restart
finds another preparation, so that branch of `RefusedForAReason` is covered by its proof only. Three starts of `UrdfRun` give a first
run, a resume that is killed or refused, and another resume, around a change of the source that
may fall between any two reads. Two managers are the least for one to
borrow from the other, and two signals for one to strike in the clean-up of the first.
Eleven frames are the least for a gesture to be missed that begins one frame after the search starts
over (a stable run is two frames); the run takes the 11664 signals over three levels (closed, between,
open) that begin open, as recordings do, and are only closed or open after frame 6, so the boundary of every comparison is met; how
other signals begin and end is covered by the proofs. Two seeds are the least for an attempt to fail
at one and pass at the other, two prompted frames (`MaxPrompts`) for a bank to be good in
part. `UrdfRun` also passes with two starts and two changes.
`MaxRuns`, `MaxFaults`, `MaxCrashes`, `MaxChanges`, `MaxSignals`, `MaxKills`, `MaxCommands`,
`MaxStarts`, `MaxAlive` (worker processes at one time) and `MaxPrompts`
bound the model and stand for nothing in the code (which has up to seven key frames).

Deadlock checking is off where the system is meant to stop: a batch that has returned,
raised or crashed, a run that nobody starts again, an episode that is done.

## 4. Fairness

Safety runs assume none. `SamPool!FairSpec` is weakly fair to the coordinator, a loop
that never blocks for good because every wait has a timeout, and to a worker only once
its coordinator is dead: a *watched* worker may hang for ever, and the coordinator must
cope. `Streaming!FairSpec` is weakly fair to each of the three processes; none of
them waits for anything but the other two, and `SourceDies` and `UrdfDies` are never
forced. `UmiPipeline!FairSpec` is weakly fair to the main thread, to the planner pool
and to the renderer as long as the process lives: the calls they wait for have
timeouts or end by themselves. `ManagedQwen!FairSpec` is weakly fair to the steps of
each manager, whose waits all have a limit, and to nothing else: servers and children may
ignore every signal but SIGKILL.

## 5. What is proved

`SamPoolProofs` proves, for any set of workers, any list of distinct episodes and any
budgets (`PoolAssumption`):

* `TypeCorrect`: `Spec => []TypeOK`. The type invariant bounds the failure counters, so
  it is not inductive alone: a count may only grow while it is below its bound, which is so
  because a worker that reached it was retired, and a retired worker is not watched. The
  strengthening is `CoreInv == TypeOK /\ Budgets /\ BusyHolds`: a watched worker has
  budget left, and exactly the busy workers hold a command. Every path of
  `handle_failure` goes through one lemma, `LossKeepsCore`.
* `NoEpisodeLostOrDoubled`: `Spec => []EpisodeConserved`. An episode is in exactly one of
  the queue, one worker's hands and the outcomes. It is inductive beside `CoreInv`; the
  lemmas state what the three moves do to it (`DispatchConserves`, `SettleConserves`,
  `RequeueConserves`), and the sequence lemmas `TailHolds` and `PrependHolds` what
  taking from and returning to the front of the queue does to its members.

* `EpisodesAreExclusive`: `Spec => []ExclusiveEpisode`. The property speaks of processes, which
  the coordinator does not see; `WorkInv` ties them to its books. A command that a live
  process holds, in its pipe or in its hands, is the one the coordinator expects an answer
  to, or its episode is settled (`HeldIsExpected`), and no episode is held twice
  (`HeldByOne`). The lemma `LossKeepsWork` is the point of it: `handle_failure` leaves a
  process alone only when its episode needs no answer, because as long as an attempt is
  left the worker may be relaunched, and a relaunch kills first.
* `GivenUpOnlyWithoutWorkers`: `Spec => []NotRunOnlyWithoutWorkers`: a retired worker is never
  started again, and nothing but `GiveUp` reports an episode as not run.
* `NoMessageIsUnexpected` (`[]MessagesExpected`) and `NothingWorksOnWhatIsSettled`
  (`[]NoWorkOnSettledEpisode`), both from `TalkInv`. A watched worker owes at most one answer, which
  is in its pipe or still to be worked for (`Conversation`); a relaunch empties both pipes with the
  process, so nothing of a former life is left to be read. A retired worker's process is dead or has
  nothing in hand, or every episode is settled (`LeftAlone`).
* `PoolImplementsBatch`: `Spec => ImplementsBatch`, the refinement of `EpisodeBatch`. The mapping reads the stage
  of an episode from the coordinator's books (queue, worker in charge, outcomes); `MappingReads` says what it reads for
  each place an episode can have under `EpisodeConserved`. Every move of an episode is then one step
  of the batch (`DispatchStarts`, `RequeueRequeues`, `SettleFinishes`, `GiveUpMaps`, `ReturnsAll`),
  `OthersKeepTheirPlace` says that the other episodes stay where they are, and `StepMaps` that every other step stutters.
* The premises of `Terminates`. `EveryStepIsPaid`: every step of the coordinator lessens one of four budgets and leaves
  those before it alone (`Paid`): the stages of the run, the attempts of the episodes, the idle restarts, the starts of
  the (finitely many) workers; what the workers do adds to none. The second is read off the abstract batch (`EpisodePays`). That a worker which
  came up may fail to start as often again is why the order matters: it had an episode or an idle
  restart to lose first (`LossIsPaid`). `CoordinatorNeverWaits` (`[]CoordinatorGoesOn`): until the batch is over the coordinator has a step of its own, whatever
  its workers do. A worker that is starting or busy runs out of time; an idle one is given work or found dead;
  and if there is neither, `EpisodeConserved` leaves every episode settled or to be given up.
* `OrphansLeaveTheirGpus`, the liveness property `OrphansExit`. With the pipes closed a worker only moves towards its
  end (`OrphanMovesOut`), nobody starts a new one (`OnlyWorkersMove`), and four stages are left one after the other.

`StreamingProofs` proves, for any episodes, queue capacity and pipe size
(`StreamingAssumption`), and through every failure, death and interrupt:

* `StreamTypes`, `SourceIsHeldBack` (`[]BackPressure`) and `CallLeavesNoChild`
  (`[]NoChildLeft`), from `IInv`. The last needs `JoinedInOrder`: the parent is past the first join
  only when the source has ended, and no child ever comes back. It says exactly when a child outlives the
  call: a source, when the parent is interrupted between its start and the `try` or while it joins the
  source; a URDF process, then too, or in its own join, or when the source is never started. An
  interrupt of the loop, a second one on the way to the joins included, leaves none.
* `SentinelEndsStream` (`[]SentinelIsLast`), which speaks of the queue, the backlog and a pipe at
  once. Its strengthening `EndInv` follows the end of the stream through all three: a source
  that sent its result announces nothing more, in the pipe nothing ready is behind the
  result, and a sentinel in the queue means that it was sent, once, after all that.
* `EveryEpisodeInItsPlace` (`[]StreamConserved`): what has been produced is the renderer's records, the
  episode it has in hand, the queue, the backlog and the pipe, one after the other. The episodes of a stream
  (`Episodes`, a recursion over it) are those of its parts in their order (`EpisodesInOrder`); `Told` is the
  stream from end to end, and a lemma for each move (`ToldMore`, `ToldReceived`, `ToldOffered`, `ToldEnd`,
  `ToldTaken`, `ToldRendered`) says that it tells the same, or one episode more.
* `ReturnedResultIsWhole` (`[]ReturnedIsWhole`), from `Flows == IInv /\ EndInv /\ StreamConserved /\ Ending`: a result of
  the URDF process means that it took the sentinel with nothing left before it (`Ending`), and by
  `StreamConserved` its records are then all that was produced.
* The premises of `Terminates`. `EveryStepIsProgress`: every step of anybody, failures and deaths included,
  lessens `WorkLeft`, which weighs the episodes not yet announced, what each process has ahead of it and the
  messages by the hands they must still pass through. `SomebodyCanMove` (`[]SomebodyMoves`): while the call has not
  come back one of the three has a step, unless the source it terminated is stuck writing to its pipe. Its
  strengthening `Awaited` says that whatever somebody waits for has been sent.

`UmiPipelineProofs` proves, for any number of jobs, any prefetch and planning threads
(`UmiAssumption`), and through every failure, interrupt, crash and resume:

* `LedgerTellsTheTruth` (`[]RowsClaimPublishedMasks`) and `MasksAreMadeOnce`
  (`[]NoWorkRepeated`), from `IInv`. The first is inductive with the rows the renderer and
  the pending reviews still hold (`ClaimsAreBacked`). The second is not: a queued plan has
  no masks because the masks that are there were found when the run started or made by a
  job whose plan was taken, and jobs are submitted in order (`MasksAreKnown`,
  `PlansInOrder`). Outside the loop that says nothing yet, so a run without `resume` must
  start on empty output.
* `PrefetchIsBounded` (`[]PlansBounded`) and `QcHasItsToken` (`[]QcNeverWaits`), from `Counts`: a
  job is submitted only in place of one that was taken (`WindowStep`), and a thread starts
  only below the pool's size (`PlannersStep`), which is one less than the tokens.
* `NothingAfterCudaDied` (`[]FatalStopsTheBatch`): a fatal error takes the main thread to where SAM is not
  called any more, and the plans still queued are cancelled before the last reviews are waited for (`FatalInOrder`).
* `ReviewsReachTheLedger` (`[]NoReviewLost`), from `ReviewInv`: a job that was put away is
  being reviewed, or its row is what its review answered, or the review was cut off (`PutAway`,
  `ReviewsInOrder`). One interrupt of the loop loses nothing: the executors drain and what is done is collected, unless it strikes
  between a `pop` and the storing of the row (`dropped`) or a further one cuts the drain or the collection short (`cut`). While nothing
  was cut, no review is left when the collection ends (`NothingLeft`).
* `LedgerNamesEveryJob` (`[]EveryJobAccounted`): all jobs below the next one were submitted and a plan is cancelled
  only after a fatal error (`Submitted`), a ledger is written only after every identity (`Identified`),
  and a row waits for its overlay only with its masks published (`PendingHasMasks`). A final ledger lets a row wait
  only for masks of an earlier run, for a review that was cut off as above, or for the active job when the marking was
  interrupted; only then may a row be missing.
* The premises of `Terminates`. `EveryStepIsProgress`: every step within a start lessens `WorkLeft`, a sum of
  cardinalities (the jobs whose plan has so many steps ahead of it, the jobs without a directory, an identity or a
  review) and of what the main thread has before it; only a new start raises it. `SomebodyCanMove`
  (`[]SomebodyMoves`): while a start is not over one thread has a step, whoever holds the tokens and the buffer.

`UmiBatchProofs` proves, for any clips, groups, GPUs, number of commands, starts, kills and faults
(`PrepareAssumption`, `BatchAssumption`), over every kill, repetition and change; of the preparation:

* `PreparationIsTyped` (`[]TypeOK`), `ConversionsAreKept` (`[]ConversionKept`) and `PlansAreBacked`
  (`[]PlanIsBacked`). A plan is written from what a command found and made some steps
  earlier, so `PrepareInv` follows it from there: the command works on selected
  clips only (`TodoSelected`), what is on disk was made from the inventory of its time
  (`MadeFromInventory`), versions only grow (`VersionsGrow`), a judgement that is reused still
  answers the same question (`JudgementStands`), the rows in hand are backed by conversions
  (`RowsBacked`) and the groups already assembled number their frames without a gap (`Assembled`).
* `BatchLeavesPreparation` (`Spec => PrepareSpec`): the driver and its workers only read what was prepared,
  so the three hold with them too.

And of the driver, from `Control` (which processes can be alive where the driver stands) and `Jobwise`:

* `ReviewsShowWhatIsPublished` (`[]ReviewShowsMasks`). A row of a ledger was true when it was written; that it
  stays so depends on who may write masks after it. Without orphans at most one process works on a job: a step it has
  taken says what it published and showed (`Knows`), masks are new until SAM publishes them
  (`Fresh`), and only the worker whose share a job is has a row of it (`OwnRows`).
* `FinishedBatchIsWhole` (`[]FinishedIsWhole`): a worker that is done has a row of each of its jobs (`LastWord`),
  and after the driver has saved that it finished no process is left to change one (`FinishedRows`).
* `StartsAreRefusedForAReason` (`RefusedForAReason`, an action property): a directory without identity is one that is
  being made, unless something died in between (`SetupInOrder`).

`SamRunProofs` proves, for any episodes, starts and faults (`SamRunAssumption`), over every crash and every
orphan that goes on writing, the three invariants of the run: `SkippedWorkIsWhole` (`[]CompleteIsWhole`),
`SummaryAgreesWithDisk` (`[]SummaryIsTrue`) and `ReceiptsFreeze` (`[]ReceiptFreezesEpisode`). `IInv` says of an
episode what an execution does to it file by file: alone unless it was begun twice (`Alone`), an
execution has saved the files before its program counter and none after (`SavedInv`); a manifest
that says "complete" was therefore the last file of a whole set (`SettledInv`). What is remembered of the
disk then holds as long as nobody writes: the rows of the run (`RowsInv`), its summary
(`SummaryInv`), and the receipts, which are given in the first run of an id only (`IncrementalInv`).

`UrdfRunProofs` proves all that the run `UrdfRun_safety` checks, for any number of episodes,
configurations, starts, kills and changes of the source (`UrdfRunAssumption`): `UrdfTypes`,
`CompleteIsRendered`, `TreesAreDerived`, `PassedIsPublished` and the action property
`NothingIsRewritten`. None of them is inductive, because what the workflow writes it decided
some steps earlier, in memory. `IInv` has a part for each thing the writer relies on:

* `ManifestIsOurs`: from the moment a run has its manifest, the plan in memory is the plan on
  disk and the settings are its settings; `DirectoryInOrder`: without a manifest there is no
  directory and no tree.
* `RecordsStand`: a record that is complete in memory stands as one on disk does, so it may be
  saved at any time.
* `StreamInOrder` and `HandInOrder`: an announced episode was never planned or rendered, is
  announced once, and the one in hand has a plan and no directory yet; this is why
  nothing is overwritten by a streaming worker.
* `RowsInOrder`: a row that counts as published names a tree of the lineage selected, and once
  validated, of its other files too, unless they were written through a link since (`Kept`).
* `LinksAreShared`: a linked file of a tree has the version of the source file. It makes the change of a
  tree's file the source's own (`FilesAreKept`), which is all that `NothingIsRewritten` allows; settings, plans,
  backend directories and the masks and manifest of a tree never change.

`ManifestGrows` and `DirectoriesGrow` say what any step may do to the files of a run, and the
other lemmas cite them. That a loop takes a member of what is left (`FirstIsIn`) rests on the
well-foundedness of the naturals.

`ManagedQwenProofs` proves, for any set of managers and models and any number of signals and
kills, `NoServerAbandoned` and `ServerOutlivesItsRun`, the two safety properties of the run.
They speak of managers that have left; the strengthening speaks of those on their way:
`Held(m)`, a live server is owned or its manager stands where it does not know of it,
and `Watched(m)`, a live child is still looked after, unless a signal broke either off. The
lemma `SignalKeeps` is the heart of it: of all the places a signal can strike, only the
named ones have no clean-up ahead. `SignalledAreGone` is the liveness property `SignalledManagersLeave`: a
signalled manager is in its clean-up from then on, with something to wait for that it can also kill
(`LeaveInv`), and the three stages of the clean-up are left one after the other.

`EpisodeStageProofs` proves, for any signals over the levels, video windows inside the recording
(`operation_window` of the dataset adapter refuses others), number of seeds and parameters of the
timeline (`TimelineAssumption`, `MaskStageAssumption`), first of the stages up to the masks:

* `TypeCorrectness`: `Spec => []TypeOK`.
* `BoxIsTheLastResort`: `Spec => []RescueComesLast`.
* `TrackedMasksWereAccepted`: `Spec => []AcceptedMaskIsTracked`.
* `WrongPixelsStayOut`: `Spec => []KnownWrongPixelsStayOut`, which is inductive beside `IInv` (`PixelsHold`).

That tracked masks were accepted is not inductive: that the tracked mask is the accepted one depends on the report that
named it, on the attempt the report was made from and on the order of the roles. `IInv`
has a conjunct for each: `Shape`, `Fresh` (nothing is judged before the plan),
`Pending` (QC takes the roles in order and leaves out none) and `Selected` (the accepted
mask is what the passing attempt or report names).

And of the stage that follows: `GripperSeedIsFair`, `GripperSpec => []GripperSeedIsLeastBad`, for any
number of prompts and any ranks. Its invariant `GInv` has four parts: tracks that are ok
are shown (`OkIsShown`), the stage is entered only with such tracks (`EnteredWell`), a
second bank was made only because the first had failed (`BanksInOrder`), and a bad seed was
taken only for want of a good one (`SeedIsFair`). It needs nothing of `IInv`: the two stages meet
only in the tracks.

And of the whole episode (`GripperSpec`), from `EInv` (`EpisodeInvariance`), which carries `IInv` and
`KnownWrongPixelsStayOut` on through the gripper stage and adds what the timeline handed on (`Agreed`):

* `EpisodeMasksWereAccepted`: both properties of the masks hold with the gripper stage behind them.
* `OtherGesturesAreFound` (`[]OnlyAdjacentGesturesAreMissed`), for signals of any length. `ArmLoops` is recursive over
  the cuts, so its equation comes first (`RecursionIsSolved`, `LoopsAreFound`). A cut changes the filtered signal on
  its own frame only (`CutKeepsTheRest`), a close and a reopening behind a cut are a loop of the search
  from there (`GestureIsLoop`), the first loop ends before the second gesture begins, and the second is
  therefore found unless its fall meets the cut (`SecondGestureIsFound`). The prover showed here
  that the property as first written was too strong by one case, which needs a signal of eleven frames:
  a gesture one frame after the cut, with the frame at the cut closed.
* `NoStageRaises` (`[]StagesAgree`): whatever loop or hold is found, its windows are inside the recording and
  in each other and its seeds are frames that the stages accept (`PickPlaceFits`, `TargetOnlyFits`, `VideoFits`),
  which rests on the rounding of the seed frames (`RoundedShare`, `UniformFramesFit`).

What a recursive definition computes is proved with an induction over sets in place of predicates
(`LeastNatural`, from the well-foundedness of the naturals, and `Induction`): the provers cannot instantiate
the induction theorems of the library, whose parameter is an operator.

Liveness. The prover has no rules for `ENABLED`, so `WF_vars` cannot be used in a proof. Two
liveness properties are proved from the same fairness with `ENABLED` spelled out as the guard of the step:
`OrphanGoesOn(w)` and `GoesOn(m)` say that it is not so that from some moment on the guard holds and the step is
never taken. TLC finds the guards equal to `ENABLED` on the instances of `SamPool_live` and, for managers in
the clean-up, of `ManagedQwen_safety`.

Every safety property and every action property of the passing runs is proved, and so are these two. What is only
checked by TLC, on the instances above, is `Terminates` of `SamPool`, `Streaming` and `UmiPipeline`: from a measure
that falls and somebody who can always lower it to the end takes an induction over a temporal formula, whose
theorem the provers cannot instantiate. Both premises are theorems for all three.

## 6. Where the code and its documents disagree

* `SamPool_relaunch`. A relaunch closes the connection of the failed worker first and
  swallows the `OSError` of a process that cannot be started; the receive loop then
  polls the closed connection, and the exception ends the whole batch.
  `tests/unit/test_parallel_sam_runtime.py:306` is named
  `test_relaunch_start_failure_retires_only_failed_gpu`.
* `Streaming_sigterm`. The docstring of `_exit_on_sigterm` promises "normal Python
  cleanup"; a source that is writing to a full pipe when it is told to terminate writes
  its error to the same pipe, and its parent joins it without a limit.
* `Timeline_loops`. The docstring of `detect_arm_loops` promises that "later gestures are not
  silently ignored". The search for the next loop goes on in the rest of the signal and looks
  for a fall inside it; a gripper that closes on the very frame after the first loop falls
  across the cut, and an episode with two gestures passes as one with one. So does one that closes a
  frame later when a single closed frame is at the cut: the filter does not smooth the first frame of the rest.

Two more are exceptions that a property names. `docs/umi_batch.md:82` lets the same command go on
after an interruption; a run killed between making a job's directory and writing its identity,
or between the state directory and its selection, is refused from then on
(`RefusedForAReason`). `docs/umi_batch.md:30` says that a screening is resumed from what is valid; one
that fails replaces the judgement that was saved, and when the next answers otherwise the
finished conversion of the clip is refused (`ConversionKept`).

The models also reach states that no document speaks about; they are under "hazards",
with a note. A track that is lost in all of the window that temporal QC checks has failed but
keeps what it found later, while the target is held (the exception in
`KnownWrongPixelsStayOut`). A run with a borrowed Qwen server loses it when the server's owner
leaves. A live streaming run with a failed source episode ends with an error while the
serial run excludes the episode and passes. A run killed before its first manifest
leaves a run id that can be neither started nor resumed. Workers orphaned by a killed driver of the
fast batch write the same directories as those of the next start (the exception `orphaned`).
A live streaming run whose source process cannot be started leaves the URDF process waiting, and one interrupted
before its `try` or in its joins leaves the children it had not yet joined (the exceptions in `NoChildLeft`). A UMI run interrupted
again while it drains leaves reviews it had paid for out of its ledger (`CutOff`). The files of a canonical tree are hard
links: a source file edited in place changes the published tree, and the validation, which compares the two, cannot
notice (`RecordsAreImmutable`, `edited` in `PassedMeansPublished`). With `--skip-render` nothing
compares the files published beside the masks with the lineage of the plan, and files that a frozen lineage does not name are
never compared with the time of the selection at all.

## 7. What is not modelled

Pixels, numerics and model answers are outcomes chosen freely. Wording, progress output
and the terminal UI are left out. Discovery and configuration only read: their results
are constants. Renderer, finger fitting and converters are numerical or single passes.
Of the UMI batch the older driver (`run_umi_batch.py`) and the subsets `--smoke` and `--only-groups`
are left out, and so is `merge_umi_runs.py`, which reads finished runs while nothing keeps
them from being resumed. `IncrementalUrdfEpisodeWorker` can resume, but nothing in the repository asks it to. The
per-file identities of the publisher are folded into three versions per episode: of the masks, of the other
files a lineage names, and of the files none names. The start of the motion, the frames shown to Qwen as context and the
JSON of contexts and plans are left out of `Timeline` and `MaskStage`, as are the repair of query
banks and the restart of a track that jumps; of the gripper stage, the projection of
its region and the image arithmetic of its checks. Two processes that resume one URDF run at the same time (nothing
locks it) are not modelled; two that run over one SAM run are, as orphans.

## 8. Plan

Order of work, the most important behaviour first.

1. `EpisodeBatch`, `SamPool`, their refinement and its proof.
2. `Streaming` and its proofs.
3. `UmiPipeline`, then `UmiPrepare` and `UmiBatch` around it, and their proofs.
4. `SamRun` and its proofs.
5. `UrdfRun` and its proofs.
6. `ManagedQwen` and its proofs.
7. `Timeline` and `MaskStage` and their proofs.
8. `GripperStage` and its proof.

All of this is done. What is open: type theorems for `UmiPipeline`, `ManagedQwen` and the driver of the UMI batch, which their
invariants contain and no run asks for; the worker of `UmiBatch` shown to be an abstraction of `UmiPipeline` (today the two
are modelled from the same lines and checked apart), and the older driver `run_umi_batch.py`.
