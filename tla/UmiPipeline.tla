---------------------------- MODULE UmiPipeline -----------------------------
(***************************************************************************)
(* run_umi_pipeline: one main thread that owns the SAM backend, a pool of  *)
(* planning threads that call Qwen for the next jobs, and one rendering    *)
(* thread that reviews the finished masks.  Planning is bounded by a       *)
(* prefetch window, reviews by a buffer, Qwen requests by a shared gate.   *)
(* What survives the process (the job identities and the published masks)  *)
(* is kept over crashes, and a restart resumes from it.                    *)
(***************************************************************************)
EXTENDS Integers, Sequences, FiniteSets

CONSTANTS
    NumJobs,        \* the selected jobs, in order
    Prefetch,       \* outstanding plans
    MaxQwenWorkers, \* bound of the model: largest --qwen-workers
    RenderBuffer,   \* outstanding reviews
    MaxRuns         \* bound of the model: starts of the program

Job == 1..NumJobs

ASSUME UmiAssumption ==
    /\ NumJobs \in Nat \ {0}
    /\ Prefetch \in Nat \ {0}
    /\ MaxQwenWorkers \in Nat \ {0}
    /\ RenderBuffer \in Nat \ {0}
    /\ MaxRuns \in Nat \ {0}

VARIABLES
    asynchronous, \* --inference-mode async, or serial
    qwenWorkers,  \* concurrent Qwen requests
    at,        \* where the main thread is
    resume,    \* this run was started with resume
    runs,      \* how often the program was started
    complete,  \* [Job -> its masks were found complete at startup]
    nextJob,   \* the first job not yet submitted for planning
    plan,      \* [Job -> state of its planning future]
    active,    \* the job the main thread works on, or 0
    rows,      \* [Job -> its ledger row]
    reviews,   \* pending_reviews, in the order of submission
    reviewed,  \* [Job -> the row its review returned, or NoRow]
    fatal,     \* fatal_error is a CUDA error
    ledger,    \* status in episode_results.json
    folder,    \* [Job -> its output directory exists]
    identity,  \* [Job -> its job.json exists]
    masks,     \* [Job -> its masks are published and complete]
    dropped,   \* history: jobs whose review was taken from its future, not stored
    cut        \* history: what a further interrupt cut short, "reviews" or "rows"

options == <<asynchronous, qwenWorkers>>
disk == <<folder, identity, masks>>
history == <<dropped, cut>>
work == <<complete, nextJob, plan, active, rows, reviews, reviewed, fatal, dropped, cut>>
vars == <<options, at, resume, runs, work, ledger, disk>>

NoRow == [status |-> "none", masks |-> FALSE]
Row == [status : {"pending_render", "failed", "reviewed", "render_failed",
                  "interrupted", "not_run"},
        masks : BOOLEAN]
Failed == [status |-> "failed", masks |-> FALSE]
PendingRender == [status |-> "pending_render", masks |-> TRUE]
NotRun == [status |-> "not_run", masks |-> FALSE]

TypeOK ==
    /\ asynchronous \in BOOLEAN
    /\ qwenWorkers \in 1..MaxQwenWorkers
    /\ at \in {"validate", "identify", "startup", "wait", "sam", "qc", "published",
               "review", "drain", "unwind", "unwindPlans", "collect", "mark",
               "returned", "raised", "refused", "crashed"}
    /\ resume \in BOOLEAN
    /\ runs \in 1..MaxRuns
    /\ complete \in [Job -> BOOLEAN]
    /\ nextJob \in 1..(NumJobs + 1)
    /\ plan \in [Job -> {"none", "queued", "planning", "requesting",
                         "done", "failed", "taken", "cancelled"}]
    /\ active \in 0..NumJobs
    /\ rows \in [Job -> Row \cup {NoRow}]
    /\ reviews \in Seq(Job) /\ Len(reviews) <= RenderBuffer
    /\ reviewed \in [Job -> Row \cup {NoRow}]
    /\ fatal \in BOOLEAN
    /\ ledger \in {"none", "running", "finished", "failed"}
    /\ folder \in [Job -> BOOLEAN]
    /\ identity \in [Job -> BOOLEAN]
    /\ masks \in [Job -> BOOLEAN]
    /\ dropped \subseteq Job
    /\ cut \subseteq {"reviews", "rows"}

Init ==
    /\ asynchronous \in BOOLEAN
    /\ qwenWorkers \in 1..MaxQwenWorkers
    /\ at = "validate"
    /\ resume = FALSE
    /\ runs = 1
    /\ complete = [j \in Job |-> FALSE]
    /\ nextJob = 1
    /\ plan = [j \in Job |-> "none"]
    /\ active = 0
    /\ rows = [j \in Job |-> NoRow]
    /\ reviews = << >>
    /\ reviewed = [j \in Job |-> NoRow]
    /\ fatal = FALSE
    /\ ledger = "none"
    /\ folder = [j \in Job |-> FALSE]
    /\ identity = [j \in Job |-> FALSE]
    /\ masks = [j \in Job |-> FALSE]
    /\ dropped = {}
    /\ cut = {}

Outstanding(p) == {j \in Job : p[j] \in {"queued", "planning", "requesting", "done", "failed"}}
Planning == {j \in Job : plan[j] \in {"planning", "requesting"}}
Requesting == {j \in Job : plan[j] = "requesting"}

\* Slip: a planning thread for every prefetched job.
PlannerCountUnreserved == Prefetch

\* One request token is left to the main thread when there is more than one.
PlannerCount ==
    LET others == IF qwenWorkers > 1 THEN qwenWorkers - 1 ELSE 1
    IN IF Prefetch < others THEN Prefetch ELSE others

TokenFree == Cardinality(Requesting) + (IF at = "qc" THEN 1 ELSE 0) < qwenWorkers

-----------------------------------------------------------------------------
(* The main thread, before the pools exist *)

\* UmiJob.validate_output, for every job.
Validate ==
    /\ at = "validate"
    /\ at' = IF \E j \in Job : folder[j] /\ (~resume \/ ~identity[j])
             THEN "refused"
             ELSE "identify"
    /\ UNCHANGED <<options, resume, runs, work, ledger, disk>>

\* write_json of job.json: the directory is made, then the file replaced.
Identify ==
    /\ at = "identify"
    /\ \E j \in Job :
          /\ ~identity[j]
          /\ \A i \in Job : i < j => identity[i]
          /\ IF folder[j]
             THEN identity' = [identity EXCEPT ![j] = TRUE] /\ UNCHANGED folder
             ELSE folder' = [folder EXCEPT ![j] = TRUE] /\ UNCHANGED identity
    /\ UNCHANGED <<options, at, resume, runs, work, ledger, masks>>

\* The write fails (a full disk, say): the directory stays.
IdentifyFails ==
    /\ at = "identify"
    /\ \E j \in Job : ~identity[j]
    /\ at' = "raised"
    /\ UNCHANGED <<options, resume, runs, work, ledger, disk>>

\* submit_next, k times from job n on; a job that is complete needs no plan.
SubmitUpTo(n, k, done) ==
    /\ nextJob' = IF n + k <= NumJobs + 1 THEN n + k ELSE NumJobs + 1
    /\ plan' = [j \in Job |-> IF j >= n /\ j < n + k
                              THEN IF done[j] THEN "done" ELSE "queued"
                              ELSE plan[j]]

\* Slip: a resumed run trusts no earlier masks.
StartupForgetsMasks ==
    /\ at = "startup"
    /\ at' = "wait"
    /\ ledger' = "running"
    /\ SubmitUpTo(1, IF asynchronous THEN Prefetch ELSE 1, complete)
    /\ UNCHANGED <<options, resume, runs, complete, active, rows, reviews, reviewed,
                   fatal, disk, history>>

Startup ==
    /\ at = "startup"
    /\ at' = "wait"
    /\ ledger' = "running"
    /\ complete' = [j \in Job |-> resume /\ masks[j]]
    /\ rows' = [j \in Job |-> IF complete'[j] THEN PendingRender ELSE NoRow]
    /\ SubmitUpTo(1, IF asynchronous THEN Prefetch ELSE 1, complete')
    /\ UNCHANGED <<options, resume, runs, active, reviews, reviewed, fatal, disk, history>>

IdentitiesWritten ==
    /\ at = "identify"
    /\ \A j \in Job : identity[j]
    /\ at' = "startup"
    /\ UNCHANGED <<options, resume, runs, work, ledger, disk>>

\* The scan for complete masks, the Qwen health check or loading SAM fails or is
\* interrupted, with the rows of the first n jobs made.
StartupFails ==
    /\ at = "startup"
    /\ at' = "collect"
    /\ ledger' = "running"
    /\ complete' = [j \in Job |-> resume /\ masks[j]]
    /\ \E n \in 0..NumJobs :
          rows' = [j \in Job |-> IF j <= n /\ complete'[j] THEN PendingRender ELSE NoRow]
    /\ UNCHANGED <<options, resume, runs, nextJob, plan, active, reviews, reviewed, fatal,
                   disk, history>>

-----------------------------------------------------------------------------
(* The planning threads and the rendering thread *)

PlanStarts(j) ==
    /\ plan[j] = "queued"
    /\ \A i \in Job : i < j => plan[i] # "queued"
    /\ Cardinality(Planning) < PlannerCount
    /\ plan' = [plan EXCEPT ![j] = "planning"]
    /\ UNCHANGED <<options, at, resume, runs, complete, nextJob, active, rows, reviews,
                   reviewed, fatal, ledger, disk, history>>

PlanRequests(j) ==
    /\ plan[j] = "planning"
    /\ TokenFree
    /\ plan' = [plan EXCEPT ![j] = "requesting"]
    /\ UNCHANGED <<options, at, resume, runs, complete, nextJob, active, rows, reviews,
                   reviewed, fatal, ledger, disk, history>>

\* All the requests of a plan are one here; reading the frames may fail before.
PlanEnds(j) ==
    /\ \E result \in {"done", "failed"} :
          /\ plan[j] = "requesting" \/ (plan[j] = "planning" /\ result = "failed")
          /\ plan' = [plan EXCEPT ![j] = result]
    /\ UNCHANGED <<options, at, resume, runs, complete, nextJob, active, rows, reviews,
                   reviewed, fatal, ledger, disk, history>>

\* What rendering may make of a row (review and render_job): masks that break
\* the episode's contract are refused, a failed episode stays failed.
ReviewOf(row) ==
    {Failed, [status |-> "render_failed", masks |-> row.masks]}
        \cup IF row.masks THEN {[status |-> "reviewed", masks |-> TRUE]} ELSE {}

Unreviewed == {i \in DOMAIN reviews : reviewed[reviews[i]] = NoRow}

\* One rendering thread takes the reviews in order, with the row it was given.
ReviewEnds ==
    /\ \E i \in Unreviewed :
          /\ \A k \in Unreviewed : i <= k
          /\ \E row \in ReviewOf(rows[reviews[i]]) :
                reviewed' = [reviewed EXCEPT ![reviews[i]] = row]
    /\ UNCHANGED <<options, at, resume, runs, complete, nextJob, plan, active, rows,
                   reviews,
                   fatal, ledger, disk, history>>

-----------------------------------------------------------------------------
(* The main thread's loop *)

\* The first plan, in submission order, that is ready.  The window is refilled
\* before SAM starts; a failed plan fails its job at once.
TakePlan(j) ==
    /\ at = "wait"
    /\ plan[j] \in {"done", "failed"}
    /\ \A i \in Job : i < j => plan[i] \notin {"done", "failed"}
    /\ active' = j
    /\ IF asynchronous /\ nextJob <= NumJobs
       THEN /\ nextJob' = nextJob + 1
            /\ plan' = [plan EXCEPT ![j] = "taken",
                                    ![nextJob] = IF complete[nextJob] THEN "done" ELSE "queued"]
       ELSE /\ plan' = [plan EXCEPT ![j] = "taken"]
            /\ UNCHANGED nextJob
    /\ at' = IF complete[j] \/ plan[j] = "failed" THEN "review" ELSE "sam"
    /\ rows' = IF complete[j] THEN [rows EXCEPT ![j] = PendingRender]
               ELSE IF plan[j] = "failed" THEN [rows EXCEPT ![j] = Failed] ELSE rows
    /\ UNCHANGED <<options, resume, runs, complete, reviews, reviewed, fatal, ledger,
                   disk, history>>

NoPlanLeft ==
    /\ at = "wait"
    /\ Outstanding(plan) = {}
    /\ at' = "drain"
    /\ UNCHANGED <<options, resume, runs, work, ledger, disk>>

\* Seed QC of the current episode asks Qwen, through the same gate.
AskQc ==
    /\ at = "sam"
    /\ TokenFree
    /\ at' = "qc"
    /\ UNCHANGED <<options, resume, runs, work, ledger, disk>>

\* The canonical masks are published last, in one rename.
PublishMasks ==
    /\ at = "qc"
    /\ at' = "published"
    /\ masks' = [masks EXCEPT ![active] = TRUE]
    /\ UNCHANGED <<options, resume, runs, work, ledger, folder, identity>>

SamCompletes ==
    /\ at = "published"
    /\ at' = "review"
    /\ rows' = [rows EXCEPT ![active] = PendingRender]
    /\ UNCHANGED <<options, resume, runs, complete, nextJob, plan, active, reviews,
                   reviewed,
                   fatal, ledger, disk, history>>

\* Slip: the row promises the masks before SAM has delivered them.
SamFailsWithMasks ==
    /\ at \in {"sam", "qc", "published"}
    /\ at' = "review"
    /\ rows' = [rows EXCEPT ![active] = [status |-> "failed", masks |-> TRUE]]
    /\ fatal' \in BOOLEAN
    /\ UNCHANGED <<options, resume, runs, complete, nextJob, plan, active, reviews,
                   reviewed,
                   ledger, disk, history>>

\* Incomplete masks, or an exception; a fatal CUDA error ends the batch.
SamFails ==
    /\ at \in {"sam", "qc", "published"}
    /\ at' = "review"
    /\ rows' = [rows EXCEPT ![active] = Failed]
    /\ fatal' \in BOOLEAN
    /\ UNCHANGED <<options, resume, runs, complete, nextJob, plan, active, reviews,
                   reviewed,
                   ledger, disk, history>>

\* Slip: reviews are collected only once no plan is left.
CollectAtTheEnd ==
    /\ at = "drain"
    /\ reviews # << >>
    /\ reviewed[Head(reviews)] # NoRow
    /\ rows' = [rows EXCEPT ![Head(reviews)] = reviewed[Head(reviews)]]
    /\ reviews' = Tail(reviews)
    /\ UNCHANGED <<options, at, resume, runs, complete, nextJob, plan, active, reviewed,
                   fatal, ledger, disk, history>>

CollectReview ==
    /\ at \in {"review", "drain", "collect"}
    /\ reviews # << >>
    /\ reviewed[Head(reviews)] # NoRow
    /\ rows' = [rows EXCEPT ![Head(reviews)] = reviewed[Head(reviews)]]
    /\ reviews' = Tail(reviews)
    /\ UNCHANGED <<options, at, resume, runs, complete, nextJob, plan, active, reviewed,
                   fatal, ledger, disk, history>>

\* Slip: the loop ends after a fatal error, the plans still queued do not.
NextRoundKeepsPlans(p) ==
    /\ active' = 0
    /\ at' = IF fatal THEN "drain" ELSE "wait"
    /\ plan' = p

\* After the job: go on, or stop planning after a fatal error.
NextRound(p) ==
    /\ active' = 0
    /\ at' = IF fatal THEN "drain" ELSE "wait"
    /\ plan' = IF fatal
               THEN [j \in Job |-> IF p[j] = "queued" THEN "cancelled" ELSE p[j]]
               ELSE p

SubmitReview ==
    /\ at = "review"
    /\ asynchronous
    /\ Len(reviews) < RenderBuffer
    /\ reviews' = Append(reviews, active)
    /\ NextRound(plan)
    /\ UNCHANGED <<options, resume, runs, complete, nextJob, rows, reviewed, fatal,
                   ledger, disk, history>>

\* Serial mode reviews at once and only then plans the next job.
ReviewInline ==
    /\ at = "review"
    /\ ~asynchronous
    /\ \E row \in ReviewOf(rows[active]) : rows' = [rows EXCEPT ![active] = row]
    /\ IF ~fatal /\ nextJob <= NumJobs
       THEN /\ nextJob' = nextJob + 1
            /\ NextRound([plan EXCEPT ![nextJob] =
                             IF complete[nextJob] THEN "done" ELSE "queued"])
       ELSE /\ UNCHANGED nextJob
            /\ NextRound(plan)
    /\ UNCHANGED <<options, resume, runs, complete, reviews, reviewed, fatal, ledger,
                   disk, history>>

\* Leaving the executor of the plans waits for everything submitted to it.
PlansRunDry == \A j \in Job : plan[j] \notin {"queued", "planning", "requesting"}

\* Slip: the reviews still running are left behind.
LeaveReviews == TRUE

\* Leaving the executor of the reviews waits for them.
ReviewsRunDry == Unreviewed = {}

\* Slip: only jobs that were started get a row.
RowsOfTheRest == rows

\* record_unstarted: jobs without a row were not run.
RowsWithUnstarted == [j \in Job |-> IF rows[j] = NoRow THEN NotRun ELSE rows[j]]

\* The batch is finished unless CUDA died; shutting SAM down may still raise.
Finish ==
    /\ at = "drain"
    /\ reviews = << >>
    /\ ReviewsRunDry
    /\ PlansRunDry
    /\ rows' = IF fatal THEN RowsWithUnstarted ELSE rows
    /\ \/ at' = "returned" /\ ledger' = IF fatal THEN "failed" ELSE "finished"
       \/ at' = "raised" /\ ledger' = "failed"
    /\ UNCHANGED <<options, resume, runs, complete, nextJob, plan, active, reviews,
                   reviewed,
                   fatal, disk, history>>

\* KeyboardInterrupt, or an error of the loop itself, anywhere in the loop.  (A
\* plan popped and not yet the active job counts as not taken.)
Interrupt ==
    /\ at \in {"wait", "sam", "qc", "published", "review", "drain"}
    /\ at' = "unwind"
    /\ UNCHANGED <<options, resume, runs, work, ledger, disk>>

\* The same just after the review was submitted (or, in serial mode, stored),
\* while the job is still the active one.
InterruptAfterReview ==
    /\ at = "review"
    /\ at' = "unwind"
    /\ \/ /\ asynchronous
          /\ Len(reviews) < RenderBuffer
          /\ reviews' = Append(reviews, active)
          /\ UNCHANGED rows
       \/ /\ ~asynchronous
          /\ \E row \in ReviewOf(rows[active]) : rows' = [rows EXCEPT ![active] = row]
          /\ UNCHANGED reviews
    /\ UNCHANGED <<options, resume, runs, complete, nextJob, plan, active, reviewed, fatal,
                   ledger, disk, history>>

-----------------------------------------------------------------------------
(* The way out after an interrupt or an error; each wait may be interrupted too *)

\* The executors cancel nothing: the reviews run dry, then the plans.
LeaveRenders ==
    /\ at = "unwind"
    /\ ReviewsRunDry
    /\ at' = "unwindPlans"
    /\ UNCHANGED <<options, resume, runs, work, ledger, disk>>

LeavePlanners ==
    /\ at = "unwindPlans"
    /\ PlansRunDry
    /\ at' = "collect"
    /\ UNCHANGED <<options, resume, runs, work, ledger, disk>>

\* A further interrupt ends the wait for the reviews, or the one for the plans.
CutRenders ==
    /\ at = "unwind"
    /\ at' = "unwindPlans"
    /\ cut' = cut \cup {"reviews"}
    /\ UNCHANGED <<options, resume, runs, complete, nextJob, plan, active, rows, reviews,
                   reviewed, fatal, ledger, disk, dropped>>

CutPlanners ==
    /\ at = "unwindPlans"
    /\ at' = "collect"
    /\ UNCHANGED <<options, resume, runs, work, ledger, disk>>

\* Interrupted between popping a review's future and storing its row, or the
\* future raises: the loop unwinds, the except clause goes on to its finally.
DropReview ==
    /\ at \in {"review", "drain", "collect"}
    /\ reviews # << >>
    /\ reviewed[Head(reviews)] # NoRow
    /\ dropped' = dropped \cup {Head(reviews)}
    /\ reviews' = Tail(reviews)
    /\ IF at = "collect"
       THEN at' = "mark" /\ cut' = cut \cup {"reviews"}
       ELSE at' = "unwind" /\ UNCHANGED cut
    /\ UNCHANGED <<options, resume, runs, complete, nextJob, plan, active, rows, reviewed,
                   fatal, ledger, disk>>

\* The except clause collects only the reviews that are done.
CollectEnds ==
    /\ at = "collect"
    /\ reviews # << >> => reviewed[Head(reviews)] = NoRow
    /\ at' = "mark"
    /\ UNCHANGED <<options, resume, runs, work, ledger, disk>>

CutCollect ==
    /\ at = "collect"
    /\ at' = "mark"
    /\ cut' = cut \cup {"reviews"}
    /\ UNCHANGED <<options, resume, runs, complete, nextJob, plan, active, rows, reviews,
                   reviewed, fatal, ledger, disk, dropped>>

\* The active job, unless its review came back good, and the jobs up to n that
\* have no row.
Marked(n) == [j \in Job |->
    IF j = active /\ rows[j].status # "reviewed"
    THEN [status |-> "interrupted", masks |-> rows[j].masks]
    ELSE IF rows[j] = NoRow /\ j <= n THEN NotRun ELSE rows[j]]

Mark ==
    /\ at = "mark"
    /\ at' = "raised"
    /\ ledger' = "failed"
    /\ rows' = Marked(NumJobs)
    /\ UNCHANGED <<options, resume, runs, complete, nextJob, plan, active, reviews,
                   reviewed,
                   fatal, disk, history>>

\* Interrupted at that: the ledger is written with the rows as they are.
CutMark ==
    /\ at = "mark"
    /\ at' = "raised"
    /\ ledger' = "failed"
    /\ rows' = rows \/ \E n \in 0..NumJobs : rows' = Marked(n)
    /\ cut' = cut \cup {"rows"}
    /\ UNCHANGED <<options, resume, runs, complete, nextJob, plan, active, reviews,
                   reviewed,
                   fatal, disk, dropped>>

-----------------------------------------------------------------------------
Ended == {"returned", "raised", "refused", "crashed"}

\* The process is killed: only the disk and the ledger's last state remain.
Crash ==
    /\ at \notin Ended
    /\ at' = "crashed"
    /\ UNCHANGED <<options, resume, runs, work, ledger, disk>>

\* The same command again.
Restart ==
    /\ at \in {"raised", "crashed"}
    /\ runs < MaxRuns
    /\ runs' = runs + 1
    /\ at' = "validate"
    /\ resume' = TRUE
    /\ complete' = [j \in Job |-> FALSE]
    /\ nextJob' = 1
    /\ plan' = [j \in Job |-> "none"]
    /\ active' = 0
    /\ rows' = [j \in Job |-> NoRow]
    /\ reviews' = << >>
    /\ reviewed' = [j \in Job |-> NoRow]
    /\ fatal' = FALSE
    /\ dropped' = {}
    /\ cut' = {}
    /\ UNCHANGED <<options, ledger, disk>>

-----------------------------------------------------------------------------
MainStep ==
    \/ Validate \/ Identify \/ IdentitiesWritten \/ Startup
    \/ (\E j \in Job : TakePlan(j)) \/ NoPlanLeft
    \/ AskQc \/ PublishMasks \/ SamCompletes \/ SamFails
    \/ CollectReview \/ SubmitReview \/ ReviewInline \/ Finish
    \/ LeaveRenders \/ LeavePlanners \/ CollectEnds \/ Mark

PlannerStep == \E j \in Job : PlanStarts(j) \/ PlanRequests(j) \/ PlanEnds(j)

Next ==
    \/ MainStep
    \/ at # "crashed" /\ (PlannerStep \/ ReviewEnds)
    \/ IdentifyFails \/ StartupFails \/ Interrupt \/ InterruptAfterReview
    \/ CutRenders \/ CutPlanners \/ DropReview \/ CutCollect \/ CutMark
    \/ Crash \/ Restart

Spec == Init /\ [][Next]_vars

\* Every thread runs on; nothing has to fail and nobody has to restart.
FairSpec ==
    /\ Spec
    /\ WF_vars(MainStep)
    /\ WF_vars(at # "crashed" /\ PlannerStep)
    /\ WF_vars(at # "crashed" /\ ReviewEnds)

-----------------------------------------------------------------------------
\* The review of job j did not reach its row: an interrupt (or its exception) came
\* between popping it and storing it, or it is still pending because a further
\* interrupt cut the wait for the reviews, or their collection, short.
CutOff(j) ==
    \/ j \in dropped
    \/ "reviews" \in cut /\ \E i \in DOMAIN reviews : reviews[i] = j

\* A final ledger names every job.  A finished batch left none unreviewed; a
\* failed one only masks an earlier run had published, reviews that were cut off
\* and, if a further interrupt came while the rows were marked, the active job.
\* Only such an interrupt leaves a job without a row.
EveryJobAccounted ==
    ledger \in {"finished", "failed"} /\ at \in {"returned", "raised"} =>
        \A j \in Job :
            /\ rows[j] = NoRow => "rows" \in cut
            /\ rows[j].status = "pending_render" =>
                  /\ ledger = "failed"
                  /\ complete[j] \/ CutOff(j) \/ (j = active /\ "rows" \in cut)
            /\ rows[j].status = "not_run" => ledger = "failed"

\* What rendering answered reaches the ledger: a run that ends by itself, after a
\* first interrupt too, has the review of every job the main thread had put away
\* and reports it as it came back.  Only the active job may be marked as
\* interrupted instead (or left as it is, if the marking is cut short), and only
\* a review that was cut off may be missing.
NoReviewLost ==
    at \in {"returned", "raised"} =>
        \A j \in Job : plan[j] = "taken" =>
            \/ /\ rows[j].status \in {"reviewed", "render_failed", "failed"}
               /\ asynchronous /\ j # active => rows[j] = reviewed[j]
            \/ j = active /\ (rows[j].status = "interrupted" \/ "rows" \in cut)
            \/ CutOff(j)

\* A row that says its masks are ready is backed by published masks, whatever
\* failed afterwards; a reviewed row always is.
RowsClaimPublishedMasks ==
    \A j \in Job :
        /\ rows[j].masks => masks[j]
        /\ rows[j].status = "reviewed" => rows[j].masks

\* Published masks are not made again: over any number of interrupted runs, a
\* job whose masks are on disk is neither planned nor given to SAM.
NoWorkRepeated ==
    \A j \in Job :
        (plan[j] \in {"queued", "planning", "requesting"} \/ (active = j /\ at \in {"sam", "qc"}))
            => ~masks[j]

\* With more than one token, seed QC of the current episode never waits for
\* the planning of later ones ("leaving capacity for QC").
QcNeverWaits == qwenWorkers > 1 /\ at = "sam" => TokenFree

\* The outstanding plans, running and ready, stay within the prefetch window.
PlansBounded == Cardinality(Outstanding(plan)) <= (IF asynchronous THEN Prefetch ELSE 1)

\* After a fatal CUDA error SAM is not called again, and once its job is put
\* away no plan is started any more: only those already running end.
FatalStopsTheBatch ==
    fatal => /\ at \notin {"wait", "sam", "qc", "published"}
             /\ at \in {"drain", "returned"} => \A j \in Job : plan[j] # "queued"

\* Every run ends, whatever waits on what: the window, the gate, the buffer.
Terminates == <>[](at \in Ended)

=============================================================================
