------------------------- MODULE UmiPipelineProofs --------------------------
(***************************************************************************)
(* The UMI pipeline for any number of jobs, prefetch window, Qwen tokens   *)
(* and review buffer, over any interruptions, crashes and resumes.         *)
(***************************************************************************)
EXTENDS UmiPipeline, FiniteSetTheorems, TLAPS

InLoop == {"wait", "sam", "qc", "published", "review", "drain", "unwind"}
OnJob == {"sam", "qc", "published", "review"}
BeforeLoop == {"validate", "identify", "startup"}
Leaving == {"unwindPlans", "collect", "mark"}

\* The job in hand was taken from the plans; before the loop there are none,
\* and jobs are submitted in order.
PlansInOrder ==
    /\ at \in OnJob => active \in Job /\ plan[active] = "taken"
    /\ at \in BeforeLoop => active = 0 /\ \A j \in Job : plan[j] = "none"
    /\ \A j \in Job : j >= nextJob => plan[j] = "none"

\* Every place that says a job has masks is backed by the disk.
Backed(row, j) == (row.masks => masks[j]) /\ (row.status = "reviewed" => row.masks)
ClaimsAreBacked ==
    /\ \A j \in Job : Backed(rows[j], j) /\ Backed(reviewed[j], j) /\ (complete[j] => masks[j])
    /\ at = "published" => masks[active]

\* Masks that are there were found at the start of the run, or made in it by a
\* job whose plan was taken; a job still being planned has none.
MasksAreKnown ==
    /\ ~resume /\ at \in BeforeLoop => \A j \in Job : ~masks[j]
    /\ at \in InLoop => \A j \in Job : masks[j] => complete[j] \/ plan[j] = "taken"
    /\ \A j \in Job : plan[j] \in {"queued", "planning", "requesting"} => ~masks[j]
    /\ at \in {"sam", "qc"} => ~masks[active]

IInv == TypeOK /\ PlansInOrder /\ ClaimsAreBacked /\ MasksAreKnown

LEMMA RowTypes ==
    /\ Failed \in Row /\ PendingRender \in Row /\ NotRun \in Row
    /\ \A row \in Row \cup {NoRow} : ReviewOf(row) \subseteq Row
    /\ \A row \in Row \cup {NoRow} : [status |-> "interrupted", masks |-> row.masks] \in Row
<1>1. Failed \in Row /\ PendingRender \in Row /\ NotRun \in Row
  BY DEF Failed, PendingRender, NotRun, Row
<1>2. \A row \in Row \cup {NoRow} : row.masks \in BOOLEAN
  <2>1. \A row \in Row : row.masks \in BOOLEAN
    BY Zenon DEF Row
  <2>2. NoRow.masks = FALSE
    BY DEF NoRow
  <2> QED  BY <2>1, <2>2, Zenon
<1>3. \A b \in BOOLEAN, s \in {"render_failed", "reviewed", "interrupted"} :
          [status |-> s, masks |-> b] \in Row
  BY DEF Row
<1>4. ASSUME NEW row \in Row \cup {NoRow} PROVE ReviewOf(row) \subseteq Row
  <2>1. /\ [status |-> "render_failed", masks |-> row.masks] \in Row
        /\ [status |-> "reviewed", masks |-> TRUE] \in Row
    BY <1>2, <1>3
  <2> QED  BY <1>1, <2>1, Zenon DEF ReviewOf
<1> QED  BY <1>1, <1>2, <1>3, <1>4

\* What a review answers claims no more than the row it was given.
LEMMA ReviewIsBacked ==
    ASSUME NEW row \in Row \cup {NoRow}, NEW j, Backed(row, j), NEW new \in ReviewOf(row)
    PROVE  Backed(new, j)
BY DEF Backed, ReviewOf, Failed

LEMMA InitIInv == Init => IInv
<1> SUFFICES ASSUME Init PROVE IInv
  OBVIOUS
<1>1. TypeOK
  <2>1. /\ 1 \in 1..(NumJobs + 1) /\ 1 \in 1..MaxRuns /\ 0 \in 0..NumJobs
        /\ << >> \in Seq(Job) /\ Len(<< >>) <= RenderBuffer
    BY UmiAssumption
  <2> QED  BY <2>1 DEF Init, TypeOK
<1>2. PlansInOrder /\ ClaimsAreBacked /\ MasksAreKnown
  BY DEF Init, PlansInOrder, ClaimsAreBacked, MasksAreKnown, OnJob, BeforeLoop, InLoop, Backed, NoRow
<1> QED  BY <1>1, <1>2 DEF IInv

-----------------------------------------------------------------------------
(* The steps, by what they touch *)

\* Moves of the main thread that touch neither plans nor rows nor masks.
LEMMA MovesKeepIInv ==
    ASSUME IInv,
           \/ Validate \/ Identify \/ IdentitiesWritten \/ IdentifyFails
           \/ NoPlanLeft \/ AskQc \/ Interrupt \/ Crash
    PROVE  IInv'
<1>1. UNCHANGED <<options, resume, runs, work, masks>>
  BY DEF Validate, Identify, IdentitiesWritten, IdentifyFails, NoPlanLeft, AskQc, Interrupt, Crash, disk
<1>2. /\ at' \in {"identify", "startup", "drain", "qc", "unwind", "refused", "raised", "crashed"}
      /\ at' \in BeforeLoop => at \in BeforeLoop
      /\ at' \in InLoop => at \in InLoop
      /\ at' = "qc" => at = "sam"
      /\ ledger' = ledger
  BY DEF Validate, Identify, IdentitiesWritten, IdentifyFails, NoPlanLeft, AskQc, Interrupt, Crash,
         BeforeLoop, InLoop
<1>7. folder' \in [Job -> BOOLEAN] /\ identity' \in [Job -> BOOLEAN]
  <2>1. folder \in [Job -> BOOLEAN] /\ identity \in [Job -> BOOLEAN]
    BY DEF IInv, TypeOK
  <2>2. CASE Identify
    BY <2>1, <2>2 DEF Identify
  <2>3. CASE ~Identify
    BY <2>1, <2>3 DEF Validate, IdentitiesWritten, IdentifyFails, NoPlanLeft, AskQc, Interrupt, Crash, disk
  <2> QED  BY <2>2, <2>3
<1>3. TypeOK'
  BY <1>1, <1>2, <1>7 DEF IInv, TypeOK, options, history, work
<1>4. PlansInOrder'
  BY <1>1, <1>2 DEF IInv, PlansInOrder, OnJob, BeforeLoop, work
<1>5. ClaimsAreBacked'
  BY <1>1, <1>2 DEF IInv, ClaimsAreBacked, Backed, work
<1>6. MasksAreKnown'
  BY <1>1, <1>2 DEF IInv, MasksAreKnown, BeforeLoop, InLoop, work
<1> QED  BY <1>3, <1>4, <1>5, <1>6 DEF IInv

\* The way out touches neither plans nor rows nor masks, until the rows are marked.
LEMMA LeavingKeepsIInv ==
    ASSUME IInv,
           \/ LeaveRenders \/ LeavePlanners \/ CutRenders \/ CutPlanners \/ CollectEnds \/ CutCollect
           \/ DropReview
    PROVE  IInv'
<1>0. TypeOK /\ PlansInOrder /\ ClaimsAreBacked /\ MasksAreKnown
  BY DEF IInv
<1>1. /\ UNCHANGED <<options, resume, runs, complete, nextJob, plan, active, rows, reviewed, fatal,
                      ledger, disk>>
      /\ at' \in Leaving \cup {"unwind"}
      /\ at' = "unwind" => at \in InLoop
  BY DEF LeaveRenders, LeavePlanners, CutRenders, CutPlanners, CollectEnds, CutCollect, DropReview, work,
         Leaving, InLoop
<1>2. reviews' \in Seq(Job) /\ Len(reviews') <= RenderBuffer
  <2>1. reviews' = reviews \/ (reviews # << >> /\ reviews' = Tail(reviews))
    BY DEF LeaveRenders, LeavePlanners, CutRenders, CutPlanners, CollectEnds, CutCollect, DropReview, work
  <2>2. /\ reviews \in Seq(Job) /\ Len(reviews) <= RenderBuffer /\ Len(reviews) \in Nat
        /\ reviews # << >> => Tail(reviews) \in Seq(Job) /\ Len(Tail(reviews)) = Len(reviews) - 1
    BY <1>0 DEF TypeOK
  <2> QED  BY <2>1, <2>2, UmiAssumption
<1>3. cut' \subseteq {"reviews", "rows"}
  BY <1>0 DEF LeaveRenders, LeavePlanners, CutRenders, CutPlanners, CollectEnds, CutCollect, DropReview, work,
     TypeOK
<1>4. dropped' \subseteq Job
  <2>1. dropped' = dropped \/ (reviews # << >> /\ dropped' = dropped \cup {Head(reviews)})
    BY DEF LeaveRenders, LeavePlanners, CutRenders, CutPlanners, CollectEnds, CutCollect, DropReview, work
  <2>2. reviews # << >> => Head(reviews) \in Job
    BY <1>0 DEF TypeOK
  <2> QED  BY <1>0, <2>1, <2>2 DEF TypeOK
<1>5. TypeOK'
  BY <1>0, <1>1, <1>2, <1>3, <1>4 DEF TypeOK, options, disk, Leaving
<1>6. PlansInOrder'
  BY <1>0, <1>1 DEF PlansInOrder, OnJob, BeforeLoop, Leaving
<1>7. ClaimsAreBacked'
  BY <1>0, <1>1 DEF ClaimsAreBacked, Backed, disk, Leaving
<1>8. MasksAreKnown'
  BY <1>0, <1>1 DEF MasksAreKnown, BeforeLoop, InLoop, Leaving, disk
<1> QED  BY <1>5, <1>6, <1>7, <1>8 DEF IInv

\* The planning threads change the state of submitted plans only.
LEMMA PlannerKeepsIInv ==
    ASSUME IInv, PlannerStep
    PROVE  IInv'
<1>1. PICK j \in Job : PlanStarts(j) \/ PlanRequests(j) \/ PlanEnds(j)
  BY DEF PlannerStep
<1>2. /\ UNCHANGED <<options, at, resume, runs, complete, nextJob, active, rows, reviews, reviewed,
                      fatal, ledger, disk, history>>
      /\ plan[j] \in {"queued", "planning", "requesting"}
      /\ \E new \in {"planning", "requesting", "done", "failed"} : plan' = [plan EXCEPT ![j] = new]
  BY <1>1 DEF PlanStarts, PlanRequests, PlanEnds
<1>3. /\ plan'[j] \in {"planning", "requesting", "done", "failed"}
      /\ plan' \in [Job -> {"none", "queued", "planning", "requesting",
                            "done", "failed", "taken", "cancelled"}]
      /\ \A i \in Job : i # j => plan'[i] = plan[i]
  BY <1>2 DEF IInv, TypeOK
<1>4. TypeOK'
  BY <1>2, <1>3 DEF IInv, TypeOK, options, history, disk
<1>5. PlansInOrder'
  BY <1>2, <1>3 DEF IInv, PlansInOrder, OnJob, BeforeLoop
<1>6. ClaimsAreBacked'
  BY <1>2 DEF IInv, ClaimsAreBacked, Backed, disk
<1>7. MasksAreKnown'
  BY <1>2, <1>3 DEF IInv, MasksAreKnown, BeforeLoop, InLoop, disk
<1> QED  BY <1>4, <1>5, <1>6, <1>7 DEF IInv

\* One review is taken in hand: what it answers is backed like its row.
LEMMA ReviewKeepsIInv ==
    ASSUME IInv, ReviewEnds
    PROVE  IInv'
<1>1. PICK i \in Unreviewed : \E row \in ReviewOf(rows[reviews[i]]) :
              reviewed' = [reviewed EXCEPT ![reviews[i]] = row]
  BY DEF ReviewEnds
<1>2. reviews[i] \in Job
  BY DEF Unreviewed, IInv, TypeOK
<1>3. PICK row \in ReviewOf(rows[reviews[i]]) : reviewed' = [reviewed EXCEPT ![reviews[i]] = row]
  BY <1>1
<1>4. rows[reviews[i]] \in Row \cup {NoRow}
  BY <1>2 DEF IInv, TypeOK
<1>5. row \in Row /\ Backed(row, reviews[i])
  BY <1>2, <1>3, <1>4, RowTypes, ReviewIsBacked DEF IInv, ClaimsAreBacked
<1>6. UNCHANGED <<options, at, resume, runs, complete, nextJob, plan, active, rows, reviews,
                  fatal, ledger, disk, history>>
  BY DEF ReviewEnds
<1>7. reviewed' \in [Job -> Row \cup {NoRow}]
  BY <1>3, <1>5 DEF IInv, TypeOK
<1>8. TypeOK'
  BY <1>6, <1>7 DEF IInv, TypeOK, options, history, disk
<1>9. \A j \in Job : reviewed'[j] = reviewed[j] \/ (j = reviews[i] /\ reviewed'[j] = row)
  BY <1>2, <1>3 DEF IInv, TypeOK
<1>10. ClaimsAreBacked'
  BY <1>5, <1>6, <1>9 DEF IInv, ClaimsAreBacked, Backed, disk
<1> QED  BY <1>6, <1>8, <1>10 DEF IInv, PlansInOrder, MasksAreKnown, OnJob, BeforeLoop, InLoop, disk

\* submit_next from the first job on: complete jobs count as planned.
LEMMA StartKeepsIInv ==
    ASSUME IInv, Startup \/ StartupFails
    PROVE  IInv'
<1>1. /\ complete' = [j \in Job |-> resume /\ masks[j]]
      /\ UNCHANGED <<options, resume, runs, active, reviews, reviewed, fatal, disk, history>>
      /\ at = "startup" /\ at' \in {"wait", "collect"} /\ ledger' = "running"
  BY DEF Startup, StartupFails
<1>2. complete' \in [Job -> BOOLEAN] /\ \A j \in Job : complete'[j] <=> resume /\ masks[j]
  BY <1>1, Zenon
<1>3. \A j \in Job : complete'[j] <=> masks[j]
  BY <1>1, <1>2 DEF IInv, MasksAreKnown, BeforeLoop
<1>4. /\ rows' \in [Job -> Row \cup {NoRow}]
      /\ \A j \in Job : rows'[j] = NoRow \/ (rows'[j] = PendingRender /\ masks[j])
  <2>1. \E n : rows' = [j \in Job |-> IF j <= n /\ complete'[j] THEN PendingRender ELSE NoRow]
        \/ rows' = [j \in Job |-> IF complete'[j] THEN PendingRender ELSE NoRow]
    BY DEF Startup, StartupFails
  <2> QED  BY <1>3, <2>1, RowTypes
<1>5. /\ plan' \in [Job -> {"none", "queued", "planning", "requesting",
                            "done", "failed", "taken", "cancelled"}]
      /\ nextJob' \in 1..(NumJobs + 1)
      /\ \A j \in Job : /\ plan'[j] \in {"none", "queued", "done"}
                       /\ (plan'[j] = "queued" => ~complete'[j])
                       /\ (j >= nextJob' => plan'[j] = "none")
  <2>1. \A j \in Job : plan[j] = "none"
    BY <1>1 DEF IInv, PlansInOrder, BeforeLoop
  <2>2. CASE Startup
    <3> DEFINE k == IF asynchronous THEN Prefetch ELSE 1
    <3>1. k \in Nat \ {0} /\ SubmitUpTo(1, k, complete')
      BY <2>2, UmiAssumption DEF Startup
    <3> HIDE DEF k
    <3> QED  BY <2>1, <3>1, UmiAssumption DEF SubmitUpTo, Job, IInv, TypeOK
  <2>3. CASE StartupFails
    BY <1>1, <2>1, <2>3 DEF StartupFails, IInv, TypeOK
  <2> QED  BY <2>2, <2>3
<1>6. TypeOK'
  BY <1>1, <1>2, <1>4, <1>5 DEF IInv, TypeOK, options, history, disk
<1>7. PlansInOrder'
  BY <1>1, <1>5 DEF PlansInOrder, OnJob, BeforeLoop
<1>8. ClaimsAreBacked'
  <2>1. ~NoRow.masks /\ PendingRender.masks /\ NoRow.status # "reviewed"
    BY DEF NoRow, PendingRender
  <2>2. \A j \in Job : Backed(rows[j], j)'
    BY <1>1, <1>4, <2>1 DEF Backed, disk
  <2> QED  BY <1>1, <1>3, <2>2 DEF IInv, ClaimsAreBacked, Backed, disk
<1>9. MasksAreKnown'
  BY <1>1, <1>3, <1>5 DEF IInv, MasksAreKnown, BeforeLoop, InLoop, disk
<1> QED  BY <1>6, <1>7, <1>8, <1>9 DEF IInv

\* The plan that is taken is of a job without masks, unless it was complete.
LEMMA TakePlanKeepsIInv ==
    ASSUME IInv, NEW j \in Job, TakePlan(j)
    PROVE  IInv'
<1>0. TypeOK /\ PlansInOrder /\ ClaimsAreBacked /\ MasksAreKnown /\ at = "wait"
  BY DEF IInv, TakePlan
<1>1. /\ UNCHANGED <<options, resume, runs, complete, reviews, reviewed, fatal, ledger, disk, history>>
      /\ active' = j /\ at' \in {"review", "sam"}
      /\ at' = "sam" => ~complete[j] /\ plan[j] = "done"
  BY DEF TakePlan
<1>2. \/ rows' = [rows EXCEPT ![j] = PendingRender] /\ complete[j]
      \/ rows' = [rows EXCEPT ![j] = Failed]
      \/ rows' = rows
  BY DEF TakePlan
<1>3. /\ rows' \in [Job -> Row \cup {NoRow}]
      /\ \A i \in Job : Backed(rows'[i], i)
  <2>1. /\ PendingRender.masks /\ PendingRender.status # "reviewed"
        /\ ~Failed.masks /\ Failed.status # "reviewed"
    BY DEF PendingRender, Failed
  <2> QED  BY <1>0, <1>2, <2>1, RowTypes DEF TypeOK, ClaimsAreBacked, Backed
<1>4. plan[j] \in {"done", "failed"}
  BY DEF TakePlan
<1>5. /\ plan' \in [Job -> {"none", "queued", "planning", "requesting",
                            "done", "failed", "taken", "cancelled"}]
      /\ nextJob' \in {nextJob, nextJob + 1} /\ nextJob' \in 1..(NumJobs + 1)
      /\ plan'[j] = "taken"
      /\ \A i \in Job : i >= nextJob' => plan'[i] = "none"
      /\ \A i \in Job : i # j /\ plan'[i] # plan[i] =>
            plan[i] = "none" /\ plan'[i] = IF complete[i] THEN "done" ELSE "queued"
  <2>1. nextJob \in 1..(NumJobs + 1) /\ NumJobs \in Nat /\ j < nextJob /\ j \in 1..NumJobs
    BY <1>0, <1>4, UmiAssumption DEF TypeOK, PlansInOrder, Job
  <2>2. CASE asynchronous /\ nextJob <= NumJobs
    <3> DEFINE new == IF complete[nextJob] THEN "done" ELSE "queued"
    <3>1. nextJob \in Job /\ nextJob # j /\ plan[nextJob] = "none"
      BY <1>0, <2>1, <2>2 DEF PlansInOrder, Job
    <3>2. nextJob' = nextJob + 1 /\ plan' = [plan EXCEPT ![j] = "taken", ![nextJob] = new]
      BY <2>2 DEF TakePlan
    <3>3. new \in {"done", "queued"}
      OBVIOUS
    <3>4. new = IF complete[nextJob] THEN "done" ELSE "queued"
      OBVIOUS
    <3> HIDE DEF new
    <3>5. /\ plan'[nextJob] = new /\ plan'[j] = "taken"
          /\ \A i \in Job : i # j /\ i # nextJob => plan'[i] = plan[i]
      BY <1>0, <3>1, <3>2 DEF TypeOK
    <3>6. plan' \in [Job -> {"none", "queued", "planning", "requesting",
                            "done", "failed", "taken", "cancelled"}]
      BY <1>0, <3>2, <3>3 DEF TypeOK
    <3>7. \A i \in Job : i >= nextJob' => plan'[i] = "none"
      <4> SUFFICES ASSUME NEW i \in Job, i >= nextJob' PROVE plan'[i] = "none"
        OBVIOUS
      <4>1. i \in Nat /\ i # j /\ i # nextJob /\ i >= nextJob
        BY <2>1, <3>2 DEF Job
      <4> QED  BY <1>0, <3>5, <4>1 DEF PlansInOrder
    <3> QED  BY <2>1, <2>2, <3>1, <3>2, <3>4, <3>5, <3>6, <3>7
  <2>3. CASE ~(asynchronous /\ nextJob <= NumJobs)
    <3>1. nextJob' = nextJob /\ plan' = [plan EXCEPT ![j] = "taken"]
      BY <2>3 DEF TakePlan
    <3> QED  BY <1>0, <2>1, <3>1 DEF TypeOK, PlansInOrder, Job
  <2> QED  BY <2>2, <2>3
<1>6. TypeOK'
  BY <1>0, <1>1, <1>3, <1>5 DEF TypeOK, options, history, disk, Job
<1>7. PlansInOrder'
  BY <1>1, <1>5 DEF PlansInOrder, OnJob, BeforeLoop
<1>8. ClaimsAreBacked'
  BY <1>0, <1>1, <1>3 DEF ClaimsAreBacked, Backed, disk
<1>9. MasksAreKnown'
  <2>1. \A i \in Job : masks[i] => complete[i] \/ plan[i] = "taken"
    BY <1>0 DEF MasksAreKnown, InLoop
  <2>2. \A i \in Job : masks[i] => complete[i] \/ plan'[i] = "taken"
    BY <1>5, <2>1
  <2>3. \A i \in Job : plan'[i] \in {"queued", "planning", "requesting"} => ~masks[i]
    BY <1>0, <1>5, <2>1 DEF MasksAreKnown
  <2>4. at' = "sam" => ~masks[j]
    BY <1>1, <2>1
  <2> QED  BY <1>1, <2>2, <2>3, <2>4 DEF MasksAreKnown, BeforeLoop, InLoop, disk
<1> QED  BY <1>6, <1>7, <1>8, <1>9 DEF IInv

\* SAM and the publication of its masks.
LEMMA SamKeepsIInv ==
    ASSUME IInv, PublishMasks \/ SamCompletes \/ SamFails
    PROVE  IInv'
<1>0. TypeOK /\ PlansInOrder /\ ClaimsAreBacked /\ MasksAreKnown
  BY DEF IInv
<1>1. /\ UNCHANGED <<options, resume, runs, complete, nextJob, plan, active, reviews, reviewed,
                      ledger, folder, identity, history>>
      /\ at \in {"sam", "qc", "published"} /\ at' \in {"published", "review"}
  BY DEF PublishMasks, SamCompletes, SamFails, work, disk, history
<1>2. active \in Job /\ plan[active] = "taken"
  BY <1>0, <1>1 DEF PlansInOrder, OnJob
<1>3. /\ masks' \in [Job -> BOOLEAN] /\ \A j \in Job : masks[j] => masks'[j]
      /\ \A j \in Job : j # active => masks'[j] = masks[j]
      /\ at' = "published" => masks'[active]
  BY <1>0, <1>2 DEF PublishMasks, SamCompletes, SamFails, TypeOK, work, disk
<1>4. fatal' \in BOOLEAN
  BY <1>0 DEF PublishMasks, SamCompletes, SamFails, TypeOK, work
<1>5. rows' \in [Job -> Row \cup {NoRow}]
  BY <1>0, <1>3, RowTypes DEF ClaimsAreBacked, PublishMasks, SamCompletes, SamFails, TypeOK, work
<1>6. \A j \in Job : Backed(rows[j], j)'
  <2>1. /\ PendingRender.masks /\ PendingRender.status # "reviewed"
        /\ ~Failed.masks /\ Failed.status # "reviewed"
    BY DEF PendingRender, Failed
  <2>2. CASE PublishMasks
    BY <1>0, <1>3, <2>2 DEF PublishMasks, ClaimsAreBacked, Backed, work
  <2>3. CASE SamCompletes
    BY <1>0, <1>2, <2>1, <2>3 DEF SamCompletes, ClaimsAreBacked, Backed, TypeOK, disk
  <2>4. CASE SamFails
    BY <1>0, <1>2, <2>1, <2>4 DEF SamFails, ClaimsAreBacked, Backed, TypeOK, disk
  <2> QED  BY <2>2, <2>3, <2>4
<1>7. TypeOK'
  BY <1>0, <1>1, <1>3, <1>4, <1>5 DEF TypeOK, options, history
<1>8. PlansInOrder'
  BY <1>0, <1>1, <1>2 DEF PlansInOrder, OnJob, BeforeLoop
<1>9. ClaimsAreBacked'
  BY <1>0, <1>1, <1>3, <1>6 DEF ClaimsAreBacked, Backed
<1>10. MasksAreKnown'
  BY <1>0, <1>1, <1>2, <1>3 DEF MasksAreKnown, BeforeLoop, InLoop
<1> QED  BY <1>7, <1>8, <1>9, <1>10 DEF IInv

\* The main thread collects the oldest answered review.
LEMMA CollectKeepsIInv ==
    ASSUME IInv, CollectReview
    PROVE  IInv'
<1>0. TypeOK /\ PlansInOrder /\ ClaimsAreBacked /\ MasksAreKnown
  BY DEF IInv
<1>1. /\ UNCHANGED <<options, at, resume, runs, complete, nextJob, plan, active, reviewed,
                      fatal, ledger, disk, history>>
      /\ reviews # << >> /\ reviews' = Tail(reviews)
      /\ rows' = [rows EXCEPT ![Head(reviews)] = reviewed[Head(reviews)]]
  BY DEF CollectReview
<1>2. /\ Head(reviews) \in Job /\ reviews' \in Seq(Job) /\ Len(reviews') <= RenderBuffer
  BY <1>0, <1>1, UmiAssumption DEF TypeOK
<1>3. /\ rows' \in [Job -> Row \cup {NoRow}]
      /\ \A j \in Job : rows'[j] \in {rows[j], reviewed[j]}
  BY <1>0, <1>1, <1>2 DEF TypeOK
<1>4. TypeOK'
  BY <1>0, <1>1, <1>2, <1>3 DEF TypeOK, options, history, disk
<1>5. ClaimsAreBacked'
  BY <1>0, <1>1, <1>3 DEF ClaimsAreBacked, Backed, disk
<1> QED  BY <1>0, <1>1, <1>4, <1>5 DEF IInv, PlansInOrder, MasksAreKnown, OnJob, BeforeLoop, InLoop, disk

\* The job is put away: its review is submitted, or it is reviewed at once.
LEMMA PutAwayKeepsIInv ==
    ASSUME IInv, SubmitReview \/ ReviewInline \/ InterruptAfterReview
    PROVE  IInv'
<1>0. TypeOK /\ PlansInOrder /\ ClaimsAreBacked /\ MasksAreKnown /\ at = "review"
  BY DEF IInv, SubmitReview, ReviewInline, InterruptAfterReview
<1>1. /\ UNCHANGED <<options, resume, runs, complete, reviewed, fatal, ledger, disk, history>>
      /\ at' \in {"wait", "drain", "unwind"} /\ active' \in {0, active}
  BY DEF SubmitReview, ReviewInline, InterruptAfterReview, NextRound
<1>2. active \in Job /\ active \in 0..NumJobs /\ 0 \in 0..NumJobs
  BY <1>0, UmiAssumption DEF PlansInOrder, OnJob, TypeOK
<1>3. reviews' \in Seq(Job) /\ Len(reviews') <= RenderBuffer
  <2>1. reviews' = reviews \/ (Len(reviews) < RenderBuffer /\ reviews' = Append(reviews, active))
    BY DEF SubmitReview, ReviewInline, InterruptAfterReview
  <2> QED  BY <1>0, <1>2, <2>1, UmiAssumption DEF TypeOK
<1>4. /\ rows' \in [Job -> Row \cup {NoRow}]
      /\ \A j \in Job : Backed(rows'[j], j)
  <2>1. rows' = rows \/ \E row \in ReviewOf(rows[active]) : rows' = [rows EXCEPT ![active] = row]
    BY DEF SubmitReview, ReviewInline, InterruptAfterReview
  <2>2. CASE rows' = rows
    BY <1>0, <2>2 DEF TypeOK, ClaimsAreBacked
  <2>3. ASSUME NEW row \in ReviewOf(rows[active]), rows' = [rows EXCEPT ![active] = row]
        PROVE  <1>4!1 /\ <1>4!2
    <3>1. row \in Row /\ Backed(row, active)
      BY <1>0, <1>2, RowTypes, ReviewIsBacked DEF TypeOK, ClaimsAreBacked
    <3> QED  BY <1>0, <1>2, <2>3, <3>1 DEF TypeOK, ClaimsAreBacked
  <2> QED  BY <2>1, <2>2, <2>3
<1>5. /\ plan' \in [Job -> {"none", "queued", "planning", "requesting",
                            "done", "failed", "taken", "cancelled"}]
      /\ nextJob' \in 1..(NumJobs + 1)
      /\ \A i \in Job : i >= nextJob' => plan'[i] = "none"
      /\ \A i \in Job : plan'[i] # plan[i] =>
            /\ plan[i] # "taken"
            /\ plan'[i] \in {"cancelled", "done", "queued"}
            /\ (plan'[i] = "queued" => plan[i] = "none" /\ ~complete[i])
  <2>1. nextJob \in 1..(NumJobs + 1) /\ NumJobs \in Nat
    BY <1>0, UmiAssumption DEF TypeOK
  <2>2. CASE ReviewInline /\ ~fatal /\ nextJob <= NumJobs
    <3> DEFINE new == IF complete[nextJob] THEN "done" ELSE "queued"
    <3>1. nextJob \in Job /\ plan[nextJob] = "none"
      BY <1>0, <2>1, <2>2 DEF PlansInOrder, Job
    <3>2. nextJob' = nextJob + 1 /\ plan' = [plan EXCEPT ![nextJob] = new]
      BY <2>2 DEF ReviewInline, NextRound
    <3>3. new \in {"done", "queued"} /\ (new = "queued" => ~complete[nextJob])
      OBVIOUS
    <3> HIDE DEF new
    <3>4. \A i \in Job : i >= nextJob' => i >= nextJob /\ i # nextJob
      BY <2>1, <3>2 DEF Job
    <3>5. /\ plan'[nextJob] = new
          /\ \A i \in Job : i # nextJob => plan'[i] = plan[i]
          /\ plan' \in [Job -> {"none", "queued", "planning", "requesting",
                                "done", "failed", "taken", "cancelled"}]
      BY <1>0, <3>1, <3>2, <3>3 DEF TypeOK
    <3> QED  BY <1>0, <2>1, <2>2, <3>1, <3>2, <3>3, <3>4, <3>5 DEF PlansInOrder
  <2>3. CASE ~(ReviewInline /\ ~fatal /\ nextJob <= NumJobs)
    <3>1. /\ nextJob' = nextJob
          /\ \/ plan' = plan
             \/ plan' = [j \in Job |-> IF plan[j] = "queued" THEN "cancelled" ELSE plan[j]]
      BY <2>3 DEF SubmitReview, ReviewInline, InterruptAfterReview, NextRound
    <3>2. CASE plan' = plan
      BY <1>0, <3>1, <3>2 DEF TypeOK, PlansInOrder
    <3>3. CASE plan' = [j \in Job |-> IF plan[j] = "queued" THEN "cancelled" ELSE plan[j]]
      <4>1. \A i \in Job : plan'[i] = IF plan[i] = "queued" THEN "cancelled" ELSE plan[i]
        BY <3>3
      <4>2. plan' \in [Job -> {"none", "queued", "planning", "requesting",
                              "done", "failed", "taken", "cancelled"}]
        BY <1>0, <3>3 DEF TypeOK
      <4> QED  BY <1>0, <3>1, <4>1, <4>2 DEF TypeOK, PlansInOrder
    <3> QED  BY <3>1, <3>2, <3>3
  <2> QED  BY <2>2, <2>3
<1>6. TypeOK'
  BY <1>0, <1>1, <1>2, <1>3, <1>4, <1>5 DEF TypeOK, options, history, disk
<1>7. PlansInOrder'
  BY <1>1, <1>5 DEF PlansInOrder, OnJob, BeforeLoop
<1>8. ClaimsAreBacked'
  BY <1>0, <1>1, <1>4 DEF ClaimsAreBacked, Backed, disk
<1>9. MasksAreKnown'
  <2>1. \A i \in Job : masks[i] => complete[i] \/ plan[i] = "taken"
    BY <1>0 DEF MasksAreKnown, InLoop
  <2>2. \A i \in Job : masks[i] => complete[i] \/ plan'[i] = "taken"
    BY <1>5, <2>1
  <2>3. \A i \in Job : plan'[i] \in {"queued", "planning", "requesting"} => ~masks[i]
    BY <1>0, <1>5, <2>1 DEF MasksAreKnown
  <2> QED  BY <1>1, <2>2, <2>3 DEF MasksAreKnown, BeforeLoop, InLoop, disk
<1> QED  BY <1>6, <1>7, <1>8, <1>9 DEF IInv

\* Marking gives a job its row back, or says that it was interrupted or not run.
LEMMA MarkedRows ==
    ASSUME Mark \/ CutMark, NEW j \in Job
    PROVE  /\ rows'[j] \in {[status |-> "interrupted", masks |-> rows[j].masks], NotRun, rows[j]}
           /\ rows'[j] = NotRun => rows[j] \in {NoRow, NotRun}
           /\ rows'[j] = [status |-> "interrupted", masks |-> rows[j].masks] => j = active \/ rows'[j] = rows[j]
<1>1. rows' = rows \/ \E n \in 0..NumJobs : rows' = Marked(n)
  BY UmiAssumption DEF Mark, CutMark
<1>2. CASE rows' = rows
  BY <1>2
<1>3. ASSUME NEW n \in 0..NumJobs, rows' = Marked(n)
      PROVE  rows'[j] = IF j = active /\ rows[j].status # "reviewed"
                        THEN [status |-> "interrupted", masks |-> rows[j].masks]
                        ELSE IF rows[j] = NoRow /\ j <= n THEN NotRun ELSE rows[j]
  BY <1>3 DEF Marked
<1>4. \A b : [status |-> "interrupted", masks |-> b] # NotRun
  <2>1. NotRun.status = "not_run"
    BY DEF NotRun
  <2>2. \A r, b : r = [status |-> "interrupted", masks |-> b] => r.status = "interrupted"
    BY Z3
  <2> QED  BY <2>1, <2>2
<1> QED  BY <1>1, <1>2, <1>3, <1>4

\* The end of a run, and the start of the next one.
LEMMA EndsKeepIInv ==
    ASSUME IInv, Finish \/ Mark \/ CutMark \/ Restart
    PROVE  IInv'
<1>0. TypeOK /\ PlansInOrder /\ ClaimsAreBacked /\ MasksAreKnown
  BY DEF IInv
<1>1. CASE Finish
  <2>1. /\ UNCHANGED <<options, resume, runs, complete, nextJob, plan, active, reviews, reviewed, fatal, disk,
                        history>>
        /\ at' \in {"returned", "raised"} /\ ledger' \in {"finished", "failed"}
        /\ rows' = rows \/ rows' = [j \in Job |-> IF rows[j] = NoRow THEN NotRun ELSE rows[j]]
    BY <1>1 DEF Finish, RowsWithUnstarted
  <2>2. /\ rows' \in [Job -> Row \cup {NoRow}]
        /\ \A j \in Job : rows'[j] \in {rows[j], NotRun}
    BY <1>0, <2>1, RowTypes DEF TypeOK
  <2>3. ~NotRun.masks /\ NotRun.status # "reviewed"
    BY DEF NotRun
  <2>4. TypeOK'
    BY <1>0, <2>1, <2>2 DEF TypeOK, options, history, disk
  <2>5. ClaimsAreBacked'
    BY <1>0, <2>1, <2>2, <2>3 DEF ClaimsAreBacked, Backed, disk
  <2> QED  BY <1>0, <2>1, <2>4, <2>5 DEF IInv, PlansInOrder, MasksAreKnown, OnJob, BeforeLoop, InLoop, disk
<1>2. CASE Mark \/ CutMark
  <2>1. /\ UNCHANGED <<options, resume, runs, complete, nextJob, plan, active, reviews, reviewed, fatal, disk,
                        dropped>>
        /\ at' = "raised" /\ ledger' = "failed"
        /\ cut' \subseteq {"reviews", "rows"}
    BY <1>0, <1>2 DEF Mark, CutMark, TypeOK, history
  <2>2. ASSUME NEW j \in Job
        PROVE  rows'[j] \in Row \cup {NoRow} /\ Backed(rows'[j], j)
    <3>1. rows[j] \in Row \cup {NoRow} /\ Backed(rows[j], j)
      BY <1>0 DEF TypeOK, ClaimsAreBacked
    <3>2. rows'[j] \in {[status |-> "interrupted", masks |-> rows[j].masks], NotRun, rows[j]}
      BY <1>2, MarkedRows
    <3>3. CASE rows'[j] = [status |-> "interrupted", masks |-> rows[j].masks]
      <4>1. rows'[j] \in Row
        BY <3>1, <3>3, RowTypes
      <4>2. rows'[j].masks = rows[j].masks /\ rows'[j].status = "interrupted"
        <5>1. \A r, b : r = [status |-> "interrupted", masks |-> b] =>
                            r.masks = b /\ r.status = "interrupted"
          BY Z3
        <5> QED  BY <3>3, <5>1, Zenon
      <4>3. rows[j].masks => masks[j]
        BY <3>1 DEF Backed
      <4>4. rows'[j].status # "reviewed"
        BY <4>2
      <4>5. Backed(rows'[j], j)
        BY <4>2, <4>3, <4>4, Zenon DEF Backed
      <4> QED  BY <4>1, <4>5
    <3>4. CASE rows'[j] = NotRun
      BY <3>4, RowTypes DEF Backed, NotRun
    <3> QED  BY <3>1, <3>2, <3>3, <3>4
  <2>3. rows' \in [Job -> Row \cup {NoRow}]
    <3>1. rows' = rows \/ \E n \in 0..NumJobs : rows' = Marked(n)
      BY <1>2, UmiAssumption DEF Mark, CutMark
    <3>2. CASE rows' = rows
      BY <1>0, <3>2 DEF TypeOK
    <3>3. ASSUME NEW n \in 0..NumJobs, rows' = Marked(n) PROVE rows' \in [Job -> Row \cup {NoRow}]
      BY <2>2, <3>3 DEF Marked
    <3> QED  BY <3>1, <3>2, <3>3
  <2>5. TypeOK'
    BY <1>0, <2>1, <2>3 DEF TypeOK, options, disk
  <2>6. ClaimsAreBacked'
    BY <1>0, <2>1, <2>2 DEF ClaimsAreBacked, Backed, disk
  <2> QED  BY <1>0, <2>1, <2>5, <2>6 DEF IInv, PlansInOrder, MasksAreKnown, OnJob, BeforeLoop, InLoop, disk
<1>3. CASE Restart
  <2>1. /\ UNCHANGED <<options, ledger, disk>> /\ at' = "validate" /\ resume' = TRUE
        /\ complete' = [j \in Job |-> FALSE] /\ nextJob' = 1 /\ plan' = [j \in Job |-> "none"]
        /\ active' = 0 /\ rows' = [j \in Job |-> NoRow] /\ reviews' = << >>
        /\ reviewed' = [j \in Job |-> NoRow] /\ fatal' = FALSE /\ dropped' = {} /\ cut' = {}
    BY <1>3 DEF Restart
  <2>2. runs' \in 1..MaxRuns
    BY <1>0, <1>3, UmiAssumption DEF Restart, TypeOK
  <2>3. /\ 1 \in 1..(NumJobs + 1) /\ 0 \in 0..NumJobs
        /\ << >> \in Seq(Job) /\ Len(<< >>) <= RenderBuffer
    BY UmiAssumption
  <2>4. TypeOK'
    BY <1>0, <2>1, <2>2, <2>3 DEF TypeOK, options, history, disk
  <2>5. PlansInOrder' /\ ClaimsAreBacked' /\ MasksAreKnown'
    BY <2>1 DEF PlansInOrder, ClaimsAreBacked, MasksAreKnown, OnJob, BeforeLoop, InLoop, Backed, NoRow
  <2> QED  BY <2>4, <2>5 DEF IInv
<1> QED  BY <1>1, <1>2, <1>3

LEMMA NextIInv == IInv /\ [Next]_vars => IInv'
<1> SUFFICES ASSUME IInv, [Next]_vars PROVE IInv'
  OBVIOUS
<1>1. CASE UNCHANGED vars
  BY <1>1 DEF vars, options, work, disk, IInv, TypeOK, PlansInOrder, ClaimsAreBacked, MasksAreKnown,
              OnJob, BeforeLoop, InLoop, Backed
<1>2. CASE Next
  BY <1>2, MovesKeepIInv, LeavingKeepsIInv, PlannerKeepsIInv, ReviewKeepsIInv, StartKeepsIInv, TakePlanKeepsIInv,
     SamKeepsIInv, CollectKeepsIInv, PutAwayKeepsIInv, EndsKeepIInv DEF Next, MainStep
<1> QED  BY <1>1, <1>2

\* The invariant holds of every run, interrupted, crashed or resumed.
THEOREM PipelineInvariant == Spec => []IInv
BY InitIInv, NextIInv, PTL DEF Spec

\* The rows of the ledger never promise masks that are not on disk, over any
\* number of interrupted and resumed runs.
THEOREM LedgerTellsTheTruth == Spec => []RowsClaimPublishedMasks
<1>1. IInv => RowsClaimPublishedMasks
  BY DEF IInv, ClaimsAreBacked, Backed, RowsClaimPublishedMasks
<1> QED  BY PipelineInvariant, <1>1, PTL

\* A job whose masks are on disk is neither planned nor segmented again.
THEOREM MasksAreMadeOnce == Spec => []NoWorkRepeated
<1>1. IInv => NoWorkRepeated
  BY DEF IInv, MasksAreKnown, NoWorkRepeated
<1> QED  BY PipelineInvariant, <1>1, PTL

-----------------------------------------------------------------------------
(* How much is planned at once *)

Window == IF asynchronous THEN Prefetch ELSE 1

\* Planning threads within the pool's size, plans within the window; in serial
\* mode nothing is planned while a job is in hand.
Counts ==
    /\ Cardinality(Planning) <= PlannerCount
    /\ Cardinality(Outstanding(plan)) <= Window
    /\ ~asynchronous /\ at \in OnJob => Outstanding(plan) = {}

LEMMA JobsAreFinite ==
    /\ IsFiniteSet(Job)
    /\ \A S \in SUBSET Job : IsFiniteSet(S) /\ Cardinality(S) \in Nat
    /\ \A S \in SUBSET Job : \A T \in SUBSET S : Cardinality(T) <= Cardinality(S)
<1>1. IsFiniteSet(Job)
  BY UmiAssumption, FS_Interval DEF Job
<1>2. \A S \in SUBSET Job : IsFiniteSet(S) /\ Cardinality(S) \in Nat
  BY <1>1, FS_Subset, FS_CardinalityType
<1>3. \A S \in SUBSET Job : \A T \in SUBSET S : Cardinality(T) <= Cardinality(S)
  BY <1>2, FS_Subset
<1> QED  BY <1>1, <1>2, <1>3

LEMMA CountBounds ==
    ASSUME TypeOK
    PROVE  /\ PlannerCount \in Nat \ {0} /\ Window \in Nat \ {0}
           /\ qwenWorkers > 1 => PlannerCount < qwenWorkers
BY UmiAssumption DEF TypeOK, PlannerCount, Window

LEMMA InitCounts == Init => Counts
<1> SUFFICES ASSUME Init PROVE Counts
  OBVIOUS
<1>1. Planning = {} /\ Outstanding(plan) = {}
  BY DEF Init, Planning, Outstanding
<1>2. TypeOK
  BY InitIInv DEF IInv
<1> QED  BY <1>1, <1>2, CountBounds, FS_EmptySet DEF Counts

\* Only a free thread of the pool takes up a plan.
LEMMA PlannersStep ==
    ASSUME IInv, Counts, Next
    PROVE  Cardinality(Planning') <= PlannerCount'
<1>0. /\ TypeOK /\ PlansInOrder /\ PlannerCount \in Nat /\ Planning \in SUBSET Job
  BY CountBounds DEF IInv, Planning
<1>1. UNCHANGED qwenWorkers
  BY DEF Next, MainStep, PlannerStep, Validate, Identify, IdentitiesWritten, Startup, TakePlan, NoPlanLeft,
     AskQc, PublishMasks, SamCompletes, SamFails, CollectReview, SubmitReview, ReviewInline, Finish,
     LeaveRenders, LeavePlanners, CollectEnds, Mark, CutRenders, CutPlanners, DropReview, CutCollect, CutMark,
     PlanStarts, PlanRequests, PlanEnds, ReviewEnds, IdentifyFails, StartupFails, Interrupt,
     InterruptAfterReview, Crash, Restart, options
<1>2. PlannerCount' = PlannerCount
  BY <1>1 DEF PlannerCount
<1>3. ASSUME Planning' \subseteq Planning PROVE Cardinality(Planning') <= PlannerCount
  BY <1>0, <1>3, JobsAreFinite DEF Counts
<1>4. ASSUME NEW j \in Job, PlanStarts(j) PROVE Cardinality(Planning') <= PlannerCount
  <2>1. Planning' \subseteq Planning \cup {j} /\ Cardinality(Planning) < PlannerCount
    BY <1>0, <1>4 DEF PlanStarts, Planning, TypeOK
  <2>2. Cardinality(Planning \cup {j}) <= Cardinality(Planning) + 1
    BY <1>0, JobsAreFinite, FS_AddElement
  <2>3. Planning \cup {j} \in SUBSET Job
    BY <1>0
  <2>4. Cardinality(Planning') <= Cardinality(Planning \cup {j})
    BY <2>1, <2>3, JobsAreFinite
  <2>5. Cardinality(Planning') \in Nat /\ Cardinality(Planning \cup {j}) \in Nat /\ Cardinality(Planning) \in Nat
    BY <1>0, <2>1, <2>3, JobsAreFinite
  <2> QED  BY <1>0, <2>1, <2>2, <2>4, <2>5
<1>5. ASSUME NEW j \in Job, PlanRequests(j) \/ PlanEnds(j) PROVE Planning' \subseteq Planning
  BY <1>0, <1>5 DEF PlanRequests, PlanEnds, Planning, TypeOK
<1>6. CASE Startup
  <2>1. \A j \in Job : plan[j] = "none"
    BY <1>0, <1>6 DEF Startup, PlansInOrder, BeforeLoop
  <2>2. \A j \in Job : plan'[j] \in {"done", "queued", plan[j]}
    BY <1>6 DEF Startup, SubmitUpTo
  <2>3. Planning' = {}
    BY <2>1, <2>2 DEF Planning
  <2> QED  BY <1>2, <1>3, <2>3
<1>7. ASSUME NEW j \in Job, TakePlan(j) PROVE Planning' \subseteq Planning
  <2>1. \A i \in Job : plan'[i] \in {"taken", "done", "queued", plan[i]}
    BY <1>0, <1>7 DEF TakePlan, TypeOK
  <2> QED  BY <2>1 DEF Planning
<1>8. CASE SubmitReview \/ ReviewInline \/ InterruptAfterReview
  <2>1. \A i \in Job : plan'[i] \in {"cancelled", "done", "queued", plan[i]}
    BY <1>0, <1>8 DEF SubmitReview, ReviewInline, InterruptAfterReview, NextRound, TypeOK
  <2> QED  BY <1>2, <1>3, <2>1 DEF Planning
<1>9. CASE Restart
  <2>1. Planning' = {}
    BY <1>9 DEF Restart, Planning
  <2> QED  BY <1>2, <1>3, <2>1
<1>10. CASE Validate \/ Identify \/ IdentitiesWritten \/ NoPlanLeft \/ AskQc \/ PublishMasks \/ SamCompletes
            \/ SamFails \/ CollectReview \/ Finish \/ ReviewEnds \/ IdentifyFails
            \/ StartupFails \/ Interrupt \/ Crash \/ LeaveRenders \/ LeavePlanners \/ CollectEnds \/ Mark
            \/ CutRenders \/ CutPlanners \/ DropReview \/ CutCollect \/ CutMark
  <2>1. UNCHANGED plan
    BY <1>10 DEF Validate, Identify, IdentitiesWritten, NoPlanLeft, AskQc, PublishMasks, SamCompletes,
       SamFails, CollectReview, Finish, ReviewEnds, IdentifyFails, StartupFails, Interrupt, Crash,
       LeaveRenders, LeavePlanners, CollectEnds, Mark, CutRenders, CutPlanners, DropReview, CutCollect, CutMark, work
  <2> QED  BY <1>2, <1>3, <2>1 DEF Planning
<1> QED
  BY <1>2, <1>3, <1>4, <1>5, <1>6, <1>7, <1>8, <1>9, <1>10 DEF Next, MainStep, PlannerStep

\* A job is submitted only in place of one that was taken.
LEMMA WindowStep ==
    ASSUME IInv, Counts, Next
    PROVE  /\ Cardinality(Outstanding(plan')) <= Window'
           /\ ~asynchronous' /\ at' \in OnJob => Outstanding(plan') = {}
<1> DEFINE out == Outstanding(plan)
           new == Outstanding(plan')
<1>0. /\ TypeOK /\ PlansInOrder /\ Window \in Nat \ {0} /\ out \in SUBSET Job /\ new \in SUBSET Job
      /\ Cardinality(out) <= Window
  BY CountBounds DEF IInv, Outstanding, Counts
<1>1. UNCHANGED asynchronous
  BY DEF Next, MainStep, PlannerStep, Validate, Identify, IdentitiesWritten, Startup, TakePlan, NoPlanLeft,
     AskQc, PublishMasks, SamCompletes, SamFails, CollectReview, SubmitReview, ReviewInline, Finish,
     LeaveRenders, LeavePlanners, CollectEnds, Mark, CutRenders, CutPlanners, DropReview, CutCollect, CutMark,
     PlanStarts, PlanRequests, PlanEnds, ReviewEnds, IdentifyFails, StartupFails, Interrupt,
     InterruptAfterReview, Crash, Restart, options
<1>2. Window' = Window
  BY <1>1 DEF Window
<1>3. ASSUME new \subseteq out, at' \in OnJob => at \in OnJob \/ asynchronous
      PROVE  Cardinality(new) <= Window' /\ (~asynchronous' /\ at' \in OnJob => new = {})
  <2>1. Cardinality(new) <= Cardinality(out) /\ Cardinality(new) \in Nat /\ Cardinality(out) \in Nat
    BY <1>0, <1>3, JobsAreFinite
  <2> QED  BY <1>0, <1>1, <1>2, <1>3, <2>1 DEF Counts
<1>4. ASSUME NEW j \in Job, TakePlan(j)
      PROVE  Cardinality(new) <= Window' /\ (~asynchronous' /\ at' \in OnJob => new = {})
  <2>1. plan[j] \in {"done", "failed"} /\ j \in out
    BY <1>4 DEF TakePlan, Outstanding
  <2>2. IsFiniteSet(out) /\ Cardinality(out) \in Nat
    BY <1>0, JobsAreFinite
  <2>3. IsFiniteSet(out \ {j}) /\ Cardinality(out \ {j}) = Cardinality(out) - 1
    BY <2>1, <2>2, FS_RemoveElement
  <2>4. CASE asynchronous /\ nextJob <= NumJobs
    <3>1. nextJob \in Job /\ nextJob # j
      BY <1>0, <2>1, <2>4, UmiAssumption DEF TypeOK, PlansInOrder, Job
    <3>2. \A i \in Job : i # nextJob => plan'[i] = IF i = j THEN "taken" ELSE plan[i]
      BY <1>0, <1>4, <2>4, <3>1 DEF TakePlan, TypeOK
    <3>3. new \subseteq (out \ {j}) \cup {nextJob}
      BY <3>2 DEF Outstanding
    <3>4. /\ IsFiniteSet((out \ {j}) \cup {nextJob})
          /\ Cardinality((out \ {j}) \cup {nextJob}) <= Cardinality(out)
      BY <2>2, <2>3, FS_AddElement
    <3>5. (out \ {j}) \cup {nextJob} \in SUBSET Job
      BY <1>0, <3>1
    <3>6. Cardinality(new) <= Cardinality((out \ {j}) \cup {nextJob}) /\ Cardinality(new) \in Nat
          /\ Cardinality((out \ {j}) \cup {nextJob}) \in Nat
      BY <1>0, <3>3, <3>5, JobsAreFinite
    <3> QED  BY <1>0, <1>1, <1>2, <2>2, <2>4, <3>4, <3>6
  <2>5. CASE ~(asynchronous /\ nextJob <= NumJobs)
    <3>1. \A i \in Job : plan'[i] = IF i = j THEN "taken" ELSE plan[i]
      BY <1>0, <1>4, <2>5 DEF TakePlan, TypeOK
    <3>2. new \subseteq out \ {j}
      BY <3>1 DEF Outstanding
    <3>3. /\ Cardinality(new) <= Cardinality(out \ {j}) /\ Cardinality(new) \in Nat
          /\ Cardinality(out \ {j}) \in Nat
      BY <1>0, <3>2, JobsAreFinite
    <3>4. Cardinality(new) <= Window' - 1
      BY <1>0, <1>2, <2>2, <2>3, <3>3
    <3>5. ~asynchronous => Cardinality(new) = 0
      BY <1>2, <3>3, <3>4 DEF Window
    <3>6. IsFiniteSet(new)
      BY <1>0, JobsAreFinite
    <3> QED  BY <1>0, <1>1, <1>2, <3>3, <3>4, <3>5, <3>6, FS_EmptySet
  <2> QED  BY <2>4, <2>5
<1>5. CASE ReviewInline
  <2>1. ~asynchronous /\ out = {} /\ at' \notin OnJob
    BY <1>5 DEF ReviewInline, NextRound, Counts, OnJob
  <2>2. nextJob \in Int
    BY <1>0 DEF TypeOK
  <2>3. new \subseteq {nextJob}
    <3>1. \A i \in Job : i # nextJob => plan'[i] \in {plan[i], "cancelled"}
      BY <1>0, <1>5 DEF ReviewInline, NextRound, TypeOK
    <3> QED  BY <2>1, <3>1 DEF Outstanding
  <2>4. Cardinality(new) <= 1
    <3>1. IsFiniteSet({nextJob}) /\ Cardinality({nextJob}) = 1
      BY FS_Singleton
    <3> QED  BY <2>3, <3>1, FS_Subset
  <2> QED  BY <1>1, <1>2, <2>1, <2>4 DEF Window
<1>6. CASE Startup
  <2>1. Window \in Nat /\ \A i \in Job : plan[i] = "none"
    BY <1>0, <1>6 DEF Startup, PlansInOrder, BeforeLoop
  <2>2. \A i \in Job : ~(i >= 1 /\ i < 1 + Window) => plan'[i] = plan[i]
    BY <1>6 DEF Startup, SubmitUpTo, Window
  <2>3. new \subseteq 1..Window
    BY <1>0, <2>1, <2>2, UmiAssumption DEF Outstanding, Job
  <2>4. IsFiniteSet(1..Window) /\ Cardinality(1..Window) = Window
    BY <1>0, FS_Interval
  <2>5. Cardinality(new) <= Window
    BY <2>3, <2>4, FS_Subset
  <2> QED  BY <1>1, <1>2, <1>6, <2>5 DEF Startup, OnJob
<1>7. CASE SubmitReview \/ InterruptAfterReview
  <2>1. \A i \in Job : plan'[i] \in {"cancelled", plan[i]}
    BY <1>0, <1>7 DEF SubmitReview, InterruptAfterReview, NextRound, TypeOK
  <2>2. at' \notin OnJob
    BY <1>7 DEF SubmitReview, InterruptAfterReview, NextRound, OnJob
  <2>3. new \subseteq out
    BY <2>1 DEF Outstanding
  <2> QED  BY <1>3, <2>2, <2>3
<1>8. ASSUME NEW j \in Job, PlanStarts(j) \/ PlanRequests(j) \/ PlanEnds(j)
      PROVE  new \subseteq out /\ UNCHANGED at
  <2>1. j \in out /\ \A i \in Job : i # j => plan'[i] = plan[i]
    BY <1>0, <1>8 DEF PlanStarts, PlanRequests, PlanEnds, TypeOK, Outstanding
  <2>2. UNCHANGED at
    BY <1>8 DEF PlanStarts, PlanRequests, PlanEnds
  <2> QED  BY <2>1, <2>2 DEF Outstanding
<1>9. CASE Restart
  <2>1. new = {} /\ at' \notin OnJob
    BY <1>9 DEF Restart, Outstanding, OnJob
  <2> QED  BY <1>3, <2>1
<1>10. CASE Validate \/ Identify \/ IdentitiesWritten \/ NoPlanLeft \/ AskQc \/ PublishMasks \/ SamCompletes
            \/ SamFails \/ CollectReview \/ Finish \/ ReviewEnds \/ IdentifyFails
            \/ StartupFails \/ Interrupt \/ Crash \/ LeaveRenders \/ LeavePlanners \/ CollectEnds \/ Mark
            \/ CutRenders \/ CutPlanners \/ DropReview \/ CutCollect \/ CutMark
  <2>1. UNCHANGED plan
    BY <1>10 DEF Validate, Identify, IdentitiesWritten, NoPlanLeft, AskQc, PublishMasks, SamCompletes,
       SamFails, CollectReview, Finish, ReviewEnds, IdentifyFails, StartupFails, Interrupt, Crash,
       LeaveRenders, LeavePlanners, CollectEnds, Mark, CutRenders, CutPlanners, DropReview, CutCollect, CutMark, work
  <2>2. at' \in OnJob => at \in OnJob
    BY <1>10 DEF Validate, Identify, IdentitiesWritten, NoPlanLeft, AskQc, PublishMasks, SamCompletes, OnJob,
       SamFails, CollectReview, Finish, ReviewEnds, IdentifyFails, StartupFails, Interrupt, Crash,
       LeaveRenders, LeavePlanners, CollectEnds, Mark, CutRenders, CutPlanners, DropReview, CutCollect, CutMark
  <2>3. new = out
    BY <2>1
  <2> QED  BY <1>3, <2>2, <2>3
<1> QED
  BY <1>3, <1>4, <1>5, <1>6, <1>7, <1>8, <1>9, <1>10 DEF Next, MainStep, PlannerStep

LEMMA NextCounts == IInv /\ Counts /\ [Next]_vars => Counts'
<1> SUFFICES ASSUME IInv, Counts, [Next]_vars PROVE Counts'
  OBVIOUS
<1>1. CASE UNCHANGED vars
  BY <1>1 DEF vars, options, work, Counts, Planning, Outstanding, PlannerCount, Window, OnJob
<1>2. CASE Next
  BY <1>2, PlannersStep, WindowStep DEF Counts
<1> QED  BY <1>1, <1>2

LEMMA CountsAlways == Spec => [](IInv /\ Counts)
BY InitIInv, InitCounts, NextIInv, NextCounts, PTL DEF Spec

\* The plans running and ready never exceed the prefetch window (one in serial
\* mode), for any number of jobs and threads.
THEOREM PrefetchIsBounded == Spec => []PlansBounded
<1>1. Counts => PlansBounded
  BY DEF Counts, PlansBounded, Window
<1> QED  BY CountsAlways, <1>1, PTL

\* With more than one token the planning threads leave one to the seed QC of the
\* current episode.
THEOREM QcHasItsToken == Spec => []QcNeverWaits
<1>1. IInv /\ Counts => QcNeverWaits
  <2> SUFFICES ASSUME IInv, Counts, qwenWorkers > 1, at = "sam" PROVE TokenFree
    BY DEF QcNeverWaits
  <2>1. Requesting \subseteq Planning /\ Planning \in SUBSET Job
    BY DEF Requesting, Planning
  <2>2. Cardinality(Requesting) <= Cardinality(Planning)
        /\ Cardinality(Requesting) \in Nat /\ Cardinality(Planning) \in Nat
    BY <2>1, JobsAreFinite
  <2>3. PlannerCount \in Nat /\ PlannerCount < qwenWorkers /\ qwenWorkers \in Nat
    BY CountBounds, UmiAssumption DEF IInv, TypeOK
  <2> QED  BY <2>2, <2>3 DEF Counts, TokenFree
<1> QED  BY CountsAlways, <1>1, PTL

-----------------------------------------------------------------------------
(* A fatal CUDA error *)

\* Where the main thread may be after it: never before a round again.
FatalInOrder ==
    fatal => /\ at \in {"review", "drain", "unwind", "returned", "raised", "crashed"} \cup Leaving
             /\ at \in {"drain", "returned"} => \A j \in Job : plan[j] # "queued"

LEMMA FatalNext == IInv /\ FatalInOrder /\ [Next]_vars => FatalInOrder'
<1> SUFFICES ASSUME TypeOK, FatalInOrder, [Next]_vars PROVE FatalInOrder'
  BY DEF IInv
<1>1. CASE \/ UNCHANGED vars \/ Validate \/ Identify \/ IdentitiesWritten \/ NoPlanLeft \/ AskQc
           \/ PublishMasks \/ SamCompletes \/ CollectReview \/ Finish \/ ReviewEnds
           \/ IdentifyFails \/ Interrupt \/ InterruptAfterReview \/ Crash
           \/ LeaveRenders \/ LeavePlanners \/ CollectEnds \/ Mark
           \/ CutRenders \/ CutPlanners \/ DropReview \/ CutCollect \/ CutMark
  <2>1. /\ UNCHANGED <<fatal, plan>>
        /\ at' \in {"review", "drain", "unwind", "returned", "raised", "crashed"} \cup Leaving \/ at' = at
           \/ at \in {"validate", "identify", "startup", "wait", "sam", "qc", "published"}
        /\ at' \in {"drain", "returned"} => at \in {"drain", "returned", "wait"}
    BY <1>1 DEF vars, work, Validate, Identify, IdentitiesWritten, NoPlanLeft, AskQc, PublishMasks,
       SamCompletes, CollectReview, Finish, ReviewEnds, IdentifyFails, Interrupt,
       InterruptAfterReview, Crash, LeaveRenders, LeavePlanners, CollectEnds, Mark, CutRenders, CutPlanners,
       DropReview, CutCollect, CutMark, Leaving
  <2> QED  BY <2>1 DEF FatalInOrder, Leaving
<1>2. CASE SamFails
  BY <1>2 DEF SamFails, FatalInOrder
<1>3. CASE PlannerStep
  <2>1. UNCHANGED <<fatal, at>> /\ \A j \in Job : plan'[j] = "queued" => plan[j] = "queued"
    BY <1>3 DEF PlannerStep, PlanStarts, PlanRequests, PlanEnds, TypeOK
  <2> QED  BY <2>1 DEF FatalInOrder
<1>4. CASE Startup \/ StartupFails \/ \E j \in Job : TakePlan(j)
  BY <1>4 DEF Startup, StartupFails, TakePlan, FatalInOrder, Leaving
<1>5. CASE SubmitReview \/ ReviewInline
  <2>1. PICK p \in {plan, [plan EXCEPT ![nextJob] = IF complete[nextJob] THEN "done" ELSE "queued"]} :
            NextRound(p)
    BY <1>5 DEF SubmitReview, ReviewInline
  <2>2. fatal' = fatal
    BY <1>5 DEF SubmitReview, ReviewInline
  <2>3. fatal => \A j \in Job : plan'[j] # "queued"
    BY <2>1 DEF NextRound
  <2> QED  BY <2>1, <2>2, <2>3 DEF NextRound, FatalInOrder
<1>6. CASE Restart
  BY <1>6 DEF Restart, FatalInOrder
<1> QED
  BY <1>1, <1>2, <1>3, <1>4, <1>5, <1>6 DEF Next, MainStep

LEMMA FatalAlways == Spec => [](IInv /\ FatalInOrder)
<1>1. Init => FatalInOrder
  BY DEF Init, FatalInOrder
<1> QED  BY <1>1, InitIInv, NextIInv, FatalNext, PTL DEF Spec

\* After a fatal CUDA error SAM is not called again and no queued plan is
\* started, for any number of jobs and threads.
THEOREM NothingAfterCudaDied == Spec => []FatalStopsTheBatch
<1>1. FatalInOrder => FatalStopsTheBatch
  BY DEF FatalInOrder, FatalStopsTheBatch, Leaving
<1> QED  BY <1>1, FatalAlways, PTL

-----------------------------------------------------------------------------
(* Reviews, from the job that is put away to its row in the ledger *)

Answered(row) == row.status \in {"reviewed", "render_failed", "failed"}
InReviews(j) == \E i \in DOMAIN reviews : reviews[i] = j

\* A job that was put away is being reviewed, or its row is what its review
\* answered, or its review was dropped.
PutAway(j) ==
    /\ asynchronous => InReviews(j) \/ j \in dropped \/ (reviewed[j] # NoRow /\ rows[j] = reviewed[j])
    /\ ~asynchronous => Answered(rows[j])

\* The executors are left with no review running, and the except clause with
\* none to collect, unless they were cut short.
NothingLeft ==
    "reviews" \notin cut =>
        /\ at \in Leaving => Unreviewed = {}
        /\ at \in {"mark", "returned", "raised"} => reviews = << >>

ReviewsInOrder ==
    /\ at \in BeforeLoop \/ ~asynchronous => reviews = << >>
    /\ at \in {"wait", "drain"} => active = 0
    /\ at \in (BeforeLoop \cup InLoop) \ {"unwind"} => dropped = {}
    /\ \A j \in Job : reviewed[j] # NoRow => Answered(reviewed[j])
    /\ at \in InLoop \cup Leaving => \A j \in Job : plan[j] = "taken" /\ j # active => PutAway(j)

ReviewInv == ReviewsInOrder /\ NothingLeft /\ NoReviewLost

LEMMA ReviewAnswers ==
    ASSUME NEW row, NEW new \in ReviewOf(row)
    PROVE  Answered(new)
BY DEF ReviewOf, Answered, Failed

\* Steps that leave plans, rows and reviews as they are.
LEMMA MovesKeepReviews ==
    ASSUME IInv, ReviewInv,
           UNCHANGED <<asynchronous, active, rows, reviews, reviewed, dropped>>,
           cut \subseteq cut',
           \A j \in Job : plan'[j] = "taken" => plan[j] = "taken",
           at' \in {"returned", "raised"} =>
               at' = at \/ (reviews = << >> /\ \A j \in Job : plan[j] # "taken"),
           at' = "mark" => at' = at \/ reviews = << >> \/ "reviews" \in cut',
           at' \in Leaving => at \in Leaving \/ Unreviewed = {} \/ "reviews" \in cut',
           at' \in BeforeLoop => at \in BeforeLoop,
           at' \in InLoop \ {"unwind"} => at \in InLoop \ {"unwind"},
           at' \in InLoop \cup Leaving => at \in InLoop \cup Leaving,
           at' \in {"wait", "drain"} => at \in {"wait", "drain"} \/ active = 0
    PROVE  ReviewInv'
<1>0. ReviewsInOrder /\ NothingLeft /\ NoReviewLost
  BY DEF ReviewInv
<1>1. \A j \in Job : PutAway(j)' = PutAway(j)
  BY DEF PutAway, InReviews, Answered
<1>2. ReviewsInOrder'
  <2>1. (at' \in BeforeLoop \/ ~asynchronous') => reviews' = << >>
    BY <1>0 DEF ReviewsInOrder
  <2>2. at' \in (BeforeLoop \cup InLoop) \ {"unwind"} => dropped' = {}
    <3>1. at' \in (BeforeLoop \cup InLoop) \ {"unwind"} => at \in (BeforeLoop \cup InLoop) \ {"unwind"}
      BY DEF BeforeLoop, InLoop
    <3> QED  BY <1>0, <3>1 DEF ReviewsInOrder
  <2>3. at' \in {"wait", "drain"} => active' = 0
    BY <1>0 DEF ReviewsInOrder
  <2>4. \A j \in Job : reviewed'[j] # NoRow => Answered(reviewed'[j])
    BY <1>0 DEF ReviewsInOrder
  <2>5. at' \in InLoop \cup Leaving => \A j \in Job : plan'[j] = "taken" /\ j # active' => PutAway(j)'
    BY <1>0, <1>1 DEF ReviewsInOrder
  <2> QED  BY <2>1, <2>2, <2>3, <2>4, <2>5 DEF ReviewsInOrder, Answered
<1>3. NothingLeft'
  <2>1. Unreviewed' = Unreviewed
    BY DEF Unreviewed
  <2>2. at' \in Leaving /\ "reviews" \notin cut' => Unreviewed' = {}
    BY <1>0, <2>1 DEF NothingLeft
  <2>3. at' \in {"mark", "returned", "raised"} /\ "reviews" \notin cut' => reviews' = << >>
    BY <1>0 DEF NothingLeft
  <2> QED  BY <2>2, <2>3 DEF NothingLeft
<1>4. NoReviewLost'
  <2> SUFFICES ASSUME at' \in {"returned", "raised"}, NEW j \in Job, plan'[j] = "taken"
               PROVE  NoReviewLost!2!(j)'
    BY DEF NoReviewLost
  <2>1. at' = at /\ plan[j] = "taken"
    OBVIOUS
  <2>2. CutOff(j) => CutOff(j)'
    BY DEF CutOff
  <2> QED  BY <1>0, <2>1, <2>2 DEF NoReviewLost
<1> QED  BY <1>2, <1>3, <1>4 DEF ReviewInv

LEMMA ReviewEndsKeepsReviews ==
    ASSUME IInv, ReviewInv, ReviewEnds
    PROVE  ReviewInv'
<1>1. PICK i \in Unreviewed : \E row \in ReviewOf(rows[reviews[i]]) :
              reviewed' = [reviewed EXCEPT ![reviews[i]] = row]
  BY DEF ReviewEnds
<1>2. PICK row \in ReviewOf(rows[reviews[i]]) : reviewed' = [reviewed EXCEPT ![reviews[i]] = row]
  BY <1>1
<1>3. /\ i \in DOMAIN reviews /\ reviews[i] \in Job /\ reviewed[reviews[i]] = NoRow
      /\ reviews # << >> /\ Unreviewed # {}
  BY DEF Unreviewed, IInv, TypeOK
<1>4. UNCHANGED <<asynchronous, at, active, rows, reviews, plan, dropped, cut>>
  BY DEF ReviewEnds, options, history
<1>5. at \in Leaving \cup {"mark", "returned", "raised"} => "reviews" \in cut
  BY <1>3 DEF ReviewInv, NothingLeft
<1>6. Answered(row)
  BY ReviewAnswers
<1>7. \A j \in Job : reviewed'[j] = reviewed[j] \/ (j = reviews[i] /\ reviewed'[j] = row)
  BY <1>2, <1>3 DEF IInv, TypeOK
<1>8. ASSUME NEW j \in Job, PutAway(j) PROVE PutAway(j)'
  BY <1>3, <1>4, <1>7, <1>8 DEF PutAway, InReviews, Answered
<1>9. \A j \in Job : reviewed'[j] # NoRow => Answered(reviewed'[j])
  BY <1>6, <1>7 DEF ReviewInv, ReviewsInOrder
<1>10. ReviewsInOrder'
  BY <1>4, <1>8, <1>9 DEF ReviewInv, ReviewsInOrder, Answered
<1>11. NothingLeft'
  BY <1>4, <1>5 DEF NothingLeft
<1>12. NoReviewLost'
  <2> SUFFICES ASSUME at' \in {"returned", "raised"}, NEW j \in Job, plan'[j] = "taken"
               PROVE  NoReviewLost!2!(j)'
    BY DEF NoReviewLost
  <2>1. CASE j = reviews[i]
    <3>1. CutOff(j)'
      BY <1>3, <1>4, <1>5, <2>1 DEF CutOff
    <3> QED  BY <3>1
  <2>2. CASE j # reviews[i]
    <3>1. reviewed'[j] = reviewed[j] /\ (CutOff(j) => CutOff(j)')
      BY <1>4, <1>7, <2>2 DEF CutOff
    <3> QED  BY <1>4, <3>1 DEF NoReviewLost, ReviewInv
  <2> QED  BY <2>1, <2>2
<1> QED  BY <1>10, <1>11, <1>12 DEF ReviewInv

\* On the way the property of a run that has ended says nothing yet.
LEMMA StillInLoop == at' \in InLoop \cup BeforeLoop \cup Leaving => NoReviewLost'
BY DEF NoReviewLost, InLoop, BeforeLoop, Leaving

\* In the loop every review is still waited for.
LEMMA NothingToLeave == at' \in InLoop \cup BeforeLoop => NothingLeft'
BY DEF NothingLeft, InLoop, BeforeLoop, Leaving

LEMMA TakePlanKeepsReviews ==
    ASSUME IInv, ReviewInv, NEW j \in Job, TakePlan(j)
    PROVE  ReviewInv'
<1>1. /\ at = "wait" /\ at' \in {"review", "sam"} /\ active' = j
      /\ UNCHANGED <<asynchronous, reviews, reviewed, dropped>>
      /\ plan[j] \in {"done", "failed"}
  BY DEF TakePlan, options, history
<1>2. \A i \in Job : i # j => rows'[i] = rows[i]
  BY DEF TakePlan, IInv, TypeOK
<1>3. \A i \in Job : i # j /\ plan'[i] = "taken" => plan[i] = "taken"
  BY DEF TakePlan, IInv, TypeOK
<1>4. \A i \in Job : i # j /\ plan'[i] = "taken" => PutAway(i)
  <2>1. active = 0 /\ \A i \in Job : i # 0
    BY <1>1, UmiAssumption DEF ReviewInv, ReviewsInOrder, Job
  <2> QED  BY <1>1, <1>3, <2>1 DEF ReviewInv, ReviewsInOrder, InLoop
<1>5. \A i \in Job : i # j /\ PutAway(i) => PutAway(i)'
  BY <1>1, <1>2 DEF PutAway, InReviews, Answered
<1>6. ReviewsInOrder'
  BY <1>1, <1>4, <1>5 DEF ReviewInv, ReviewsInOrder, BeforeLoop, InLoop, Leaving, Answered
<1> QED  BY <1>1, <1>6, StillInLoop, NothingToLeave DEF ReviewInv, InLoop

\* SAM writes the row of the job in hand only.
LEMMA SamKeepsReviews ==
    ASSUME IInv, ReviewInv, SamCompletes \/ SamFails
    PROVE  ReviewInv'
<1>1. /\ at \in {"sam", "qc", "published"} /\ at' = "review"
      /\ UNCHANGED <<asynchronous, active, reviews, reviewed, plan, dropped>>
      /\ active \in Job
  BY DEF SamCompletes, SamFails, options, history, IInv, PlansInOrder, OnJob
<1>2. \A i \in Job : i # active => rows'[i] = rows[i]
  BY DEF SamCompletes, SamFails, IInv, TypeOK
<1>3. \A i \in Job : i # active /\ PutAway(i) => PutAway(i)'
  BY <1>1, <1>2 DEF PutAway, InReviews, Answered
<1>4. ReviewsInOrder'
  BY <1>1, <1>3 DEF ReviewInv, ReviewsInOrder, InLoop, Leaving, BeforeLoop, Answered
<1> QED  BY <1>1, <1>4, StillInLoop, NothingToLeave DEF ReviewInv, InLoop

\* The oldest answered review goes to its row, or nowhere.
LEMMA CollectKeepsReviews ==
    ASSUME IInv, ReviewInv, CollectReview \/ DropReview
    PROVE  ReviewInv'
<1>a. PICK h : h = Head(reviews)
  OBVIOUS
<1>0. ReviewsInOrder /\ NothingLeft
  BY DEF ReviewInv
<1>1. /\ at \in {"review", "drain", "collect"} /\ reviews # << >> /\ reviewed[h] # NoRow
      /\ reviews' = Tail(reviews)
      /\ UNCHANGED <<asynchronous, active, reviewed, plan>>
      /\ \/ rows' = [rows EXCEPT ![h] = reviewed[h]] /\ UNCHANGED <<at, dropped, cut>>
         \/ /\ rows' = rows /\ dropped' = dropped \cup {h}
            /\ (at' = "unwind" /\ at # "collect") \/ (at' = "mark" /\ "reviews" \in cut')
  BY <1>a DEF CollectReview, DropReview, options, history
<1>2. /\ reviews \in Seq(Job) /\ h \in Job /\ h = reviews[1]
      /\ DOMAIN Tail(reviews) = 1..(Len(reviews) - 1) /\ DOMAIN reviews = 1..Len(reviews) /\ Len(reviews) \in Nat
      /\ \A k \in DOMAIN Tail(reviews) : k + 1 \in DOMAIN reviews /\ Tail(reviews)[k] = reviews[k + 1]
      /\ \A i \in DOMAIN reviews : i # 1 => i - 1 \in DOMAIN Tail(reviews) /\ Tail(reviews)[i - 1] = reviews[i]
  <2>1. reviews \in Seq(Job)
    BY DEF IInv, TypeOK
  <2>2. /\ h \in Job /\ h = reviews[1] /\ Tail(reviews) \in Seq(Job)
        /\ Len(Tail(reviews)) = Len(reviews) - 1 /\ Len(reviews) \in Nat
        /\ DOMAIN reviews = 1..Len(reviews) /\ DOMAIN Tail(reviews) = 1..Len(Tail(reviews))
        /\ \A k \in 1..Len(Tail(reviews)) : Tail(reviews)[k] = reviews[k + 1]
    BY <1>a, <1>1, <2>1
  <2> QED  BY <2>1, <2>2
<1>3. asynchronous
  BY <1>0, <1>1 DEF ReviewsInOrder
<1>4. \A j \in Job : j # h => rows'[j] = rows[j]
  BY <1>1, <1>2 DEF IInv, TypeOK
<1>5. \A j \in Job : InReviews(j) => InReviews(j)' \/ j = h
  <2> SUFFICES ASSUME NEW j \in Job, NEW i \in DOMAIN reviews, reviews[i] = j, j # h
               PROVE  InReviews(j)'
    BY DEF InReviews
  <2> QED  BY <1>1, <1>2 DEF InReviews
<1>6. \A j \in Job : PutAway(j) => PutAway(j)'
  <2>1. PutAway(h)'
    <3>1. CASE h \in dropped'
      BY <1>1, <1>3, <3>1 DEF PutAway
    <3>2. CASE rows' = [rows EXCEPT ![h] = reviewed[h]]
      <4>1. rows'[h] = reviewed[h]
        BY <1>2, <3>2 DEF IInv, TypeOK
      <4> QED  BY <1>1, <1>3, <4>1 DEF PutAway
    <3> QED  BY <1>1, <3>1, <3>2
  <2>2. ASSUME NEW j \in Job, j # h, PutAway(j) PROVE PutAway(j)'
    <3>1. j \in dropped => j \in dropped'
      BY <1>1
    <3> QED  BY <1>1, <1>3, <1>4, <1>5, <2>2, <3>1 DEF PutAway
  <2> QED  BY <2>1, <2>2
<1>7. ReviewsInOrder'
  <2>1. at' \in (BeforeLoop \cup InLoop) \ {"unwind"} =>
            UNCHANGED <<at, dropped>>
    BY <1>1 DEF BeforeLoop, InLoop
  <2>2. at' \notin BeforeLoop /\ at \in InLoop \cup Leaving /\ (at' \in {"wait", "drain"} => at = at')
    BY <1>1 DEF BeforeLoop, InLoop, Leaving
  <2>3. \A j \in Job : plan'[j] = "taken" /\ j # active' => PutAway(j)'
    BY <1>0, <1>1, <1>6, <2>2 DEF ReviewsInOrder
  <2> QED  BY <1>0, <1>1, <1>3, <2>1, <2>2, <2>3 DEF ReviewsInOrder, Answered
<1>8. NothingLeft'
  <2>1. Unreviewed = {} => Unreviewed' = {}
    BY <1>1, <1>2 DEF Unreviewed
  <2> QED  BY <1>0, <1>1, <2>1 DEF NothingLeft, Leaving
<1>9. at' \in InLoop \cup Leaving
  BY <1>1 DEF InLoop, Leaving
<1> QED  BY <1>7, <1>8, <1>9, StillInLoop DEF ReviewInv

\* What is put away is in the reviews, or reviewed on the spot.
LEMMA AppendHolds ==
    ASSUME NEW s \in Seq(Job), NEW x \in Job
    PROVE  /\ \A j : (\E i \in DOMAIN s : s[i] = j) => \E i \in DOMAIN Append(s, x) : Append(s, x)[i] = j
           /\ \E i \in DOMAIN Append(s, x) : Append(s, x)[i] = x
<1>1. /\ DOMAIN Append(s, x) = 1..(Len(s) + 1) /\ DOMAIN s = 1..Len(s) /\ Len(s) \in Nat
      /\ \A i \in 1..Len(s) : Append(s, x)[i] = s[i]
      /\ Append(s, x)[Len(s) + 1] = x
  OBVIOUS
<1> QED  BY <1>1

LEMMA PutAwayKeepsReviews ==
    ASSUME IInv, ReviewInv, SubmitReview \/ ReviewInline \/ InterruptAfterReview
    PROVE  ReviewInv'
<1>1. /\ at = "review" /\ at' \in {"wait", "drain", "unwind"}
      /\ UNCHANGED <<asynchronous, reviewed, dropped>>
      /\ at' \in {"wait", "drain"} => active' = 0
      /\ active \in Job
  BY DEF SubmitReview, ReviewInline, InterruptAfterReview, NextRound, options, history, IInv, PlansInOrder, OnJob
<1>2. \A j \in Job : plan'[j] = "taken" => plan[j] = "taken"
  BY DEF SubmitReview, ReviewInline, InterruptAfterReview, NextRound, IInv, TypeOK
<1>3. \A j \in Job : j # active => rows'[j] = rows[j]
  BY DEF SubmitReview, ReviewInline, InterruptAfterReview, IInv, TypeOK
<1>4. /\ asynchronous => reviews' = Append(reviews, active)
      /\ ~asynchronous => reviews' = reviews
  BY DEF SubmitReview, ReviewInline, InterruptAfterReview
<1>5. ~asynchronous => Answered(rows'[active])
  <2> SUFFICES ASSUME ~asynchronous PROVE Answered(rows'[active])
    OBVIOUS
  <2>1. PICK row \in ReviewOf(rows[active]) : rows' = [rows EXCEPT ![active] = row]
    BY DEF SubmitReview, ReviewInline, InterruptAfterReview
  <2> QED  BY <1>1, <2>1, ReviewAnswers DEF IInv, TypeOK
<1>6. reviews \in Seq(Job)
  BY DEF IInv, TypeOK
<1>7. ASSUME NEW j \in Job, asynchronous, j = active \/ InReviews(j) PROVE InReviews(j)'
  <2>1. \E i \in DOMAIN Append(reviews, active) : Append(reviews, active)[i] = j
    BY <1>1, <1>6, <1>7, AppendHolds DEF InReviews
  <2> QED  BY <1>4, <1>7, <2>1 DEF InReviews
<1>8. ASSUME NEW j \in Job, j = active \/ PutAway(j) PROVE PutAway(j)'
  <2>1. CASE asynchronous
    <3>1. rows' = rows
      BY <2>1 DEF SubmitReview, ReviewInline, InterruptAfterReview
    <3> QED  BY <1>1, <1>7, <1>8, <2>1, <3>1 DEF PutAway
  <2>2. CASE ~asynchronous
    <3>1. Answered(rows'[j])
      BY <1>3, <1>5, <1>8, <2>2 DEF PutAway
    <3> QED  BY <1>1, <2>2, <3>1 DEF PutAway, Answered
  <2> QED  BY <2>1, <2>2
<1>9. \A j \in Job : plan'[j] = "taken" => PutAway(j)'
  BY <1>1, <1>2, <1>8 DEF ReviewInv, ReviewsInOrder, InLoop
<1>10. ReviewsInOrder'
  BY <1>1, <1>4, <1>9 DEF ReviewInv, ReviewsInOrder, BeforeLoop, InLoop, Leaving, Answered
<1> QED  BY <1>1, <1>10, StillInLoop, NothingToLeave DEF ReviewInv, InLoop

\* Before the loop nothing was taken and nothing is reviewed.
LEMMA StartKeepsReviews ==
    ASSUME IInv, ReviewInv, Startup \/ StartupFails
    PROVE  ReviewInv'
<1>1. /\ at = "startup" /\ at' \in {"wait", "collect"}
      /\ UNCHANGED <<asynchronous, active, reviews, reviewed, dropped>>
      /\ active = 0 /\ \A j \in Job : plan[j] = "none"
  BY DEF Startup, StartupFails, options, history, IInv, PlansInOrder, BeforeLoop
<1>2. \A j \in Job : plan'[j] # "taken"
  BY <1>1 DEF Startup, StartupFails, SubmitUpTo
<1>3. ReviewsInOrder'
  BY <1>1, <1>2 DEF ReviewInv, ReviewsInOrder, BeforeLoop, InLoop, Leaving, Answered
<1>4. NothingLeft'
  <2>1. reviews' = << >>
    BY <1>1 DEF ReviewInv, ReviewsInOrder, BeforeLoop
  <2>2. Unreviewed' = {}
    BY <2>1 DEF Unreviewed
  <2> QED  BY <2>1, <2>2 DEF NothingLeft
<1> QED  BY <1>2, <1>3, <1>4 DEF ReviewInv, NoReviewLost

LEMMA RestartKeepsReviews ==
    ASSUME Restart
    PROVE  ReviewInv'
<1>1. /\ at' = "validate" /\ reviews' = << >> /\ \A j \in Job : reviewed'[j] = NoRow
      /\ dropped' = {}
  BY DEF Restart
<1> QED  BY <1>1 DEF ReviewInv, ReviewsInOrder, NothingLeft, NoReviewLost, InLoop, Leaving

\* The run ends: whatever was put away has been answered, and the answer is the
\* row of the ledger.
LEMMA FinishKeepsReviews ==
    ASSUME IInv, ReviewInv, Finish
    PROVE  ReviewInv'
<1>1. /\ at = "drain" /\ at' \in {"returned", "raised"} /\ reviews = << >>
      /\ UNCHANGED <<asynchronous, active, reviews, reviewed, plan, dropped>>
      /\ rows' = rows \/ rows' = RowsWithUnstarted
  BY DEF Finish, options, history
<1>2. active = 0 /\ \A j \in Job : j # 0
  BY <1>1, UmiAssumption DEF ReviewInv, ReviewsInOrder, Job
<1>3. \A j \in Job : ~InReviews(j) /\ j \notin dropped
  BY <1>1 DEF InReviews, ReviewInv, ReviewsInOrder, InLoop
<1>4. ASSUME NEW j \in Job, plan'[j] = "taken"
      PROVE  Answered(rows'[j]) /\ (asynchronous => rows'[j] = reviewed[j])
  <2>1. PutAway(j)
    BY <1>1, <1>2, <1>4 DEF ReviewInv, ReviewsInOrder, InLoop
  <2>2. Answered(rows[j]) /\ (asynchronous => rows[j] = reviewed[j])
    BY <1>3, <2>1 DEF PutAway, ReviewInv, ReviewsInOrder
  <2>3. rows[j] # NoRow
    BY <2>2 DEF Answered, NoRow
  <2> QED  BY <1>1, <2>2, <2>3 DEF RowsWithUnstarted
<1>5. ReviewsInOrder'
  BY <1>1, <1>2 DEF ReviewInv, ReviewsInOrder, BeforeLoop, InLoop, Leaving, Answered
<1>6. NothingLeft'
  BY <1>1 DEF NothingLeft, Leaving
<1> QED  BY <1>1, <1>4, <1>5, <1>6 DEF ReviewInv, NoReviewLost, Answered

\* What was put away keeps its row when the rest is marked.
LEMMA MarkKeepsReviews ==
    ASSUME IInv, ReviewInv, Mark \/ CutMark
    PROVE  ReviewInv'
<1>0. ReviewsInOrder /\ NothingLeft
  BY DEF ReviewInv
<1>1. /\ at = "mark" /\ at' = "raised"
      /\ UNCHANGED <<asynchronous, active, reviews, reviewed, plan, dropped>>
      /\ cut \subseteq cut'
  BY DEF Mark, CutMark, options, history
<1>2. "reviews" \in cut' \/ reviews = << >>
  BY <1>0, <1>1 DEF NothingLeft
<1>3. ASSUME NEW j \in Job, plan[j] = "taken", j # active
      PROVE  CutOff(j)' \/ (Answered(rows'[j]) /\ (asynchronous => rows'[j] = reviewed[j]))
  <2>1. PutAway(j)
    BY <1>0, <1>1, <1>3 DEF ReviewsInOrder, Leaving
  <2>2. InReviews(j) \/ j \in dropped => CutOff(j)'
    BY <1>1, <1>2 DEF InReviews, CutOff
  <2>3. ASSUME ~InReviews(j), j \notin dropped
        PROVE  Answered(rows[j]) /\ (asynchronous => rows[j] = reviewed[j])
    BY <1>0, <2>1, <2>3 DEF PutAway, ReviewsInOrder
  <2>4. ASSUME Answered(rows[j]) PROVE rows'[j] = rows[j]
    <3>1. rows[j] # NoRow /\ rows[j] # NotRun
      BY <2>4 DEF Answered, NoRow, NotRun
    <3> QED  BY <1>3, <3>1, MarkedRows
  <2> QED  BY <2>2, <2>3, <2>4
<1>4. ASSUME active \in Job
      PROVE  rows'[active].status \in {"reviewed", "interrupted"} \/ "rows" \in cut'
  <2>1. CASE CutMark
    BY <2>1 DEF CutMark
  <2>2. CASE Mark /\ rows[active].status # "reviewed"
    <3>1. rows'[active] = [status |-> "interrupted", masks |-> rows[active].masks]
      BY <1>4, <2>2 DEF Mark, Marked
    <3>2. \A r, b : r = [status |-> "interrupted", masks |-> b] => r.status = "interrupted"
      BY Z3
    <3>3. rows'[active].status = "interrupted"
      BY <3>1, <3>2, Zenon
    <3> QED  BY <3>3
  <2>3. CASE Mark /\ rows[active].status = "reviewed"
    <3>1. rows[active] # NoRow
      BY <2>3 DEF NoRow
    <3>2. rows'[active] = rows[active]
      BY <1>4, <2>3, <3>1 DEF Mark, Marked
    <3> QED  BY <2>3, <3>2
  <2> QED  BY <2>1, <2>2, <2>3
<1>5. ReviewsInOrder'
  BY <1>0, <1>1 DEF ReviewsInOrder, BeforeLoop, InLoop, Leaving, Answered
<1>6. NothingLeft'
  BY <1>0, <1>1 DEF NothingLeft, Leaving
<1>7. NoReviewLost'
  <2> SUFFICES ASSUME NEW j \in Job, plan'[j] = "taken"
               PROVE  NoReviewLost!2!(j)'
    BY DEF NoReviewLost
  <2>1. CASE j = active
    <3>1. active' = active /\ active \in Job
      BY <1>1, <2>1
    <3>2. rows'[j].status \in {"reviewed", "interrupted"} \/ "rows" \in cut'
      BY <1>4, <2>1, <3>1
    <3> QED  BY <2>1, <3>1, <3>2
  <2>2. CASE j # active
    BY <1>1, <1>3, <2>2 DEF Answered
  <2> QED  BY <2>1, <2>2
<1> QED  BY <1>5, <1>6, <1>7 DEF ReviewInv

LEMMA NextReviews == IInv /\ ReviewInv /\ [Next]_vars => ReviewInv'
<1> SUFFICES ASSUME IInv, ReviewInv, [Next]_vars PROVE ReviewInv'
  OBVIOUS
<1>0. PlansInOrder /\ ReviewsInOrder
  BY DEF IInv, ReviewInv
<1>1. CASE UNCHANGED vars
  <2>1. UNCHANGED <<asynchronous, at, active, rows, reviews, reviewed, plan, dropped, cut>>
    BY <1>1 DEF vars, options, work
  <2> QED  BY <2>1, MovesKeepReviews
<1>2. CASE \/ Validate \/ Identify \/ IdentitiesWritten \/ IdentifyFails
           \/ NoPlanLeft \/ AskQc \/ PublishMasks \/ Interrupt \/ Crash
  <2>1. UNCHANGED <<asynchronous, active, rows, reviews, reviewed, plan, dropped, cut>>
    BY <1>2 DEF Validate, Identify, IdentitiesWritten, IdentifyFails, NoPlanLeft, AskQc, PublishMasks,
       Interrupt, Crash, options, work
  <2>2. /\ at' \in {"returned", "raised"} => at = "identify"
        /\ at' \in BeforeLoop => at \in BeforeLoop
        /\ at' \notin Leaving
        /\ at' \in InLoop \ {"unwind"} => at \in InLoop \ {"unwind"}
        /\ at' \in InLoop => at \in InLoop
        /\ at' \in {"wait", "drain"} => at = "wait"
    BY <1>2 DEF Validate, Identify, IdentitiesWritten, IdentifyFails, NoPlanLeft, AskQc, PublishMasks,
       Interrupt, Crash, BeforeLoop, InLoop, Leaving
  <2>3. at = "identify" => reviews = << >> /\ \A j \in Job : plan[j] # "taken"
    BY <1>0 DEF PlansInOrder, ReviewsInOrder, BeforeLoop
  <2>4. at' # "mark"
    BY <2>2 DEF Leaving
  <2> QED  BY <2>1, <2>2, <2>3, <2>4, MovesKeepReviews
<1>3. CASE PlannerStep
  <2>1. /\ UNCHANGED <<asynchronous, at, active, rows, reviews, reviewed, dropped, cut>>
        /\ \A j \in Job : plan'[j] = "taken" => plan[j] = "taken"
    BY <1>3 DEF PlannerStep, PlanStarts, PlanRequests, PlanEnds, options, history, IInv, TypeOK
  <2> QED  BY <2>1, MovesKeepReviews
<1>4. CASE LeaveRenders \/ LeavePlanners \/ CutRenders \/ CutPlanners \/ CollectEnds \/ CutCollect
  <2>1. UNCHANGED <<asynchronous, active, rows, reviews, reviewed, plan, dropped>> /\ cut \subseteq cut'
    BY <1>4 DEF LeaveRenders, LeavePlanners, CutRenders, CutPlanners, CollectEnds, CutCollect, options, work
  <2>2. /\ at' \in Leaving /\ at \in Leaving \cup {"unwind"}
        /\ at = "unwind" => Unreviewed = {} \/ "reviews" \in cut'
        /\ at' = "mark" => /\ at = "collect"
                           /\ "reviews" \in cut' \/ (reviews # << >> => reviewed[Head(reviews)] = NoRow)
    BY <1>4 DEF LeaveRenders, LeavePlanners, CutRenders, CutPlanners, CollectEnds, CutCollect, Leaving,
       ReviewsRunDry
  <2>3. at' = "mark" => reviews = << >> \/ "reviews" \in cut'
    <3> SUFFICES ASSUME at' = "mark", "reviews" \notin cut', reviews # << >> PROVE FALSE
      OBVIOUS
    <3>1. Unreviewed = {}
      BY <2>1, <2>2 DEF ReviewInv, NothingLeft, Leaving
    <3>2. 1 \in DOMAIN reviews /\ Head(reviews) = reviews[1]
      BY DEF IInv, TypeOK
    <3> QED  BY <2>2, <3>1, <3>2 DEF Unreviewed
  <2>4. at' \notin {"returned", "raised", "wait", "drain"} /\ at' \notin BeforeLoop /\ at' \notin InLoop
    BY <2>2 DEF Leaving, BeforeLoop, InLoop
  <2>5. at \in InLoop \cup Leaving
    BY <2>2 DEF InLoop
  <2> QED  BY <2>1, <2>2, <2>3, <2>4, <2>5, MovesKeepReviews
<1> QED
  BY <1>1, <1>2, <1>3, <1>4, ReviewEndsKeepsReviews, TakePlanKeepsReviews, SamKeepsReviews,
     CollectKeepsReviews, PutAwayKeepsReviews, StartKeepsReviews, RestartKeepsReviews,
     FinishKeepsReviews, MarkKeepsReviews DEF Next, MainStep

LEMMA ReviewsAlways == Spec => [](IInv /\ ReviewInv)
<1>1. Init => ReviewInv
  BY DEF Init, ReviewInv, ReviewsInOrder, NothingLeft, NoReviewLost, InLoop, Leaving
<1> QED  BY <1>1, InitIInv, NextIInv, NextReviews, PTL DEF Spec

\* What rendering answered reaches the ledger, for any number of jobs and any
\* buffer, when the run ends by itself and when it is interrupted once; what a
\* second interrupt, or one between popping a review and storing it, cuts off
\* is all that can be missing.
THEOREM ReviewsReachTheLedger == Spec => []NoReviewLost
BY ReviewsAlways, PTL DEF ReviewInv

-----------------------------------------------------------------------------
(* Every job in the ledger of a run that ended *)

\* Jobs are submitted in order and none is passed over; while jobs are left
\* there is always a plan to wait for, so the loop ends with every plan taken
\* unless CUDA died.
Submitted ==
    /\ at \in InLoop => \A j \in Job : j < nextJob => plan[j] # "none"
    /\ \A j \in Job : plan[j] = "cancelled" => fatal
    /\ at \in OnJob \cup {"wait"} /\ nextJob <= NumJobs /\ (asynchronous \/ at = "wait")
          => \E j \in Job : j \in Outstanding(plan)
    /\ at = "drain" /\ ~fatal => \A j \in Job : plan[j] = "taken"

\* A ledger is written only after every identity is.
Identified ==
    ledger # "none" \/ at \in InLoop \cup Leaving \cup {"startup"} => \A j \in Job : identity[j]

\* Rows wait for rendering when the masks were there, or SAM made them.
PendingHasMasks ==
    \A j \in Job : rows[j].status = "pending_render" => complete[j] \/ plan[j] = "taken"

\* Steps of the planners and of the main thread that submit nothing.
LEMMA MovesKeepSubmitted ==
    ASSUME IInv, Submitted,
           UNCHANGED <<asynchronous, nextJob>>,
           fatal => fatal',
           \A j \in Job : plan'[j] = plan[j] \/ (j \in Outstanding(plan) /\ j \in Outstanding(plan')),
           at' \in InLoop => at \in InLoop,
           at' \in OnJob => at \in OnJob,
           at' = "wait" => at = "wait",
           at' = "drain" => at = "drain"
    PROVE  Submitted'
<1>1. \A j \in Job : j \in Outstanding(plan) => j \in Outstanding(plan')
  BY DEF Outstanding
<1>2. at' \in InLoop => \A j \in Job : j < nextJob => plan'[j] # "none"
  BY DEF Submitted, Outstanding
<1>3. \A j \in Job : plan'[j] = "cancelled" => fatal'
  BY DEF Submitted, Outstanding
<1>4. at' \in OnJob \cup {"wait"} /\ nextJob' <= NumJobs /\ (asynchronous' \/ at' = "wait")
          => \E j \in Job : j \in Outstanding(plan')
  BY <1>1 DEF Submitted, OnJob
<1>5. at' = "drain" /\ ~fatal' => \A j \in Job : plan'[j] = "taken"
  BY DEF Submitted, Outstanding
<1> QED  BY <1>2, <1>3, <1>4, <1>5 DEF Submitted

LEMMA StartSubmits ==
    ASSUME IInv, Startup
    PROVE  Submitted'
<1> DEFINE k == IF asynchronous THEN Prefetch ELSE 1
<1>1. k \in Nat \ {0} /\ SubmitUpTo(1, k, complete') /\ at' = "wait"
  BY UmiAssumption DEF Startup
<1> HIDE DEF k
<1>2. \A j \in Job : plan[j] = "none"
  BY DEF Startup, IInv, PlansInOrder, BeforeLoop
<1>3. \A j \in Job : plan'[j] = IF j < 1 + k THEN IF complete'[j] THEN "done" ELSE "queued" ELSE "none"
  BY <1>1, <1>2 DEF SubmitUpTo, Job
<1>4. nextJob' <= 1 + k /\ nextJob' \in Nat
  BY <1>1, UmiAssumption DEF SubmitUpTo
<1>5. 1 \in Job /\ 1 \in Outstanding(plan')
  BY <1>1, <1>3, UmiAssumption DEF Job, Outstanding
<1>6. \A j \in Job : j < nextJob' => plan'[j] # "none"
  BY <1>1, <1>3, <1>4, UmiAssumption DEF Job
<1>7. \A j \in Job : plan'[j] # "cancelled"
  BY <1>3
<1> QED  BY <1>1, <1>5, <1>6, <1>7 DEF Submitted

LEMMA TakePlanKeepsSubmitted ==
    ASSUME IInv, Submitted, NEW j \in Job, TakePlan(j)
    PROVE  Submitted'
<1>0. /\ TypeOK /\ PlansInOrder /\ at = "wait" /\ at' \in {"review", "sam"}
      /\ UNCHANGED <<asynchronous, fatal>> /\ nextJob \in 1..(NumJobs + 1) /\ NumJobs \in Nat
  BY UmiAssumption DEF TakePlan, options, IInv, TypeOK
<1>1. CASE asynchronous /\ nextJob <= NumJobs
  <2>1. nextJob \in Job /\ nextJob # j
    BY <1>0, <1>1 DEF TakePlan, PlansInOrder, Job
  <2>2. /\ nextJob' = nextJob + 1
        /\ plan'[nextJob] \in {"done", "queued"} /\ plan'[j] = "taken"
        /\ \A i \in Job : i # j /\ i # nextJob => plan'[i] = plan[i]
    BY <1>0, <1>1, <2>1 DEF TakePlan, TypeOK
  <2>3. nextJob \in Outstanding(plan')
    BY <2>1, <2>2 DEF Outstanding
  <2>4. \A i \in Job : i < nextJob' => plan'[i] # "none"
    <3>1. \A i \in Job : i < nextJob + 1 => i < nextJob \/ i = nextJob
      BY <1>0 DEF Job
    <3> QED  BY <1>0, <2>2, <3>1 DEF Submitted, InLoop
  <2> QED  BY <1>0, <2>1, <2>2, <2>3, <2>4 DEF Submitted
<1>2. CASE ~(asynchronous /\ nextJob <= NumJobs)
  <2>1. /\ nextJob' = nextJob /\ plan'[j] = "taken"
        /\ \A i \in Job : i # j => plan'[i] = plan[i]
    BY <1>0, <1>2 DEF TakePlan, TypeOK
  <2>2. \A i \in Job : i < nextJob' => plan'[i] # "none"
    BY <1>0, <2>1 DEF Submitted, InLoop
  <2> QED  BY <1>0, <1>2, <2>1, <2>2 DEF Submitted
<1> QED  BY <1>1, <1>2

\* The loop waits for plans as long as any job is left.
LEMMA NoPlanLeftKeepsSubmitted ==
    ASSUME IInv, Submitted, NoPlanLeft
    PROVE  Submitted'
<1>1. /\ at = "wait" /\ at' = "drain" /\ UNCHANGED <<asynchronous, nextJob, plan, fatal>>
      /\ \A j \in Job : j \notin Outstanding(plan)
  BY DEF NoPlanLeft, options, work
<1>2. nextJob > NumJobs
  BY <1>1, UmiAssumption DEF Submitted, IInv, TypeOK
<1>3. \A j \in Job : j < nextJob
  BY <1>2, UmiAssumption DEF Job, IInv, TypeOK
<1>4. \A j \in Job : plan[j] \in {"taken", "cancelled"}
  BY <1>1, <1>3 DEF Submitted, InLoop, Outstanding, IInv, TypeOK
<1> QED  BY <1>1, <1>4 DEF Submitted, InLoop, OnJob

LEMMA NextRoundKeepsSubmitted ==
    ASSUME IInv, Submitted, SubmitReview \/ ReviewInline
    PROVE  Submitted'
<1>0. /\ TypeOK /\ PlansInOrder /\ at = "review" /\ at' = IF fatal THEN "drain" ELSE "wait"
      /\ UNCHANGED <<asynchronous, fatal>> /\ nextJob \in 1..(NumJobs + 1) /\ NumJobs \in Nat
  BY UmiAssumption DEF SubmitReview, ReviewInline, NextRound, options, IInv, TypeOK
<1>1. CASE fatal
  <2>1. nextJob' = nextJob /\ NextRound(plan)
    BY <1>1 DEF SubmitReview, ReviewInline
  <2>2. \A j \in Job : plan'[j] # "none" <=> plan[j] # "none"
    BY <1>1, <2>1 DEF NextRound
  <2> QED  BY <1>0, <1>1, <2>1, <2>2 DEF Submitted, InLoop, OnJob
<1>2. CASE ~fatal /\ ReviewInline /\ nextJob <= NumJobs
  <2>1. nextJob \in Job
    BY <1>0, <1>2 DEF Job
  <2>2. /\ nextJob' = nextJob + 1
        /\ plan'[nextJob] \in {"done", "queued"}
        /\ \A i \in Job : i # nextJob => plan'[i] = plan[i]
    BY <1>0, <1>2, <2>1 DEF ReviewInline, NextRound, TypeOK
  <2>3. nextJob \in Outstanding(plan')
    BY <2>1, <2>2 DEF Outstanding
  <2>4. \A i \in Job : i < nextJob' => plan'[i] # "none"
    <3>1. \A i \in Job : i < nextJob + 1 => i < nextJob \/ i = nextJob
      BY <1>0 DEF Job
    <3> QED  BY <1>0, <2>2, <3>1 DEF Submitted, InLoop
  <2> QED  BY <1>0, <1>2, <2>1, <2>2, <2>3, <2>4 DEF Submitted
<1>3. CASE ~fatal /\ ~(ReviewInline /\ nextJob <= NumJobs)
  <2>1. UNCHANGED <<plan, nextJob>> /\ (asynchronous \/ nextJob > NumJobs)
    BY <1>0, <1>3 DEF SubmitReview, ReviewInline, NextRound
  <2>2. nextJob' <= NumJobs => \E j \in Job : j \in Outstanding(plan')
    BY <1>0, <2>1 DEF Submitted, OnJob
  <2> QED  BY <1>0, <1>3, <2>1, <2>2 DEF Submitted, InLoop
<1> QED  BY <1>1, <1>2, <1>3

LEMMA NextSubmitted == IInv /\ FatalInOrder /\ Submitted /\ [Next]_vars => Submitted'
<1> SUFFICES ASSUME IInv, FatalInOrder, Submitted, [Next]_vars PROVE Submitted'
  OBVIOUS
<1>1. CASE \/ UNCHANGED vars \/ Validate \/ Identify \/ IdentitiesWritten \/ AskQc \/ PublishMasks
           \/ SamCompletes \/ CollectReview \/ Finish \/ ReviewEnds
           \/ IdentifyFails \/ StartupFails \/ Interrupt \/ InterruptAfterReview \/ Crash
           \/ LeaveRenders \/ LeavePlanners \/ CollectEnds \/ Mark
           \/ CutRenders \/ CutPlanners \/ DropReview \/ CutCollect \/ CutMark
  <2>1. UNCHANGED <<asynchronous, nextJob, fatal, plan>>
    BY <1>1 DEF vars, Validate, Identify, IdentitiesWritten, AskQc, PublishMasks, SamCompletes,
       CollectReview, Finish, ReviewEnds, IdentifyFails, StartupFails, Interrupt,
       InterruptAfterReview, Crash, LeaveRenders, LeavePlanners, CollectEnds, Mark, CutRenders, CutPlanners,
       DropReview, CutCollect, CutMark, options, work
  <2>2. /\ at' \in InLoop => at \in InLoop
        /\ at' \in OnJob => at \in OnJob
        /\ at' = "wait" => at = "wait"
        /\ at' = "drain" => at = "drain"
    BY <1>1 DEF vars, Validate, Identify, IdentitiesWritten, AskQc, PublishMasks, SamCompletes,
       CollectReview, Finish, ReviewEnds, IdentifyFails, StartupFails, Interrupt,
       InterruptAfterReview, Crash, LeaveRenders, LeavePlanners, CollectEnds, Mark, CutRenders, CutPlanners,
       DropReview, CutCollect, CutMark, InLoop, OnJob
  <2> QED  BY <2>1, <2>2, MovesKeepSubmitted
<1>2. CASE SamFails
  <2>1. UNCHANGED <<asynchronous, nextJob, plan>> /\ at \in {"sam", "qc", "published"} /\ at' = "review"
    BY <1>2 DEF SamFails, options
  <2>2. ~fatal
    BY <2>1 DEF FatalInOrder, Leaving
  <2> QED  BY <2>1, <2>2, MovesKeepSubmitted DEF InLoop, OnJob
<1>3. CASE PlannerStep
  <2>1. UNCHANGED <<asynchronous, nextJob, fatal, at>>
    BY <1>3 DEF PlannerStep, PlanStarts, PlanRequests, PlanEnds, options
  <2>2. \A j \in Job : plan'[j] = plan[j] \/ (j \in Outstanding(plan) /\ j \in Outstanding(plan'))
    BY <1>3 DEF PlannerStep, PlanStarts, PlanRequests, PlanEnds, Outstanding, IInv, TypeOK
  <2> QED  BY <2>1, <2>2, MovesKeepSubmitted
<1>4. CASE Restart
  BY <1>4 DEF Restart, Submitted, InLoop, OnJob
<1> QED
  BY <1>1, <1>2, <1>3, <1>4, StartSubmits, TakePlanKeepsSubmitted, NoPlanLeftKeepsSubmitted,
     NextRoundKeepsSubmitted DEF Next, MainStep

LEMMA NextIdentified == IInv /\ Identified /\ [Next]_vars => Identified'
<1> SUFFICES ASSUME IInv, Identified, [Next]_vars PROVE Identified'
  OBVIOUS
<1>1. CASE Identify
  <2>1. ledger = "none" /\ UNCHANGED <<at, ledger>> /\ at = "identify"
    BY <1>1 DEF Identify, Identified
  <2> QED  BY <2>1 DEF Identified, InLoop, Leaving
<1>2. CASE IdentitiesWritten
  BY <1>2 DEF IdentitiesWritten, disk, Identified
<1>3. CASE ~Identify /\ ~IdentitiesWritten
  <2>1. /\ UNCHANGED identity
        /\ ledger' # "none" => ledger # "none" \/ at \in InLoop \cup Leaving \cup {"startup"}
        /\ at' \in InLoop \cup Leaving \cup {"startup"} => at \in InLoop \cup Leaving \cup {"startup"}
    BY <1>3 DEF Next, MainStep, PlannerStep, vars, Validate, Startup, TakePlan, NoPlanLeft, AskQc,
       PublishMasks, SamCompletes, SamFails, CollectReview, SubmitReview, ReviewInline, NextRound, Finish,
       LeaveRenders, LeavePlanners, CollectEnds, Mark, CutRenders, CutPlanners, DropReview, CutCollect, CutMark,
       PlanStarts, PlanRequests, PlanEnds, ReviewEnds, IdentifyFails, StartupFails, Interrupt,
       InterruptAfterReview, Crash, Restart, disk, InLoop, Leaving
  <2> QED  BY <2>1 DEF Identified
<1> QED  BY <1>1, <1>2, <1>3

LEMMA NextPending == IInv /\ ReviewInv /\ PendingHasMasks /\ [Next]_vars => PendingHasMasks'
<1> SUFFICES ASSUME IInv, ReviewInv, PendingHasMasks, [Next]_vars PROVE PendingHasMasks'
  OBVIOUS
<1>0. TypeOK /\ PlansInOrder /\ ReviewsInOrder
  BY DEF IInv, ReviewInv
<1>1. CASE \/ UNCHANGED vars \/ Validate \/ Identify \/ IdentitiesWritten \/ NoPlanLeft \/ AskQc
           \/ PublishMasks \/ ReviewEnds \/ IdentifyFails \/ Interrupt \/ Crash \/ LeaveRenders
           \/ LeavePlanners \/ CollectEnds \/ CutRenders \/ CutPlanners \/ DropReview \/ CutCollect
  BY <1>1 DEF vars, Validate, Identify, IdentitiesWritten, NoPlanLeft, AskQc, PublishMasks, ReviewEnds,
     IdentifyFails, Interrupt, Crash, LeaveRenders, LeavePlanners, CollectEnds, CutRenders, CutPlanners,
     DropReview, CutCollect, work, PendingHasMasks
<1>2. CASE PlannerStep
  <2>1. UNCHANGED <<rows, complete>> /\ \A j \in Job : plan[j] = "taken" => plan'[j] = "taken"
    BY <1>0, <1>2 DEF PlannerStep, PlanStarts, PlanRequests, PlanEnds, TypeOK
  <2> QED  BY <2>1 DEF PendingHasMasks
<1>3. CASE Startup \/ StartupFails
  <2>1. \A j \in Job : rows'[j] = NoRow \/ complete'[j]
    BY <1>3 DEF Startup, StartupFails
  <2> QED  BY <2>1 DEF PendingHasMasks, NoRow
<1>4. ASSUME NEW j \in Job, TakePlan(j) PROVE PendingHasMasks'
  <2>1. UNCHANGED complete /\ \A i \in Job : i # j => rows'[i] = rows[i]
    BY <1>0, <1>4 DEF TakePlan, TypeOK
  <2>2. plan'[j] = "taken" /\ \A i \in Job : plan[i] = "taken" => plan'[i] = "taken"
    <3>1. nextJob # j /\ (nextJob \in Job => plan[nextJob] = "none")
      BY <1>0, <1>4, UmiAssumption DEF TakePlan, PlansInOrder, TypeOK, Job
    <3> QED  BY <1>0, <1>4, <3>1 DEF TakePlan, TypeOK
  <2> QED  BY <2>1, <2>2 DEF PendingHasMasks
<1>5. CASE SamCompletes \/ SamFails
  <2>1. UNCHANGED <<complete, plan>> /\ active \in Job /\ plan[active] = "taken"
    BY <1>0, <1>5 DEF SamCompletes, SamFails, PlansInOrder, OnJob
  <2>2. \A i \in Job : i # active => rows'[i] = rows[i]
    BY <1>0, <1>5 DEF SamCompletes, SamFails, TypeOK
  <2> QED  BY <2>1, <2>2 DEF PendingHasMasks
<1>6. CASE CollectReview
  <2>1. /\ UNCHANGED <<complete, plan>>
        /\ \A i \in Job : rows'[i] = rows[i] \/ (reviewed[i] # NoRow /\ rows'[i] = reviewed[i])
    BY <1>0, <1>6 DEF CollectReview, TypeOK
  <2>2. \A i \in Job : rows'[i].status = "pending_render" => rows'[i] = rows[i]
    BY <1>0, <2>1 DEF ReviewsInOrder, Answered
  <2> QED  BY <2>1, <2>2 DEF PendingHasMasks
<1>7. CASE SubmitReview \/ ReviewInline \/ InterruptAfterReview
  <2>1. active \in Job /\ plan[active] = "taken" /\ UNCHANGED complete
    BY <1>0, <1>7 DEF SubmitReview, ReviewInline, InterruptAfterReview, PlansInOrder, OnJob
  <2>2. \A i \in Job : plan[i] = "taken" => plan'[i] = "taken"
    <3>1. nextJob \in Job => plan[nextJob] = "none"
      BY <1>0 DEF PlansInOrder, TypeOK, Job
    <3> QED  BY <1>0, <1>7, <3>1 DEF SubmitReview, ReviewInline, InterruptAfterReview, NextRound, TypeOK
  <2>3. \A i \in Job : i # active => rows'[i] = rows[i]
    BY <1>0, <1>7 DEF SubmitReview, ReviewInline, InterruptAfterReview, TypeOK
  <2> QED  BY <2>1, <2>2, <2>3 DEF PendingHasMasks
<1>8. CASE Finish
  <2>1. UNCHANGED <<complete, plan>> /\ \A i \in Job : rows'[i] \in {rows[i], NotRun}
    BY <1>8 DEF Finish, RowsWithUnstarted
  <2> QED  BY <2>1 DEF PendingHasMasks, NotRun
<1>9. CASE Mark \/ CutMark
  <2>1. UNCHANGED <<complete, plan>>
    BY <1>9 DEF Mark, CutMark
  <2>2. ASSUME NEW i \in Job, rows'[i].status = "pending_render" PROVE rows'[i] = rows[i]
    <3>1. rows'[i] # NotRun
      BY <2>2 DEF NotRun
    <3>2. \A r, b : r = [status |-> "interrupted", masks |-> b] => r.status = "interrupted"
      BY Z3
    <3>3. rows'[i] # [status |-> "interrupted", masks |-> rows[i].masks]
      <4> SUFFICES ASSUME rows'[i] = [status |-> "interrupted", masks |-> rows[i].masks] PROVE FALSE
        OBVIOUS
      <4>1. rows'[i].status = "interrupted"
        BY <3>2, Zenon
      <4> QED  BY <2>2, <4>1
    <3>4. rows'[i] \in {[status |-> "interrupted", masks |-> rows[i].masks], NotRun, rows[i]}
      BY <1>9, MarkedRows
    <3> QED  BY <3>1, <3>3, <3>4
  <2> QED  BY <2>1, <2>2 DEF PendingHasMasks
<1>10. CASE Restart
  BY <1>10 DEF Restart, PendingHasMasks, NoRow
<1> QED
  BY <1>1, <1>2, <1>3, <1>4, <1>5, <1>6, <1>7, <1>8, <1>9, <1>10 DEF Next, MainStep

Accounted ==
    FatalInOrder /\ ReviewInv /\ Submitted /\ Identified /\ PendingHasMasks /\ EveryJobAccounted

\* A batch that is finished has taken every plan, so every row was reviewed; a
\* failed one gives a row to the jobs it never came to.
LEMMA FinishAccounts ==
    ASSUME IInv, Accounted, Finish, NoReviewLost', PendingHasMasks'
    PROVE  EveryJobAccounted'
<1>0. /\ at = "drain" /\ at' \in {"returned", "raised"}
      /\ UNCHANGED <<plan, active, complete>>
      /\ rows' = IF fatal THEN RowsWithUnstarted ELSE rows
      /\ ledger' = "failed" \/ (~fatal /\ ledger' = "finished")
  BY DEF Finish
<1>1. \A j \in Job : j # active
  BY <1>0, UmiAssumption DEF Accounted, ReviewInv, ReviewsInOrder, Job
<1>2. \A j \in Job : plan[j] = "taken" => rows'[j].status \in {"reviewed", "render_failed", "failed"}
  <2>1. dropped' = {} /\ DOMAIN reviews' = {}
    BY <1>0 DEF Finish, history, Accounted, ReviewInv, ReviewsInOrder, InLoop
  <2>2. \A j \in Job : ~CutOff(j)'
    BY <2>1 DEF CutOff
  <2> QED  BY <1>0, <1>1, <2>2 DEF NoReviewLost
<1>3. CASE ~fatal
  BY <1>0, <1>2, <1>3 DEF Accounted, Submitted, EveryJobAccounted, NoRow
<1>4. CASE fatal
  <2>1. \A j \in Job : rows'[j] # NoRow
    BY <1>0, <1>4 DEF RowsWithUnstarted, NotRun, NoRow
  <2> QED  BY <1>0, <1>2, <1>4, <2>1 DEF PendingHasMasks, EveryJobAccounted
<1> QED  BY <1>3, <1>4

\* After an interrupt the reviews cut off and the rows not marked are what is
\* missing.
LEMMA MarkAccounts ==
    ASSUME IInv, Accounted, Mark \/ CutMark, NoReviewLost', PendingHasMasks'
    PROVE  EveryJobAccounted'
<1>0. /\ at' = "raised" /\ ledger' = "failed" /\ UNCHANGED <<plan, active, complete>>
  BY DEF Mark, CutMark
<1>1. ASSUME NEW j \in Job PROVE rows'[j] = NoRow => "rows" \in cut'
  <2>1. CASE CutMark
    BY <2>1 DEF CutMark
  <2>2. CASE Mark
    <3>1. rows'[j] = IF j = active /\ rows[j].status # "reviewed"
                     THEN [status |-> "interrupted", masks |-> rows[j].masks]
                     ELSE IF rows[j] = NoRow THEN NotRun ELSE rows[j]
      BY <2>2, UmiAssumption DEF Mark, Marked, Job
    <3>2. \A r, b : r = [status |-> "interrupted", masks |-> b] => r.status = "interrupted"
      BY Z3
    <3>3. NoRow.status = "none" /\ NotRun # NoRow
      BY DEF NoRow, NotRun
    <3>4. CASE j = active /\ rows[j].status # "reviewed"
      <4>1. rows'[j] = [status |-> "interrupted", masks |-> rows[j].masks]
        BY <3>1, <3>4
      <4>2. rows'[j].status = "interrupted"
        BY <3>2, <4>1, Zenon
      <4> QED  BY <3>3, <4>2
    <3>5. CASE ~(j = active /\ rows[j].status # "reviewed")
      BY <3>1, <3>3, <3>5
    <3> QED  BY <3>4, <3>5
  <2> QED  BY <2>1, <2>2
<1>2. ASSUME NEW j \in Job, rows'[j].status = "pending_render"
      PROVE  complete'[j] \/ CutOff(j)' \/ (j = active' /\ "rows" \in cut')
  <2>1. complete'[j] \/ plan'[j] = "taken"
    BY <1>2 DEF PendingHasMasks
  <2> QED  BY <1>0, <1>2, <2>1 DEF NoReviewLost
<1> QED  BY <1>0, <1>1, <1>2 DEF EveryJobAccounted

LEMMA NextAccounted == IInv /\ Accounted /\ [Next]_vars => Accounted'
<1> SUFFICES ASSUME IInv, Accounted, [Next]_vars PROVE Accounted'
  OBVIOUS
<1>1. FatalInOrder' /\ ReviewInv' /\ Submitted' /\ Identified' /\ PendingHasMasks'
  BY FatalNext, NextReviews, NextSubmitted, NextIdentified, NextPending DEF Accounted
<1>2. CASE Finish
  BY <1>1, <1>2, FinishAccounts DEF ReviewInv, Accounted
<1>3. CASE Mark \/ CutMark
  BY <1>1, <1>3, MarkAccounts DEF ReviewInv, Accounted
<1>5. CASE IdentifyFails
  <2>1. ledger = "none" /\ ledger' = ledger
    BY <1>5 DEF IdentifyFails, Accounted, Identified
  <2> QED  BY <1>1, <2>1 DEF Accounted, EveryJobAccounted
<1>6. CASE UNCHANGED vars \/ PlannerStep \/ ReviewEnds
  <2>1. UNCHANGED <<at, ledger, rows, complete, active, reviews, dropped, cut>>
    BY <1>6 DEF vars, work, history, PlannerStep, PlanStarts, PlanRequests, PlanEnds, ReviewEnds
  <2>2. \A j \in Job : CutOff(j) => CutOff(j)'
    BY <2>1 DEF CutOff
  <2> QED  BY <1>1, <2>1, <2>2 DEF Accounted, EveryJobAccounted
<1>7. CASE \/ Validate \/ Identify \/ IdentitiesWritten \/ Startup \/ (\E j \in Job : TakePlan(j))
           \/ NoPlanLeft \/ AskQc \/ PublishMasks \/ SamCompletes \/ SamFails \/ CollectReview
           \/ SubmitReview \/ ReviewInline \/ Interrupt \/ InterruptAfterReview \/ Crash \/ Restart
           \/ StartupFails \/ LeaveRenders \/ LeavePlanners \/ CollectEnds \/ CutRenders \/ CutPlanners
           \/ DropReview \/ CutCollect
  <2>1. at' \notin {"returned", "raised"}
    BY <1>7 DEF Validate, Identify, IdentitiesWritten, Startup, TakePlan, NoPlanLeft, AskQc, PublishMasks,
       SamCompletes, SamFails, CollectReview, SubmitReview, ReviewInline, NextRound, Interrupt,
       InterruptAfterReview, Crash, Restart, StartupFails, LeaveRenders, LeavePlanners, CollectEnds,
       CutRenders, CutPlanners, DropReview, CutCollect
  <2> QED  BY <1>1, <2>1 DEF Accounted, EveryJobAccounted
<1> QED
  BY <1>2, <1>3, <1>5, <1>6, <1>7 DEF Next, MainStep

\* A final ledger names every job, for any number of jobs, starts and crashes: a
\* finished one has none unreviewed, a failed one only masks of earlier runs and
\* reviews that were cut off; only an interrupt of the marking leaves out a job.
THEOREM LedgerNamesEveryJob == Spec => []EveryJobAccounted
<1>1. Init => Accounted
  BY DEF Init, Accounted, FatalInOrder, ReviewInv, ReviewsInOrder, NothingLeft, NoReviewLost, Submitted,
     Identified, PendingHasMasks, EveryJobAccounted, InLoop, Leaving, OnJob, NoRow
<1>2. Accounted => EveryJobAccounted
  BY DEF Accounted
<1> QED  BY <1>1, <1>2, InitIInv, NextIInv, NextAccounted, PTL DEF Spec

-----------------------------------------------------------------------------
(* Termination, without its fairness: every step of a run brings its end    *)
(* nearer, and somebody can take one.                                       *)

\* The steps that the plan of j may still take, and the jobs with k left.
PlanLeft(j) ==
    CASE plan[j] = "none" -> 5
      [] plan[j] = "queued" -> 4
      [] plan[j] = "planning" -> 3
      [] plan[j] = "requesting" -> 2
      [] plan[j] \in {"done", "failed"} -> 1
      [] plan[j] \in {"taken", "cancelled"} -> 0
ToDo(k) == {j \in Job : PlanLeft(j) >= k}

\* A plan that is taken up sends the main thread through another round.
PlanWork ==
    10 * Cardinality(ToDo(1)) + Cardinality(ToDo(2)) + Cardinality(ToDo(3))
        + Cardinality(ToDo(4)) + Cardinality(ToDo(5))

MainWork ==
    CASE at = "validate" -> 23
      [] at = "identify" -> 21
      [] at = "startup" -> 19
      [] at = "sam" -> 15
      [] at = "qc" -> 14
      [] at = "published" -> 13
      [] at = "review" -> 12
      [] at = "wait" -> 7
      [] at = "drain" -> 6
      [] at = "unwind" -> 4
      [] at = "unwindPlans" -> 3
      [] at = "collect" -> 2
      [] at = "mark" -> 1
      [] at \in Ended -> 0

ToReview == {j \in Job : reviewed[j] = NoRow}
ToIdentify == {j \in Job : ~identity[j]}
ToMake == {j \in Job : ~folder[j]}
JobWork == Cardinality(ToReview) + Cardinality(ToIdentify) + Cardinality(ToMake)

WorkLeft == MainWork + PlanWork + JobWork + Len(reviews)

\* The guards of MainStep and PlannerStep, without the failures of a plan, and
\* of ReviewEnds.
MainMayMove ==
    \/ at \in {"validate", "identify", "startup", "qc", "published", "collect", "mark"}
    \/ at = "wait" /\ (Outstanding(plan) = {} \/ \E j \in Job : plan[j] \in {"done", "failed"})
    \/ at = "sam" /\ TokenFree
    \/ at = "review" /\ (~asynchronous \/ Len(reviews) < RenderBuffer)
    \/ at \in {"review", "drain"} /\ reviews # << >> /\ reviewed[Head(reviews)] # NoRow
    \/ at = "drain" /\ reviews = << >> /\ ReviewsRunDry /\ PlansRunDry
    \/ at = "unwind" /\ ReviewsRunDry
    \/ at = "unwindPlans" /\ PlansRunDry
PlannerMayMove ==
    \/ \E j \in Job : plan[j] = "requesting"
    \/ TokenFree /\ \E j \in Job : plan[j] = "planning"
    \/ Cardinality(Planning) < PlannerCount /\ \E j \in Job : plan[j] = "queued"
ReviewMayEnd == Unreviewed # {}

SomebodyMoves == at \notin Ended => MainMayMove \/ PlannerMayMove \/ ReviewMayEnd

-----------------------------------------------------------------------------
LEMMA OneLess ==
    ASSUME NEW T \in SUBSET Job, NEW S \in SUBSET T
    PROVE  /\ Cardinality(S) <= Cardinality(T) /\ Cardinality(S) \in Nat /\ Cardinality(T) \in Nat
           /\ S # T => Cardinality(S) < Cardinality(T)
<1>1. /\ Cardinality(S) <= Cardinality(T) /\ Cardinality(S) \in Nat /\ Cardinality(T) \in Nat
      /\ IsFiniteSet(T)
  BY JobsAreFinite
<1>2. ASSUME S # T PROVE Cardinality(S) < Cardinality(T)
  <2>1. PICK j \in T : j \notin S
    BY <1>2
  <2>2. S \in SUBSET (T \ {j}) /\ T \ {j} \in SUBSET Job
    BY <2>1
  <2>3. Cardinality(S) <= Cardinality(T \ {j})
    BY <2>2, JobsAreFinite
  <2>4. Cardinality(T \ {j}) = Cardinality(T) - 1
    BY <1>1, <2>1, FS_RemoveElement
  <2> QED  BY <1>1, <2>3, <2>4
<1> QED  BY <1>1, <1>2

LEMMA PlanLeftType ==
    /\ TypeOK => \A j \in Job : PlanLeft(j) \in 0..5
    /\ TypeOK' => \A j \in Job : PlanLeft(j)' \in 0..5
<1>1. TypeOK => \A j \in Job : PlanLeft(j) \in 0..5
  <2> SUFFICES ASSUME TypeOK, NEW j \in Job PROVE PlanLeft(j) \in 0..5
    OBVIOUS
  <2>1. plan[j] \in {"none", "queued", "planning", "requesting", "done", "failed", "taken", "cancelled"}
    BY DEF TypeOK
  <2> QED  BY <2>1 DEF PlanLeft
<1>2. TypeOK' => \A j \in Job : PlanLeft(j)' \in 0..5
  <2> SUFFICES ASSUME TypeOK', NEW j \in Job PROVE PlanLeft(j)' \in 0..5
    OBVIOUS
  <2>1. plan'[j] \in {"none", "queued", "planning", "requesting", "done", "failed", "taken", "cancelled"}
    BY DEF TypeOK
  <2> QED  BY <2>1 DEF PlanLeft
<1> QED  BY <1>1, <1>2

\* Plans only go forward.
LEMMA PlansGoForward ==
    ASSUME TypeOK, TypeOK', \A j \in Job : PlanLeft(j)' <= PlanLeft(j)
    PROVE  /\ PlanWork \in Nat /\ PlanWork' \in Nat /\ PlanWork' <= PlanWork
           /\ (\E j \in Job : PlanLeft(j)' < PlanLeft(j)) => PlanWork' < PlanWork
           /\ (\E j \in Job : PlanLeft(j) > 0 /\ PlanLeft(j)' = 0) => PlanWork' + 10 <= PlanWork
<1>1. \A k \in 1..5 : ToDo(k) \in SUBSET Job /\ ToDo(k)' \in SUBSET ToDo(k)
  <2> SUFFICES ASSUME NEW k \in 1..5, NEW j \in Job, PlanLeft(j)' >= k PROVE PlanLeft(j) >= k
    BY DEF ToDo
  <2> QED  BY PlanLeftType
<1>2. \A k \in 1..5 :
          /\ Cardinality(ToDo(k)') <= Cardinality(ToDo(k))
          /\ Cardinality(ToDo(k)') \in Nat /\ Cardinality(ToDo(k)) \in Nat
          /\ ToDo(k)' # ToDo(k) => Cardinality(ToDo(k)') < Cardinality(ToDo(k))
  BY <1>1, OneLess
<1>3. PICK a, b, c, d, e \in Nat :
          /\ a = Cardinality(ToDo(1)) /\ b = Cardinality(ToDo(2)) /\ c = Cardinality(ToDo(3))
          /\ d = Cardinality(ToDo(4)) /\ e = Cardinality(ToDo(5))
  <2>1. /\ Cardinality(ToDo(1)) \in Nat /\ Cardinality(ToDo(2)) \in Nat /\ Cardinality(ToDo(3)) \in Nat
        /\ Cardinality(ToDo(4)) \in Nat /\ Cardinality(ToDo(5)) \in Nat
    BY <1>2
  <2> QED  BY <2>1
<1>4. PICK f, g, h, i, l \in Nat :
          /\ f = Cardinality(ToDo(1)') /\ g = Cardinality(ToDo(2)') /\ h = Cardinality(ToDo(3)')
          /\ i = Cardinality(ToDo(4)') /\ l = Cardinality(ToDo(5)')
  <2>1. /\ Cardinality(ToDo(1)') \in Nat /\ Cardinality(ToDo(2)') \in Nat /\ Cardinality(ToDo(3)') \in Nat
        /\ Cardinality(ToDo(4)') \in Nat /\ Cardinality(ToDo(5)') \in Nat
    BY <1>2
  <2> QED  BY <2>1
<1>5. f <= a /\ g <= b /\ h <= c /\ i <= d /\ l <= e
  BY <1>2, <1>3, <1>4
<1>6. PlanWork = 10 * a + b + c + d + e /\ PlanWork' = 10 * f + g + h + i + l
  BY <1>3, <1>4 DEF PlanWork
<1>7. ASSUME NEW j \in Job, PlanLeft(j)' < PlanLeft(j) PROVE PlanWork' < PlanWork
  <2>1. PICK k \in 1..5 : PlanLeft(j) >= k /\ ~(PlanLeft(j)' >= k)
    <3>1. PICK k \in 0..5 : k = PlanLeft(j)
      BY PlanLeftType
    <3>2. PICK m \in 0..5 : m = PlanLeft(j)'
      BY PlanLeftType
    <3> QED  BY <1>7, <3>1, <3>2
  <2>2. ToDo(k)' # ToDo(k)
    BY <2>1 DEF ToDo
  <2>3. f < a \/ g < b \/ h < c \/ i < d \/ l < e
    BY <1>2, <1>3, <1>4, <2>2
  <2> QED  BY <1>5, <1>6, <2>3
<1>8. ASSUME NEW j \in Job, PlanLeft(j) > 0, PlanLeft(j)' = 0 PROVE PlanWork' + 10 <= PlanWork
  <2>1. ToDo(1)' # ToDo(1)
    BY <1>8, PlanLeftType DEF ToDo
  <2>2. f < a
    BY <1>2, <1>3, <1>4, <2>1
  <2> QED  BY <1>5, <1>6, <2>2
<1> QED  BY <1>5, <1>6, <1>7, <1>8

\* What a job gets it keeps.
LEMMA JobsGoForward ==
    ASSUME ToReview' \in SUBSET ToReview, ToIdentify' \in SUBSET ToIdentify, ToMake' \in SUBSET ToMake
    PROVE  /\ JobWork \in Nat /\ JobWork' \in Nat /\ JobWork' <= JobWork
           /\ ToReview' # ToReview \/ ToIdentify' # ToIdentify \/ ToMake' # ToMake => JobWork' < JobWork
<1>1. ToReview \in SUBSET Job /\ ToIdentify \in SUBSET Job /\ ToMake \in SUBSET Job
  BY DEF ToReview, ToIdentify, ToMake
<1>2. PICK a, b, c \in Nat : a = Cardinality(ToReview) /\ b = Cardinality(ToIdentify) /\ c = Cardinality(ToMake)
  BY <1>1, OneLess
<1>3. PICK f, g, h \in Nat :
          f = Cardinality(ToReview') /\ g = Cardinality(ToIdentify') /\ h = Cardinality(ToMake')
  BY <1>1, OneLess
<1>4. f <= a /\ g <= b /\ h <= c
  BY <1>1, <1>2, <1>3, OneLess
<1>5. ToReview' # ToReview \/ ToIdentify' # ToIdentify \/ ToMake' # ToMake => f < a \/ g < b \/ h < c
  BY <1>1, <1>2, <1>3, OneLess
<1>6. JobWork = a + b + c /\ JobWork' = f + g + h
  BY <1>2, <1>3 DEF JobWork
<1> QED  BY <1>4, <1>5, <1>6

\* Ways to lessen the sum.
LEMMA LessWork ==
    ASSUME IInv, IInv', ToReview' \in SUBSET ToReview, ToIdentify' \in SUBSET ToIdentify,
           ToMake' \in SUBSET ToMake, \A j \in Job : PlanLeft(j)' <= PlanLeft(j),
           \/ /\ MainWork' <= MainWork /\ Len(reviews') <= Len(reviews)
              /\ \/ \E j \in Job : PlanLeft(j)' < PlanLeft(j)
                 \/ ToReview' # ToReview \/ ToIdentify' # ToIdentify \/ ToMake' # ToMake
                 \/ MainWork' < MainWork
                 \/ Len(reviews') < Len(reviews)
           \/ MainWork' + 5 <= MainWork /\ Len(reviews') = Len(reviews) + 1
           \/ /\ MainWork' <= MainWork + 8 /\ Len(reviews') = Len(reviews)
              /\ \E j \in Job : PlanLeft(j) > 0 /\ PlanLeft(j)' = 0
    PROVE  WorkLeft' < WorkLeft
<1>1. TypeOK /\ TypeOK'
  BY DEF IInv
<1>2. MainWork \in Nat /\ MainWork' \in Nat
  BY <1>1 DEF TypeOK, MainWork, Ended
<1>3. Len(reviews) \in Nat /\ Len(reviews') \in Nat
  BY <1>1 DEF TypeOK
<1>4. PICK a, b, c, d \in Nat : a = MainWork /\ b = PlanWork /\ c = JobWork /\ d = Len(reviews)
  BY <1>1, <1>2, <1>3, PlansGoForward, JobsGoForward
<1>5. PICK e, f, g, h \in Nat : e = MainWork' /\ f = PlanWork' /\ g = JobWork' /\ h = Len(reviews')
  BY <1>1, <1>2, <1>3, PlansGoForward, JobsGoForward
<1>6. WorkLeft = a + b + c + d /\ WorkLeft' = e + f + g + h
  BY <1>4, <1>5 DEF WorkLeft
<1>7. f <= b /\ g <= c
  BY <1>1, <1>4, <1>5, PlansGoForward, JobsGoForward
<1>8. (\E j \in Job : PlanLeft(j)' < PlanLeft(j)) => f < b
  BY <1>1, <1>4, <1>5, PlansGoForward
<1>9. (\E j \in Job : PlanLeft(j) > 0 /\ PlanLeft(j)' = 0) => f + 10 <= b
  BY <1>1, <1>4, <1>5, PlansGoForward
<1>10. ToReview' # ToReview \/ ToIdentify' # ToIdentify \/ ToMake' # ToMake => g < c
  BY <1>4, <1>5, JobsGoForward
<1>11. \/ e <= a /\ h <= d /\ (f < b \/ g < c \/ e < a \/ h < d)
       \/ e + 5 <= a /\ h = d + 1
       \/ e <= a + 8 /\ h = d /\ f + 10 <= b
  BY <1>4, <1>5, <1>8, <1>9, <1>10
<1> QED  BY <1>6, <1>7, <1>11

\* The main thread alone moves.
LEMMA MainMoves ==
    ASSUME IInv, IInv', UNCHANGED <<reviewed, identity, folder, plan>>, MainWork' < MainWork,
           Len(reviews') <= Len(reviews)
    PROVE  WorkLeft' < WorkLeft
<1>1. ToReview' = ToReview /\ ToIdentify' = ToIdentify /\ ToMake' = ToMake
  BY DEF ToReview, ToIdentify, ToMake
<1>2. \A j \in Job : PlanLeft(j)' <= PlanLeft(j)
  <2> SUFFICES ASSUME NEW j \in Job PROVE PlanLeft(j)' <= PlanLeft(j)
    OBVIOUS
  <2>1. PlanLeft(j)' = PlanLeft(j) /\ PlanLeft(j) \in 0..5
    BY PlanLeftType DEF PlanLeft, IInv
  <2> QED  BY <2>1
<1>3. MainWork \in Nat /\ MainWork' \in Nat
  BY DEF IInv, TypeOK, MainWork, Ended
<1>4. ToReview' \in SUBSET ToReview /\ ToIdentify' \in SUBSET ToIdentify /\ ToMake' \in SUBSET ToMake
  BY <1>1
<1>5. MainWork' <= MainWork
  BY <1>3
<1> QED  BY <1>2, <1>4, <1>5, LessWork

LEMMA SameWork ==
    /\ UNCHANGED <<reviewed, identity, folder>> =>
           ToReview' = ToReview /\ ToIdentify' = ToIdentify /\ ToMake' = ToMake
    /\ UNCHANGED reviewed => ToReview' = ToReview
    /\ UNCHANGED <<identity, folder>> => ToIdentify' = ToIdentify /\ ToMake' = ToMake
    /\ UNCHANGED at => MainWork' = MainWork
    /\ IInv => MainWork \in Nat /\ Len(reviews) \in Nat
    /\ IInv /\ UNCHANGED plan => \A j \in Job : PlanLeft(j)' <= PlanLeft(j)
<1>1. IInv => MainWork \in Nat /\ Len(reviews) \in Nat
  BY DEF IInv, TypeOK, MainWork, Ended
<1>2. ASSUME IInv, UNCHANGED plan, NEW j \in Job PROVE PlanLeft(j)' <= PlanLeft(j)
  <2>1. PlanLeft(j)' = PlanLeft(j) /\ PlanLeft(j) \in 0..5
    BY <1>2, PlanLeftType DEF PlanLeft, IInv
  <2> QED  BY <2>1
<1> QED  BY <1>1, <1>2 DEF ToReview, ToIdentify, ToMake, MainWork

LEMMA PlannerProgress ==
    ASSUME IInv, IInv', NEW i \in Job, PlanStarts(i) \/ PlanRequests(i) \/ PlanEnds(i)
    PROVE  WorkLeft' < WorkLeft
<1>1. UNCHANGED <<at, reviewed, identity, folder, reviews>>
  BY DEF PlanStarts, PlanRequests, PlanEnds, disk
<1>2. \A j \in Job : j # i => plan'[j] = plan[j]
  BY DEF PlanStarts, PlanRequests, PlanEnds, IInv, TypeOK
<1>3. PlanLeft(i)' < PlanLeft(i)
  <2>1. \/ plan[i] = "queued" /\ plan'[i] = "planning"
        \/ plan[i] = "planning" /\ plan'[i] = "requesting"
        \/ plan[i] \in {"planning", "requesting"} /\ plan'[i] \in {"done", "failed"}
    BY DEF PlanStarts, PlanRequests, PlanEnds, IInv, TypeOK
  <2>2. CASE plan[i] = "queued" /\ plan'[i] = "planning"
    <3>1. PlanLeft(i) = 4 /\ PlanLeft(i)' = 3
      BY <2>2 DEF PlanLeft
    <3> QED  BY <3>1
  <2>3. CASE plan[i] = "planning" /\ plan'[i] = "requesting"
    <3>1. PlanLeft(i) = 3 /\ PlanLeft(i)' = 2
      BY <2>3 DEF PlanLeft
    <3> QED  BY <3>1
  <2>4. CASE plan[i] \in {"planning", "requesting"} /\ plan'[i] \in {"done", "failed"}
    <3>1. PlanLeft(i) \in {2, 3} /\ PlanLeft(i)' = 1
      BY <2>4 DEF PlanLeft
    <3> QED  BY <3>1
  <2> QED  BY <2>1, <2>2, <2>3, <2>4
<1>4. \A j \in Job : PlanLeft(j)' <= PlanLeft(j)
  <2> SUFFICES ASSUME NEW j \in Job PROVE PlanLeft(j)' <= PlanLeft(j)
    OBVIOUS
  <2>1. j # i => PlanLeft(j)' = PlanLeft(j)
    BY <1>2 DEF PlanLeft
  <2>2. PlanLeft(j) \in 0..5 /\ PlanLeft(j)' \in 0..5
    BY PlanLeftType DEF IInv
  <2> QED  BY <1>3, <2>1, <2>2
<1> QED  BY <1>1, <1>3, <1>4, SameWork, LessWork

LEMMA ReviewProgress ==
    ASSUME IInv, IInv', ReviewEnds
    PROVE  WorkLeft' < WorkLeft
<1>1. UNCHANGED <<at, plan, identity, folder, reviews>>
  BY DEF ReviewEnds, disk
<1>2. PICK i \in Unreviewed :
          \E row \in ReviewOf(rows[reviews[i]]) : reviewed' = [reviewed EXCEPT ![reviews[i]] = row]
  BY DEF ReviewEnds
<1>3. reviews[i] \in Job /\ reviewed[reviews[i]] = NoRow
  BY <1>2 DEF Unreviewed, IInv, TypeOK
<1>4. PICK row \in ReviewOf(rows[reviews[i]]) : reviewed' = [reviewed EXCEPT ![reviews[i]] = row]
  BY <1>2
<1>5. row # NoRow
  <2>1. rows[reviews[i]] \in Row \cup {NoRow}
    BY <1>3 DEF IInv, TypeOK
  <2>2. row \in Row
    BY <1>4, <2>1, RowTypes
  <2> QED  BY <2>2 DEF Row, NoRow
<1>6. ToReview' \in SUBSET ToReview /\ ToReview' # ToReview
  BY <1>3, <1>4, <1>5 DEF ToReview, IInv, TypeOK
<1> QED  BY <1>1, <1>6, SameWork, LessWork

LEMMA IdentifyProgress ==
    ASSUME IInv, IInv', Identify
    PROVE  WorkLeft' < WorkLeft
<1>1. UNCHANGED <<at, plan, reviewed, reviews>>
  BY DEF Identify, work
<1>2. \/ /\ UNCHANGED folder
         /\ \E j \in Job : ~identity[j] /\ identity' = [identity EXCEPT ![j] = TRUE]
      \/ /\ UNCHANGED identity
         /\ \E j \in Job : ~folder[j] /\ folder' = [folder EXCEPT ![j] = TRUE]
  BY DEF Identify
<1>3. /\ ToIdentify' \in SUBSET ToIdentify /\ ToMake' \in SUBSET ToMake
      /\ ToIdentify' # ToIdentify \/ ToMake' # ToMake
  BY <1>2 DEF ToIdentify, ToMake, IInv, TypeOK
<1> QED  BY <1>1, <1>3, SameWork, LessWork

LEMMA TakePlanProgress ==
    ASSUME IInv, IInv', NEW i \in Job, TakePlan(i)
    PROVE  WorkLeft' < WorkLeft
<1>1. UNCHANGED <<reviewed, identity, folder, reviews>>
  BY DEF TakePlan, disk
<1>2. plan[i] \in {"done", "failed"} /\ nextJob \in 1..(NumJobs + 1)
  BY DEF TakePlan, IInv, TypeOK
<1>3. nextJob <= NumJobs => nextJob \in Job /\ plan[nextJob] = "none"
  BY UmiAssumption DEF IInv, TypeOK, PlansInOrder, Job
<1>4. /\ plan'[i] = "taken"
      /\ \A j \in Job : j # i => plan'[j] = plan[j] \/ plan[j] = "none"
  BY <1>2, <1>3 DEF TakePlan, IInv, TypeOK
<1>5. PlanLeft(i) = 1 /\ PlanLeft(i)' = 0
  BY <1>2, <1>4 DEF PlanLeft
<1>6. \A j \in Job : PlanLeft(j)' <= PlanLeft(j)
  <2> SUFFICES ASSUME NEW j \in Job PROVE PlanLeft(j)' <= PlanLeft(j)
    OBVIOUS
  <2>1. j # i => PlanLeft(j)' = PlanLeft(j) \/ PlanLeft(j) = 5
    BY <1>4 DEF PlanLeft
  <2>2. PlanLeft(j) \in 0..5 /\ PlanLeft(j)' \in 0..5
    BY PlanLeftType DEF IInv
  <2> QED  BY <1>5, <2>1, <2>2
<1>7. MainWork = 7 /\ MainWork' \in {12, 15}
  <2>1. at = "wait" /\ at' \in {"review", "sam"}
    BY DEF TakePlan
  <2> QED  BY <2>1 DEF MainWork, Ended
<1>8. ToReview' \in SUBSET ToReview /\ ToIdentify' \in SUBSET ToIdentify /\ ToMake' \in SUBSET ToMake
  BY <1>1, SameWork
<1>9. MainWork' <= MainWork + 8 /\ Len(reviews') = Len(reviews) /\ PlanLeft(i) > 0
  BY <1>1, <1>5, <1>7
<1> QED  BY <1>5, <1>6, <1>8, <1>9, LessWork

\* A job is put away: the plans that were queued may be cancelled, the next job
\* is submitted.
LEMMA PutAwayProgress ==
    ASSUME IInv, IInv', SubmitReview \/ ReviewInline \/ InterruptAfterReview
    PROVE  WorkLeft' < WorkLeft
<1>1. UNCHANGED <<reviewed, identity, folder>>
  BY DEF SubmitReview, ReviewInline, InterruptAfterReview, disk
<1>2. MainWork = 12 /\ MainWork' \in {4, 6, 7}
  <2>1. at = "review" /\ at' \in {"wait", "drain", "unwind"}
    BY DEF SubmitReview, ReviewInline, InterruptAfterReview, NextRound
  <2> QED  BY <2>1 DEF MainWork, Ended
<1>3. Len(reviews') = Len(reviews) \/ Len(reviews') = Len(reviews) + 1
  <2>1. reviews' = reviews \/ reviews' = Append(reviews, active)
    BY DEF SubmitReview, ReviewInline, InterruptAfterReview
  <2>2. active \in Job /\ reviews \in Seq(Job)
    BY DEF SubmitReview, ReviewInline, InterruptAfterReview, IInv, TypeOK, PlansInOrder, OnJob
  <2> QED  BY <2>1, <2>2
<1>4. \A j \in Job : plan'[j] = plan[j] \/ plan[j] = "none" \/ (plan[j] = "queued" /\ plan'[j] = "cancelled")
  <2>1. nextJob <= NumJobs => nextJob \in Job /\ plan[nextJob] = "none"
    BY UmiAssumption DEF IInv, TypeOK, PlansInOrder, Job
  <2>2. CASE SubmitReview
    BY <2>2 DEF SubmitReview, NextRound
  <2>3. CASE ReviewInline
    <3>1. CASE ~fatal /\ nextJob <= NumJobs
      BY <2>1, <2>3, <3>1 DEF ReviewInline, NextRound, IInv, TypeOK
    <3>2. CASE ~(~fatal /\ nextJob <= NumJobs)
      BY <2>3, <3>2 DEF ReviewInline, NextRound
    <3> QED  BY <3>1, <3>2
  <2>4. CASE InterruptAfterReview
    BY <2>4 DEF InterruptAfterReview
  <2> QED  BY <2>2, <2>3, <2>4
<1>5. \A j \in Job : PlanLeft(j)' <= PlanLeft(j)
  <2> SUFFICES ASSUME NEW j \in Job PROVE PlanLeft(j)' <= PlanLeft(j)
    OBVIOUS
  <2>1. PlanLeft(j)' = PlanLeft(j) \/ PlanLeft(j) = 5 \/ (PlanLeft(j) = 4 /\ PlanLeft(j)' = 0)
    BY <1>4 DEF PlanLeft
  <2>2. PlanLeft(j) \in 0..5 /\ PlanLeft(j)' \in 0..5
    BY PlanLeftType DEF IInv
  <2> QED  BY <2>1, <2>2
<1>6. ToReview' \in SUBSET ToReview /\ ToIdentify' \in SUBSET ToIdentify /\ ToMake' \in SUBSET ToMake
  BY <1>1, SameWork
<1>7. MainWork' < MainWork /\ MainWork' <= MainWork /\ MainWork' + 5 <= MainWork
  <2>1. PICK m \in {4, 6, 7} : m = MainWork'
    BY <1>2
  <2>2. m < 12 /\ m <= 12 /\ m + 5 <= 12
    OBVIOUS
  <2> QED  BY <1>2, <2>1, <2>2
<1>8. Len(reviews') <= Len(reviews) \/ Len(reviews') = Len(reviews) + 1
  BY <1>3, SameWork
<1> QED  BY <1>5, <1>6, <1>7, <1>8, LessWork

LEMMA StartupProgress ==
    ASSUME IInv, IInv', Startup
    PROVE  WorkLeft' < WorkLeft
<1>1. UNCHANGED <<reviewed, identity, folder, reviews>>
  BY DEF Startup, disk
<1>2. MainWork = 19 /\ MainWork' = 7
  BY DEF Startup, MainWork, Ended
<1>3. \A j \in Job : PlanLeft(j)' <= PlanLeft(j)
  <2> SUFFICES ASSUME NEW j \in Job PROVE PlanLeft(j)' <= PlanLeft(j)
    OBVIOUS
  <2>1. plan[j] = "none"
    BY DEF Startup, IInv, PlansInOrder, BeforeLoop
  <2>2. PlanLeft(j) = 5
    BY <2>1 DEF PlanLeft
  <2>3. PlanLeft(j)' \in 0..5
    BY PlanLeftType DEF IInv
  <2> QED  BY <2>2, <2>3
<1> QED  BY <1>1, <1>2, <1>3, SameWork, LessWork

LEMMA CollectProgress ==
    ASSUME IInv, IInv', CollectReview
    PROVE  WorkLeft' < WorkLeft
<1>1. UNCHANGED <<at, plan, reviewed, identity, folder>>
  BY DEF CollectReview, disk
<1>2. Len(reviews') < Len(reviews) /\ Len(reviews') <= Len(reviews)
  BY DEF CollectReview, IInv, TypeOK
<1> QED  BY <1>1, <1>2, SameWork, LessWork

LEMMA MainProgress ==
    ASSUME IInv, IInv',
           \/ Validate \/ IdentitiesWritten \/ NoPlanLeft \/ AskQc \/ PublishMasks \/ SamCompletes \/ SamFails
           \/ Finish \/ IdentifyFails \/ StartupFails \/ Interrupt \/ Crash
    PROVE  WorkLeft' < WorkLeft
<1>1. UNCHANGED <<reviewed, identity, folder, plan, reviews>>
  BY DEF Validate, IdentitiesWritten, NoPlanLeft, AskQc, PublishMasks, SamCompletes, SamFails, Finish,
     IdentifyFails, StartupFails, Interrupt, Crash, work, disk
<1>2. Len(reviews') <= Len(reviews)
  BY <1>1 DEF IInv, TypeOK
<1>3. MainWork' < MainWork
  <2>1. CASE Validate \/ IdentitiesWritten \/ NoPlanLeft \/ AskQc \/ PublishMasks
    BY <2>1 DEF Validate, IdentitiesWritten, NoPlanLeft, AskQc, PublishMasks, MainWork, Ended
  <2>2. CASE SamCompletes \/ SamFails
    <3>1. at \in {"sam", "qc", "published"} /\ at' = "review"
      BY <2>2 DEF SamCompletes, SamFails
    <3>2. MainWork \in {13, 14, 15} /\ MainWork' = 12
      BY <3>1 DEF MainWork, Ended
    <3> QED  BY <3>2
  <2>5. CASE Finish \/ IdentifyFails \/ StartupFails
    <3>1. at \in {"identify", "startup", "drain"} /\ at' \in {"collect", "returned", "raised"}
      BY <2>5 DEF Finish, IdentifyFails, StartupFails
    <3>2. MainWork \in {21, 19, 6} /\ MainWork' \in {2, 0}
      BY <3>1 DEF MainWork, Ended
    <3> QED  BY <3>2
  <2>3. CASE Interrupt
    <3>1. at \in {"wait", "sam", "qc", "published", "review", "drain"} /\ at' = "unwind"
      BY <2>3 DEF Interrupt
    <3>2. MainWork \in {7, 15, 14, 13, 12, 6} /\ MainWork' = 4
      BY <3>1 DEF MainWork, Ended
    <3> QED  BY <3>2
  <2>4. CASE Crash
    <3>1. MainWork' = 0
      BY <2>4 DEF Crash, MainWork, Ended
    <3>2. MainWork > 0
      BY <2>4 DEF Crash, MainWork, IInv, TypeOK, Ended
    <3> QED  BY <3>1, <3>2
  <2> QED  BY <2>1, <2>2, <2>3, <2>4, <2>5
<1> QED  BY <1>1, <1>2, <1>3, MainMoves

\* So does every step of the way out.
LEMMA LeavingProgress ==
    ASSUME IInv, IInv',
           \/ LeaveRenders \/ LeavePlanners \/ CollectEnds \/ Mark
           \/ CutRenders \/ CutPlanners \/ DropReview \/ CutCollect \/ CutMark
    PROVE  WorkLeft' < WorkLeft
<1>1. UNCHANGED <<reviewed, identity, folder, plan>>
  BY DEF LeaveRenders, LeavePlanners, CollectEnds, Mark, CutRenders, CutPlanners, DropReview, CutCollect,
     CutMark, work, disk
<1>2. Len(reviews') <= Len(reviews)
  <2>1. reviews' = reviews \/ (reviews # << >> /\ reviews' = Tail(reviews))
    BY DEF LeaveRenders, LeavePlanners, CollectEnds, Mark, CutRenders, CutPlanners, DropReview, CutCollect,
       CutMark, work
  <2> QED  BY <2>1 DEF IInv, TypeOK
<1>3. \/ at = "unwind" /\ at' = "unwindPlans"
      \/ at = "unwindPlans" /\ at' = "collect"
      \/ at = "collect" /\ at' = "mark"
      \/ at = "mark" /\ at' = "raised"
      \/ at \in {"review", "drain"} /\ at' = "unwind"
  BY DEF LeaveRenders, LeavePlanners, CollectEnds, Mark, CutRenders, CutPlanners, DropReview, CutCollect,
     CutMark
<1>4. MainWork' < MainWork
  <2>1. CASE at = "unwind" /\ at' = "unwindPlans"
    <3>1. MainWork = 4 /\ MainWork' = 3
      BY <2>1 DEF MainWork, Ended
    <3> QED  BY <3>1
  <2>2. CASE at = "unwindPlans" /\ at' = "collect"
    <3>1. MainWork = 3 /\ MainWork' = 2
      BY <2>2 DEF MainWork, Ended
    <3> QED  BY <3>1
  <2>3. CASE at = "collect" /\ at' = "mark"
    <3>1. MainWork = 2 /\ MainWork' = 1
      BY <2>3 DEF MainWork, Ended
    <3> QED  BY <3>1
  <2>4. CASE at = "mark" /\ at' = "raised"
    <3>1. MainWork = 1 /\ MainWork' = 0
      BY <2>4 DEF MainWork, Ended
    <3> QED  BY <3>1
  <2>5. CASE at \in {"review", "drain"} /\ at' = "unwind"
    <3>1. MainWork \in {12, 6} /\ MainWork' = 4
      BY <2>5 DEF MainWork, Ended
    <3> QED  BY <3>1
  <2> QED  BY <1>3, <2>1, <2>2, <2>3, <2>4, <2>5
<1> QED  BY <1>1, <1>2, <1>4, MainMoves

\* Every step of a run, the failures and the interrupts included, brings its
\* end nearer; only starting the program again begins anew.  No interleaving of
\* the three kinds of threads can keep a run going for ever.
THEOREM EveryStepIsProgress == Spec => [][runs' = runs => WorkLeft' < WorkLeft]_vars
<1>1. IInv /\ IInv' /\ Next => (runs' = runs => WorkLeft' < WorkLeft)
  <2> SUFFICES ASSUME IInv, IInv', Next, runs' = runs PROVE WorkLeft' < WorkLeft
    OBVIOUS
  <2>1. ~Restart
    BY DEF Restart, IInv, TypeOK
  <2> QED
    BY <2>1, PlannerProgress, ReviewProgress, IdentifyProgress, TakePlanProgress, PutAwayProgress,
       StartupProgress, CollectProgress, MainProgress, LeavingProgress DEF Next, MainStep, PlannerStep
<1>2. IInv /\ IInv' /\ [Next]_vars => [runs' = runs => WorkLeft' < WorkLeft]_vars
  BY <1>1
<1> QED  BY PipelineInvariant, <1>2, PTL DEF Spec

\* Nobody waits for ever: while a run goes on, the main thread, a planning
\* thread or the rendering thread can take a step that is no failure, however
\* small the window, the gate and the buffer are.
THEOREM SomebodyCanMove == Spec => []SomebodyMoves
<1>1. IInv => SomebodyMoves
  <2> SUFFICES ASSUME IInv, at \notin Ended, ~MainMayMove, ~PlannerMayMove, ~ReviewMayEnd PROVE FALSE
    BY DEF SomebodyMoves
  <2>1. TypeOK /\ qwenWorkers \in Nat \ {0} /\ PlannerCount \in Nat \ {0}
    BY UmiAssumption, CountBounds DEF IInv, TypeOK
  <2>2. Requesting = {} /\ \A j \in Job : plan[j] # "requesting"
    BY DEF PlannerMayMove, Requesting
  <2>3. Cardinality(Requesting) = 0
    BY <2>2, FS_EmptySet
  <2>4. at # "qc" /\ TokenFree
    BY <2>1, <2>3 DEF MainMayMove, TokenFree
  <2>5. Planning = {} /\ Cardinality(Planning) = 0
    BY <2>2, <2>4, FS_EmptySet DEF PlannerMayMove, Planning
  <2>6. \A j \in Job : plan[j] \notin {"queued", "planning", "requesting"}
    BY <2>1, <2>4, <2>5 DEF PlannerMayMove
  <2>7. ReviewsRunDry /\ PlansRunDry
    BY <2>6 DEF ReviewsRunDry, PlansRunDry, ReviewMayEnd
  <2>8. at # "wait"
    BY <2>6 DEF MainMayMove, Outstanding
  <2>9. reviews = << >>  \/ at \notin {"review", "drain"}
    <3> SUFFICES ASSUME reviews # << >>, at \in {"review", "drain"} PROVE FALSE
      OBVIOUS
    <3>1. Head(reviews) = reviews[1] /\ 1 \in DOMAIN reviews
      BY <2>1 DEF TypeOK
    <3>2. reviewed[reviews[1]] # NoRow
      BY <3>1 DEF ReviewMayEnd, Unreviewed
    <3> QED  BY <3>1, <3>2 DEF MainMayMove
  <2>10. at # "review"
    BY <2>9, UmiAssumption DEF MainMayMove
  <2> QED  BY <2>1, <2>4, <2>7, <2>8, <2>9, <2>10 DEF MainMayMove, TypeOK, Ended
<1> QED  BY PipelineInvariant, <1>1, PTL

=============================================================================
