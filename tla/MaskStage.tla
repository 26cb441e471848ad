---- MODULE MaskStage ----
(***************************************************************************)
(* One episode through the stages that make its object masks: the timeline *)
(* (pipeline/state_loop.py), the semantic plan (qwen_stage.py), the QC of  *)
(* seed masks (mask_qc.py, object_mask/resolver.py) and tracking           *)
(* (sam_stage.py).  `at` is the stage, `todo` the roles it still has to    *)
(* treat.  Pixels are left out: a mask is named by how, where and under    *)
(* which candidate letter it was made, and a track says in which part of   *)
(* its window the object was seen.                                         *)
(***************************************************************************)
EXTENDS Timeline, Functions

CONSTANTS Signals,       \* the apertures of the left gripper that are tried
          OtherSignals,  \* those of the right one
          VideoWindows   \* reviewed intervals of episodes without robot state

(* An interval that is not of the episode is refused with the episode itself. *)
ASSUME MaskStageAssumption ==
    /\ Signals \subseteq [Frames -> Levels] /\ OtherSignals \subseteq [Frames -> Levels]
    /\ VideoWindows \subseteq {w \in [start : Frames, end : Frames] : w.start <= w.end}

VARIABLES at, signal, config, context, plan, todo, attempts, reports, tracks,
          accepted       \* the mask that QC saw and accepted, per role (history)

vars == <<at, signal, config, context, plan, todo, attempts, reports, tracks, accepted>>

Roles == {"target", "receiver"}
NoSignal == <<>>

(* The roles an annotation mode requires, in their order. *)
RolesOf(mode) == IF mode = "target_only" THEN <<"target">> ELSE <<"target", "receiver">>

NoSeed == [status |-> "no_clear_seed", seed |-> None]
Unplanned == [r \in Roles |-> NoSeed]

NoMask == [method |-> "none", seed |-> None, id |-> "none"]
Mask(method, seed, id) == [method |-> method, seed |-> seed, id |-> id]

(* A report on a role, and a track: how it ended, what it selected or shows. *)
Report(status) == [status |-> status, id |-> "none", seed |-> None, from |-> NoMask]
NoTrack == [status |-> "none", mask |-> NoMask, frame |-> None, shown |-> {}]
Untracked(frame) == [status |-> "failed", mask |-> NoMask, frame |-> frame, shown |-> {}]

Init == /\ at = "detect"
        /\ signal \in Signals
        /\ config = [qc |-> FALSE, seeds |-> FALSE, bbox |-> FALSE]
        /\ context = VideoContext(Window(0, 0), "target_only")
        /\ plan = Unplanned
        /\ todo = <<>>
        /\ attempts = <<>>
        /\ reports = [r \in Roles |-> Report("not_run")]
        /\ tracks = [r \in Roles |-> NoTrack]
        /\ accepted = [r \in Roles |-> NoMask]

---------------------------------------------------------------------------
(* Stages 1 and 2: the context and the semantic plan *)

(* What LoopContext and its windows demand of themselves. *)
ContextHolds(c) == /\ Valid(c.target) /\ Valid(c.check) /\ Valid(c.receiver)
                   /\ c.seeds # {} /\ c.seeds \subseteq Frames

Build(c) == /\ context' = c
            /\ at' = IF ContextHolds(c) THEN "plan" ELSE "raised"
            /\ signal' = NoSignal
            /\ UNCHANGED <<config, plan, todo, attempts, reports, tracks, accepted>>

DetectLoop == /\ at = "detect"
              /\ \E other \in OtherSignals : \E c \in PickPlaceContexts(signal, other) : Build(c)

DetectHold == /\ at = "detect"
              /\ \E other \in OtherSignals : \E c \in TargetOnlyContexts(signal, other) : Build(c)

ReadWindow == /\ at = "detect"
              /\ \E w \in VideoWindows, mode \in {"target_only", "tool_use"} :
                    Build(VideoContext(w, mode))

(* No arm or both have what the mode asks for. *)
DetectFails == /\ at = "detect"
               /\ \E other \in OtherSignals : \/ PickPlaceContexts(signal, other) = {}
                                              \/ TargetOnlyContexts(signal, other) = {}
               /\ at' = "failed"
               /\ signal' = NoSignal
               /\ UNCHANGED <<config, context, plan, todo, attempts, reports, tracks, accepted>>

(* An answer that names a seed names one of the role's candidates; any other *)
(* answer fails the stage.                                                   *)
Answers == {answer \in [Roles -> {NoSeed} \cup {[status |-> "ok", seed |-> f] : f \in context.seeds}] :
               context.mode = "target_only" => answer["receiver"] = NoSeed}

(* The configuration is read from here on. *)
Plan == /\ at = "plan"
        /\ plan' \in Answers
        /\ \E qc, seeds, bbox \in BOOLEAN :
              /\ ~qc => ~seeds /\ ~bbox
              /\ config' = [qc |-> qc, seeds |-> seeds, bbox |-> bbox]
              /\ at' = IF qc THEN "resolve" ELSE "track"
        /\ todo' = RolesOf(context.mode)
        /\ UNCHANGED <<signal, context, attempts, reports, tracks, accepted>>

PlanFails == /\ at = "plan"
             /\ at' = "failed"
             /\ UNCHANGED <<signal, config, context, plan, todo, attempts, reports, tracks, accepted>>

---------------------------------------------------------------------------
(* Stage 3a: the seed mask of each role and its QC *)

Role == Head(todo)
Planned == plan[Role].status = "ok"

Tried(method) == {a.seed : a \in {b \in Range(attempts) : b.method = method}}
SeedsToTry == IF config.seeds THEN context.seeds ELSE {plan[Role].seed}
Left(method) == SeedsToTry \ Tried(method)

(* The planned seed first, then the others in order. *)
ComesNext(seed, method) ==
    /\ seed \in Left(method)
    /\ \/ seed = plan[Role].seed
       \/ /\ plan[Role].seed \notin Left(method)
          /\ \A other \in Left(method) : seed <= other

Last == attempts[Len(attempts)]
Decided == attempts # <<>> /\ Last.status \in {"passed", "error"}

(* Text candidates are numbered anew at each seed, a box gives one. *)
CandidateIds(method) == IF method = "text" THEN {"A", "B"} ELSE {"BBOX"}

Attempt(method, seed, status, id) ==
    [method |-> method, seed |-> seed, status |-> status, id |-> id]

(* QC passes one of the candidates; it refuses them if none is mechanically  *)
(* valid or Qwen rejects them or is not sure; it fails if Qwen cannot be asked *)
(* or its answer cannot be read.                                              *)
Judged(ids) == [status : {"passed"}, id : ids] \cup [status : {"refused", "error"}, id : {"none"}]

(* One attempt of the role at a seed.  Without candidates it is an error, or,  *)
(* if Qwen sees nothing to draw a box around, refused.                         *)
Try(method) ==
    /\ at = "resolve" /\ Planned /\ ~Decided
    /\ \E seed \in context.seeds, result \in Judged(CandidateIds(method)) :
          /\ ComesNext(seed, method)
          /\ attempts' = Append(attempts, Attempt(method, seed, result.status, result.id))
          /\ accepted' = IF result.status = "passed"
                         THEN [accepted EXCEPT ![Role] = Mask(method, seed, result.id)]
                         ELSE accepted
    /\ UNCHANGED <<at, signal, config, context, plan, todo, reports, tracks>>

TryText == Try("text")

TryBox == at = "resolve" /\ config.bbox /\ Left("text") = {} /\ Try("bbox")

Exhausted == Left("text") = {} /\ (config.bbox => Left("bbox") = {})

(* The report of the attempt that decided, with the letter of its candidate; *)
(* the masks beside it are the candidates of that attempt.                   *)
Settle == /\ at = "resolve"
          /\ ~Planned \/ Decided \/ Exhausted
          /\ reports' = [reports EXCEPT ![Role] =
                IF ~Planned THEN Report("refused")
                ELSE IF Last.status = "passed"
                THEN [status |-> "passed", id |-> Last.id, seed |-> Last.seed,
                      from |-> Mask(Last.method, Last.seed, "none")]
                ELSE Report(Last.status)]
          /\ attempts' = <<>>
          /\ todo' = IF Len(todo) > 1 THEN Tail(todo) ELSE RolesOf(context.mode)
          /\ at' = IF Len(todo) > 1 THEN at ELSE "track"
          /\ UNCHANGED <<signal, config, context, plan, tracks, accepted>>

(* The service is asked once, before the first role. *)
HealthFails == /\ at = "resolve" /\ attempts = <<>>
               /\ todo = RolesOf(context.mode)
               /\ reports' = [r \in Roles |->
                                 Report(IF r \in Range(todo) THEN "error" ELSE "not_run")]
               /\ at' = "track"
               /\ UNCHANGED <<signal, config, context, plan, todo, attempts, tracks, accepted>>

---------------------------------------------------------------------------
(* Stage 3b: tracking *)

OutputWindow(r) == IF r = "target" THEN context.target ELSE context.receiver

(* Slip: temporal QC looks at the whole operation of the target. *)
WholeCheckWindow(r) == IF r = "target" /\ context.mode = "pick_place"
                       THEN Window(context.target.start, context.receiver.end)
                       ELSE OutputWindow(r)

CheckWindow(r) == IF r = "target" THEN context.check ELSE OutputWindow(r)

(* Without QC the mask is asked for with the primary query at the planned seed. *)
SeedMask(r) == IF reports[r].status = "passed"
               THEN Mask(reports[r].from.method, reports[r].from.seed, reports[r].id)
               ELSE Mask("text", plan[r].seed, "A")

(* Slip: tracking starts at the planned seed, whatever seed QC settled on. *)
PlannedFrame(r) == plan[r].seed

SeedFrame(r) == IF reports[r].status = "passed" THEN reports[r].seed ELSE plan[r].seed

Refused(r) == plan[r].status # "ok" \/ reports[r].status \notin {"not_run", "passed"}

(* What the stage demands of the windows and of the seed it is given. *)
InputsAgree(r) ==
    /\ Inside(CheckWindow(r), OutputWindow(r))
    /\ ~Refused(r) => SeedFrame(r) \in context.seeds /\ SeedFrame(r) <= OutputWindow(r).end

Record(r, track) ==
    /\ tracks' = [tracks EXCEPT ![r] = IF InputsAgree(r) THEN track ELSE NoTrack]
    /\ todo' = Tail(todo)
    /\ at' = IF ~InputsAgree(r) THEN "raised" ELSE IF Len(todo) > 1 THEN at ELSE "saved"
    /\ UNCHANGED <<signal, config, context, plan, attempts, reports, accepted>>

(* No seed was planned, or QC refused the one that was: the record names it. *)
Skip == /\ at = "track"
        /\ Refused(Role)
        /\ Record(Role, Untracked(plan[Role].seed))

(* Only a mask that no QC has looked at can be empty. *)
SeedIsEmpty == /\ at = "track"
               /\ ~Refused(Role) /\ ~config.qc
               /\ Record(Role, Untracked(SeedFrame(Role)))

(* The parts of the output window in which the object is seen.  The track   *)
(* holds the seed mask at its frame; outside the window that temporal QC    *)
(* looks at there is something to see only if the output window is larger.  *)
Sightings(r) ==
    {seen \in SUBSET {"checked", "held"} :
       /\ Inside(Window(SeedFrame(r), SeedFrame(r)), CheckWindow(r)) => "checked" \in seen
       /\ "held" \in seen => CheckWindow(r) # OutputWindow(r)}

(* Slip: quarantine marks the role but leaves its pixels in the masks. *)
MarkedVerdicts(seen) == IF "checked" \notin seen THEN {<<"failed", seen>>}
                        ELSE {<<"ok", seen>>, <<"quarantined", seen>>}

(* A track that is lost in the checked window has failed, one that jumps *)
(* there is quarantined and none of it is shown.                         *)
Verdicts(seen) == IF "checked" \notin seen THEN {<<"failed", seen>>}
                  ELSE {<<"ok", seen>>, <<"quarantined", {}>>}

Track == /\ at = "track"
         /\ ~Refused(Role)
         /\ \E seen \in Sightings(Role) : \E v \in Verdicts(seen) :
               Record(Role, [status |-> v[1], mask |-> SeedMask(Role),
                             frame |-> SeedFrame(Role), shown |-> v[2]])

Next == \/ DetectLoop \/ DetectHold \/ ReadWindow \/ DetectFails
        \/ Plan \/ PlanFails
        \/ HealthFails \/ TryText \/ TryBox \/ Settle
        \/ Skip \/ SeedIsEmpty \/ Track

Spec == Init /\ [][Next]_vars

---------------------------------------------------------------------------
(* Properties *)

Statuses == {"not_run", "passed", "refused", "error"}

(* The types of the variables. *)
TypeOK ==
    /\ at \in {"detect", "plan", "resolve", "track", "saved", "failed", "raised"}
    /\ config \in [qc : BOOLEAN, seeds : BOOLEAN, bbox : BOOLEAN]
    /\ at # "raised" => context.seeds \subseteq Frames
    /\ \A r \in Roles : /\ plan[r].seed \in context.seeds \cup {None}
                       /\ reports[r].status \in Statuses
                       /\ reports[r].seed \in context.seeds \cup {None}
                       /\ tracks[r].status \in {"none", "ok", "quarantined", "failed"}
                       /\ tracks[r].frame \in context.seeds \cup {None}
    /\ \A i \in DOMAIN attempts : /\ attempts[i].method \in {"text", "bbox"}
                                /\ attempts[i].seed \in context.seeds
                                /\ attempts[i].status \in Statuses \ {"not_run"}

(* A signal in which the gripper closes and reopens twice has two loops, so   *)
(* the episode is refused, unless the second gesture begins on the very frame *)
(* after the first loop, where the rest of the signal has no fall to find, or *)
(* on the next one when the rest begins with a closed frame: the rest is      *)
(* filtered anew, and the filter does not smooth its first frame.             *)
OnlyAdjacentGesturesAreMissed ==
    at = "detect" =>
        \A c \in Frames : SecondGestureAt(signal, c) =>
            LET cut == ArmLoops(signal)[1].openDone + 1
            IN \/ Len(ArmLoops(signal)) >= 2
               \/ /\ Len(ArmLoops(signal)) = 1
                  /\ c = cut \/ (c = cut + 1 /\ signal[cut] <= ClosedLevel)

(* "Return every complete loop so later gestures are not silently ignored"   *)
(* (detect_arm_loops): every second gesture counts.                          *)
NoGestureIgnored ==
    at = "detect" =>
        \A c \in Frames : SecondGestureAt(signal, c) => Len(ArmLoops(signal)) >= 2

(* Whatever signal and motion the timeline accepts, its windows satisfy the   *)
(* models that hold them, and the windows and seeds that the tracking stage    *)
(* receives, planned or rescued, are ones it accepts: no stage raises on the   *)
(* output of the ones before it.                                               *)
StagesAgree == at # "raised"

(* The fallback goes through all text seeds before it draws a box, and stops   *)
(* at the first attempt that passes or fails to be judged: a box is tried only *)
(* after every text seed was tried and refused.                                *)
RescueComesLast ==
    at = "resolve" =>
        \A i \in DOMAIN attempts :
            /\ i < Len(attempts) => attempts[i].status = "refused"
            /\ attempts[i].method = "bbox" =>
                   \A f \in SeedsToTry :
                       \E j \in 1 .. (i - 1) : attempts[j].method = "text" /\ attempts[j].seed = f

(* With mask QC, the mask that is tracked is the one that QC saw and accepted, *)
(* and tracking starts at the frame it was made on, also if a fallback made it  *)
(* elsewhere than planned; candidate letters are reused from seed to seed.      *)
AcceptedMaskIsTracked ==
    config.qc => \A r \in Roles :
        tracks[r].mask # NoMask => /\ tracks[r].mask = accepted[r]
                                   /\ tracks[r].frame = accepted[r].seed

(* Pixels of an object that was lost or jumped are not shown.  The one       *)
(* exception: a track that is lost in the whole checked window has failed but *)
(* keeps what it found later, while the target is held.                      *)
KnownWrongPixelsStayOut ==
    \A r \in Roles :
        tracks[r].shown # {} =>
            \/ /\ tracks[r].status = "ok"
               /\ "checked" \in tracks[r].shown
            \/ /\ tracks[r].status = "failed"
               /\ tracks[r].shown = {"held"}

====
