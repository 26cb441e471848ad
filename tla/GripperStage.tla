---- MODULE GripperStage ----
(***************************************************************************)
(* The gripper of an episode, by SAM (pipeline/gripper/sam/): the stage    *)
(* that follows MaskStage once the object masks are saved.  It starts over *)
(* from the files, prompts SAM at frames derived from the robot state, has *)
(* Qwen choose one of the candidates, or takes the least bad one when Qwen *)
(* cannot, and tracks it.  Where MaskStage refuses what QC does not accept *)
(* this stage goes on, so what it promises is that it goes on with the     *)
(* best there is.                                                          *)
(***************************************************************************)
EXTENDS MaskStage

CONSTANT MaxPrompts  \* bound of the model: frames on which the region has a box

ASSUME GripperAssumption == MaxPrompts \in Nat

VARIABLE gripper  \* the frames prompted, the candidates, the seed

gripperVars == <<vars, gripper>>

(* Ranks of a candidate mask: nothing is left of it within the region and     *)
(* beside the objects, it fails a mechanical check, or it passes them all.    *)
Empty == 0
Poor == 1
Good == 2
Candidate(bank, frame, rank) == [bank |-> bank, frame |-> frame, rank |-> rank]
NoCandidate == Candidate("none", None, Empty)

Gripper(prompted, candidates, seed) ==
    [prompted |-> prompted, candidates |-> candidates, seed |-> seed]
NoGripper == Gripper({}, {}, NoCandidate)

GripperInit == Init /\ gripper = NoGripper

---------------------------------------------------------------------------
(* What the stage reads of the run: the tracks, with their verdicts, and     *)
(* the context, made anew.  All else is forgotten with the process that made *)
(* the masks.                                                                *)

Usable(r) == /\ tracks[r].status = "ok"
             /\ config.qc => reports[r].status = "passed"

Forget == /\ config' = [qc |-> FALSE, seeds |-> FALSE, bbox |-> FALSE]
          /\ tracks' = [r \in Roles |-> [status |-> tracks[r].status, mask |-> NoMask,
                                         frame |-> None, shown |-> tracks[r].shown]]
          /\ plan' = Unplanned
          /\ todo' = <<>>
          /\ reports' = [r \in Roles |-> Report("not_run")]
          /\ accepted' = [r \in Roles |-> NoMask]

(* Only a pick and place has the events that the stage needs. *)
LoadTracks ==
    /\ at = "saved"
    /\ at' = IF context.mode = "pick_place" /\ \A r \in Roles : Usable(r)
             THEN "text_box" ELSE "no_gripper"
    /\ Forget
    /\ UNCHANGED <<signal, context, attempts, gripper>>

(* The state, a frame or the prompt cannot be read, or SAM fails. *)
GripperFails ==
    /\ at \in {"text_box", "box_only", "choose", "propagate"}
    /\ at' = "no_gripper"
    /\ UNCHANGED <<signal, config, context, plan, todo, attempts, reports, tracks, accepted,
                   gripper>>

Stays == UNCHANGED <<signal, config, context, plan, todo, attempts, reports, tracks, accepted>>

---------------------------------------------------------------------------
(* The frames and the candidates *)

\* From the first motion to the reopening: the frames that have a region.
ActiveWindow == Window(context.target.start, context.receiver.end)
ActiveFrames == ActiveWindow.start .. ActiveWindow.end

CloseDone == context.check.end
OpenStart == context.target.end + 1
OpenDone == context.receiver.end

(* `first` is the first frame with the gripper in view, the start of the close *)
(* if there is none.                                                           *)
Keyframes(first) ==
    {first, Greater(first, context.close - 1), CloseDone, (CloseDone + OpenStart) \div 2,
     Greater(CloseDone + 1, OpenStart - 1), OpenStart, OpenDone}

(* A frame without a region, or with one out of view, has no box and is left *)
(* out of both banks.                                                        *)
Prompted == UNION {{S \in SUBSET (Keyframes(first) \cap ActiveFrames) :
                       Cardinality(S) <= MaxPrompts} : first \in ActiveFrames}

Bank(bank, rank) == {Candidate(bank, f, rank[f]) : f \in DOMAIN rank}

NoTextPassed(rank) == \A f \in DOMAIN rank : rank[f] # Good

(* SAM is asked with text and box at each frame that has a box.  No frame is  *)
(* asked twice in one bank, so no candidate is the duplicate of another.      *)
BuildTextBank ==
    /\ at = "text_box"
    /\ \E frames \in Prompted : \E rank \in [frames -> {Empty, Poor, Good}] :
          /\ gripper' = Gripper(frames, Bank("text_box", rank), NoCandidate)
          /\ at' = IF NoTextPassed(rank) THEN "box_only" ELSE "choose"
    /\ Stays

BuildBoxBank ==
    /\ at = "box_only"
    /\ \E rank \in [gripper.prompted -> {Empty, Poor, Good}] :
          gripper' = Gripper(gripper.prompted, gripper.candidates \cup Bank("box_only", rank),
                             NoCandidate)
    /\ at' = "choose"
    /\ Stays

---------------------------------------------------------------------------
(* The seed and its track *)

Passing == {c \in gripper.candidates : c.rank = Good}

(* Slip: the fallback takes whatever has pixels. *)
AnyWithPixels == {c \in gripper.candidates : c.rank # Empty}

(* The fallback's order: passing its checks first, then its pixels. *)
LeastBad == {c \in gripper.candidates : \A d \in gripper.candidates : d.rank <= c.rank}

Choose(seed) ==
    /\ gripper' = Gripper(gripper.prompted, gripper.candidates, seed)
    /\ at' = "propagate"
    /\ Stays

(* Qwen is shown the candidates that passed, and is sure of one. *)
QwenChooses == /\ at = "choose"
               /\ \E c \in Passing : Choose(c)

(* It is not asked if none passed; it may not answer, refuse all, or be unsure. *)
FallbackChooses == /\ at = "choose"
                   /\ \E c \in LeastBad : Choose(c)

NothingToChoose == /\ at = "choose"
                   /\ gripper.candidates = {}
                   /\ at' = "no_gripper"
                   /\ UNCHANGED gripper
                   /\ Stays

(* What the tracker demands. *)
TrackerAccepts(seed, w) == Valid(w) /\ seed.frame \in w.start .. w.end

(* The track is cut to its region, its window and to what no object covers; *)
(* something has to be left.                                                *)
Propagate ==
    /\ at = "propagate"
    /\ at' \in IF gripper.seed.rank = Empty THEN {"no_gripper"}
               ELSE IF ~TrackerAccepts(gripper.seed, ActiveWindow) THEN {"raised"}
               ELSE {"gripper", "no_gripper"}
    /\ UNCHANGED gripper
    /\ Stays

GripperNext ==
    \/ Next /\ UNCHANGED gripper
    \/ LoadTracks \/ GripperFails
    \/ BuildTextBank \/ BuildBoxBank
    \/ QwenChooses \/ FallbackChooses \/ NothingToChoose \/ Propagate

GripperSpec == GripperInit /\ [][GripperNext]_gripperVars

---------------------------------------------------------------------------
(* Properties *)

(* A gripper is published only beside objects whose tracks were accepted, for  *)
(* it is cut by them; and although a seed is taken even when Qwen accepts      *)
(* none, it is never an empty one, it is one that failed its checks only if    *)
(* every prompt failed them with text and without, and it comes from a bare    *)
(* box only if all text prompts had failed.                                    *)
GripperSeedIsLeastBad ==
    at = "gripper" =>
        /\ \A r \in Roles : tracks[r].status = "ok" /\ "checked" \in tracks[r].shown
        /\ gripper.seed.rank # Empty
        /\ gripper.seed.rank = Poor =>
               \A f \in gripper.prompted, bank \in {"text_box", "box_only"} :
                   \E c \in gripper.candidates : c.bank = bank /\ c.frame = f /\ c.rank # Good
        /\ gripper.seed.bank = "box_only" =>
               \A f \in gripper.prompted :
                   \E c \in gripper.candidates :
                       c.bank = "text_box" /\ c.frame = f /\ c.rank # Good

====
