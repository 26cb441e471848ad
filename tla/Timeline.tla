---- MODULE Timeline ----
(***************************************************************************)
(* Stage 1: from the aperture of a gripper to the frames and windows of an *)
(* episode (pipeline/timeline_detector.py, pipeline/state_loop.py,         *)
(* models/timeline.py).  Pure operators, without state.                    *)
(*                                                                         *)
(* A signal gives a level of aperture to each frame; up to ClosedLevel is  *)
(* closed, from OpenLevel on is open.  The search for another loop works   *)
(* on the rest of the signal, so every operator takes the frame `o` at     *)
(* which that rest begins; frames keep their numbers in the episode.       *)
(* A detection that raises StateLoopError is an empty set of results.      *)
(***************************************************************************)
EXTENDS Integers, Sequences, FiniteSetsExt

CONSTANTS LastFrame, Levels, ClosedLevel, OpenLevel, StableFrames, SeedCount, SeedMargin

ASSUME TimelineAssumption ==
    /\ LastFrame \in Nat
    /\ Levels \subseteq Int /\ ClosedLevel \in Int /\ OpenLevel \in Int
    /\ ClosedLevel < OpenLevel
    /\ StableFrames \in Nat /\ StableFrames > 1
    /\ SeedCount \in Nat \ {0} /\ SeedMargin \in Nat

None == -1
Frames == 0 .. LastFrame

Earliest(S) == IF S = {} THEN None ELSE Min(S)
Latest(S) == IF S = {} THEN None ELSE Max(S)
Lesser(a, b) == IF a < b THEN a ELSE b
Greater(a, b) == IF a < b THEN b ELSE a

---------------------------------------------------------------------------
(* Signals *)

Median(a, b, c) == Greater(Lesser(a, b), Lesser(Greater(a, b), c))

Filtered(s, o) ==
    [i \in o .. LastFrame |-> Median(s[Greater(i - 1, o)], s[i], s[Lesser(i + 1, LastFrame)])]

Closed(f) == {i \in DOMAIN f : f[i] <= ClosedLevel}
Opened(f) == {i \in DOMAIN f : f[i] >= OpenLevel}

(* The first frame, from `from` on, of StableFrames frames in S. *)
FirstRun(S, from) == Earliest({i \in S : i >= from /\ i .. (i + StableFrames - 1) \subseteq S})

LongEnough(o) == LastFrame - o + 1 >= 2 * StableFrames

CloseStart(f, o) == Earliest({i \in DOMAIN f \ {o} : f[i] < OpenLevel /\ f[i] < f[i - 1]})

CloseRun(f, o) ==
    IF ~LongEnough(o) \/ CloseStart(f, o) = None THEN None
    ELSE FirstRun(Closed(f), CloseStart(f, o))

(* One complete loop: the gripper closes for good and opens for good again. *)
LoopFrom(s, o) ==
    LET f == Filtered(s, o)
        closeDone == CloseRun(f, o) + StableFrames - 1
        openStart == Earliest({i \in DOMAIN f \ {o} : i > closeDone /\ f[i] > f[i - 1]})
        openDone == FirstRun(Opened(f), openStart) + StableFrames - 1
    IN {e \in {[closeStart |-> CloseStart(f, o), closeDone |-> closeDone,
                openStart |-> openStart, openDone |-> openDone]} :
          /\ CloseRun(f, o) # None
          /\ openStart # None
          /\ FirstRun(Opened(f), openStart) # None
          /\ e.closeStart < e.closeDone
          /\ e.closeDone < e.openStart
          /\ e.openStart < e.openDone}

(* Slip: the scan goes on after a margin of stable frames. *)
LoopsWithGap(s) ==
    LET From[o \in Nat] ==
            IF LastFrame + 1 - o < 2 * StableFrames \/ LoopFrom(s, o) = {} THEN <<>>
            ELSE LET e == CHOOSE e \in LoopFrom(s, o) : TRUE
                 IN <<e>> \o From[e.openDone + StableFrames]
    IN From[0]

(* The loops that begin after a cut: the search goes on after each. *)
LoopsFrom(s) ==
    LET From[o \in Nat] ==
            IF LastFrame + 1 - o < 2 * StableFrames \/ LoopFrom(s, o) = {} THEN <<>>
            ELSE LET e == CHOOSE e \in LoopFrom(s, o) : TRUE
                 IN <<e>> \o From[e.openDone + 1]
    IN From

ArmLoops(s) == LoopsFrom(s)[0]

(* Without a stable reopening the target is held to the end of the episode. *)
HoldFrom(s) ==
    LET f == Filtered(s, 0)
        closeEnd == CloseRun(f, 0) + StableFrames - 1
        reopenRun == FirstRun(Opened(f), closeEnd + 1)
        lastClosed == Latest({i \in Closed(f) : i >= closeEnd /\ i < reopenRun})
    IN {e \in {[closeStart |-> CloseStart(f, 0), closeDone |-> closeEnd,
                reopen |-> IF reopenRun = None THEN None ELSE lastClosed + 1]} :
          /\ CloseRun(f, 0) # None
          /\ 0 .. (StableFrames - 1) \subseteq Opened(f)
          /\ e.closeStart < e.closeDone}

---------------------------------------------------------------------------
(* Windows.  A context holds what later stages use of the events: the       *)
(* window of each role, the part of the target's that temporal QC looks at, *)
(* and the frames a mask may be seeded on.  The frames shown to Qwen as     *)
(* context are left out: they are neither seeds nor part of a window.       *)

Window(first, last) == [start |-> first, end |-> last]
Valid(w) == 0 <= w.start /\ w.start <= w.end /\ w.end <= LastFrame
Inside(w, v) == v.start <= w.start /\ w.end <= v.end

RoundHalfEven(n, d) ==
    LET q == n \div d
        r == n % d
    IN IF 2 * r < d \/ (2 * r = d /\ q % 2 = 0) THEN q ELSE q + 1

(* `count` frames at equal distances over first .. last. *)
UniformFrames(first, last, count) ==
    IF first = last \/ count = 1 THEN {first}
    ELSE {first + RoundHalfEven(k * (last - first), count - 1) : k \in 0 .. (count - 1)}

(* Slip: the margin is taken after the close instead of before it. *)
LateSeeds(e) == UniformFrames(0, Greater(0, e.closeDone + SeedMargin), SeedCount)

(* A mask is seeded before the gripper is near the object. *)
SeedFrames(e) == UniformFrames(0, Greater(0, e.closeStart - SeedMargin), SeedCount)

PickPlaceContext(e, move) ==
    [mode |-> "pick_place",
     target |-> Window(move, e.openStart - 1), close |-> e.closeStart,
     check |-> Window(move, e.closeDone),
     receiver |-> Window(e.closeDone, e.openDone),
     seeds |-> SeedFrames(e)]

TargetOnlyContext(e, move) ==
    [mode |-> "target_only",
     target |-> Window(move, LastFrame),
     check |-> Window(move, e.closeDone),
     receiver |-> Window(move, LastFrame),
     seeds |-> SeedFrames(e)]

(* A reviewed interval of the video, without events. *)
VideoContext(w, mode) ==
    [mode |-> mode, target |-> w, check |-> w, receiver |-> w,
     seeds |-> UniformFrames(w.start, w.end, Greater(8, SeedCount))]

(* The first stable motion of the arm is arithmetic on poses: it is found   *)
(* before the close, or the close stands for it.  The extremes are enough.  *)
MoveFrames(e) == {1, e.closeStart}

PickPlaceContexts(s, t) ==
    LET loops == ArmLoops(s) \o ArmLoops(t)
    IN IF Len(loops) # 1 THEN {}
       ELSE {PickPlaceContext(loops[1], move) : move \in MoveFrames(loops[1])}

TargetOnlyContexts(s, t) ==
    IF (HoldFrom(s) = {}) = (HoldFrom(t) = {}) THEN {}
    ELSE LET e == CHOOSE e \in HoldFrom(s) \cup HoldFrom(t) : TRUE
         IN {TargetOnlyContext(e, move) : move \in MoveFrames(e)}

---------------------------------------------------------------------------
(* What a loop is, said without a scan: the gripper closes and reopens.      *)

ClosesAt(f, i) == i - 1 \in DOMAIN f \ Closed(f) /\ i .. (i + StableFrames - 1) \subseteq Closed(f)
OpensAt(f, i) == i .. (i + StableFrames - 1) \subseteq Opened(f)

(* Two gestures, one after the other; the second begins at frame c. *)
SecondGestureAt(s, c) ==
    LET f == Filtered(s, 0)
    IN /\ ClosesAt(f, c)
       /\ \E o \in Frames : c < o /\ OpensAt(f, o)
       /\ \E b, p \in Frames : b < p /\ p < c /\ ClosesAt(f, b) /\ OpensAt(f, p)

====
