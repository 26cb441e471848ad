---- MODULE EpisodeStageProofs ----
(***************************************************************************)
(* Proofs about the stages of an episode, Timeline, MaskStage and          *)
(* GripperStage, for any signals, windows, prompts and parameters: what    *)
(* the timeline finds and hands on, which masks are tracked, and where     *)
(* the gripper starts.                                                     *)
(***************************************************************************)
EXTENDS GripperStage, WellFoundedInduction, SequenceTheorems, TLAPS

---------------------------------------------------------------------------
(* The timeline *)

LEMMA LeastNatural ==
    ASSUME NEW S \in SUBSET Nat, S # {}
    PROVE  \E x \in S : \A y \in S : x <= y
<1> DEFINE less == OpToRel(<, Nat)
<1>1. IsWellFoundedOn(less, Nat)
  BY NatLessThanWellFounded
<1>2. \A x, y \in Nat : <<y, x>> \notin less => x <= y
  BY DEF OpToRel
<1> HIDE DEF less
<1>3. PICK x \in S : \A y \in S : ~(<<y, x>> \in less)
  BY <1>1, WFMin
<1> QED  BY <1>2, <1>3

(* Induction, over a set of numbers instead of a predicate. *)
LEMMA Induction ==
    ASSUME NEW S, 0 \in S, \A n \in Nat : n \in S => n + 1 \in S
    PROVE  \A n \in Nat : n \in S
<1> SUFFICES ASSUME NEW n \in Nat, n \notin S PROVE FALSE
  OBVIOUS
<1>1. PICK x \in Nat \ S : \A y \in Nat \ S : x <= y
  <2>1. Nat \ S \in SUBSET Nat /\ Nat \ S # {}
    OBVIOUS
  <2> QED  BY <2>1, LeastNatural
<1>2. x - 1 \in Nat /\ x - 1 \in S
  BY <1>1
<1> QED  BY <1>1, <1>2

Runs(S, from) == {i \in S : i >= from /\ i .. (i + StableFrames - 1) \subseteq S}

LEMMA EarliestIsLeast ==
    ASSUME NEW S \in SUBSET Nat
    PROVE  /\ S = {} => Earliest(S) = None
           /\ S # {} => Earliest(S) \in S /\ \A i \in S : Earliest(S) <= i
           /\ Earliest(S) # None <=> S # {}
<1>1. S # {} => \E x \in S : \A y \in S : x <= y
  BY LeastNatural
<1>2. S # {} => Min(S) \in S /\ \A y \in S : Min(S) <= y
  BY <1>1, Zenon DEF Min
<1>3. None \notin Nat
  BY DEF None
<1>4. CASE S = {}
  BY <1>4 DEF Earliest
<1>5. CASE S # {}
  BY <1>2, <1>3, <1>5 DEF Earliest
<1> QED  BY <1>4, <1>5

LEMMA FirstRunIsFirst ==
    ASSUME NEW S \in SUBSET Frames, NEW from \in Int
    PROVE  /\ FirstRun(S, from) # None =>
                 /\ FirstRun(S, from) \in Frames
                 /\ FirstRun(S, from) >= from
                 /\ FirstRun(S, from) + StableFrames - 1 \in S
           /\ \A i \in Nat : i >= from /\ i .. (i + StableFrames - 1) \subseteq S =>
                 FirstRun(S, from) # None /\ FirstRun(S, from) <= i
<1> USE TimelineAssumption
<1>0. FirstRun(S, from) = Earliest(Runs(S, from))
  BY Zenon DEF Runs, FirstRun
<1>1. Runs(S, from) \in SUBSET Nat
  <2>1. S \subseteq Nat
    BY DEF Frames
  <2> QED  BY <2>1, Zenon DEF Runs
<1>2. \A i \in Nat : i .. (i + StableFrames - 1) \subseteq S => i \in S
  OBVIOUS
<1>3. \A i \in Runs(S, from) : i \in Frames /\ i >= from /\ i + StableFrames - 1 \in S
  BY DEF Runs, Frames
<1> QED  BY <1>0, <1>1, <1>2, <1>3, EarliestIsLeast DEF Runs

(* The filter changes what lies between the frames, never their number. *)
LEMMA FilteredIsSignal ==
    ASSUME NEW s \in [Frames -> Levels], NEW o \in Nat
    PROVE  /\ Filtered(s, o) \in [o .. LastFrame -> Int]
           /\ Closed(Filtered(s, o)) \in SUBSET Frames
           /\ Opened(Filtered(s, o)) \in SUBSET Frames
           /\ Closed(Filtered(s, o)) \in SUBSET (o .. LastFrame)
           /\ Opened(Filtered(s, o)) \in SUBSET (o .. LastFrame)
<1> USE TimelineAssumption
<1>1. \A a, b, c \in Int : Median(a, b, c) \in Int
  BY DEF Median, Greater, Lesser
<1>2. \A i \in o .. LastFrame : /\ Greater(i - 1, o) \in Frames /\ i \in Frames
                                /\ Lesser(i + 1, LastFrame) \in Frames
  BY DEF Greater, Lesser, Frames
<1>3. \A i \in o .. LastFrame : /\ s[Greater(i - 1, o)] \in Int /\ s[i] \in Int
                                /\ s[Lesser(i + 1, LastFrame)] \in Int
  BY <1>2
<1>4. Filtered(s, o) \in [o .. LastFrame -> Int]
  BY <1>1, <1>3 DEF Filtered
<1> HIDE DEF Filtered
<1> QED  BY <1>4 DEF Closed, Opened, Frames

CloseStarts(f, o) == {i \in DOMAIN f \ {o} : f[i] < OpenLevel /\ f[i] < f[i - 1]}
OpenStarts(f, o, closeDone) == {i \in DOMAIN f \ {o} : i > closeDone /\ f[i] > f[i - 1]}

(* A close that is found: it begins after the cut and is stable. *)
LEMMA CloseIsStable ==
    ASSUME NEW s \in [Frames -> Levels], NEW o \in Nat, CloseRun(Filtered(s, o), o) # None
    PROVE  LET f == Filtered(s, o)
           IN  /\ CloseStart(f, o) \in Frames /\ o < CloseStart(f, o)
               /\ CloseStart(f, o) <= CloseRun(f, o)
               /\ CloseRun(f, o) \in Frames
               /\ CloseRun(f, o) + StableFrames - 1 \in Closed(f)
<1> USE TimelineAssumption
<1> DEFINE f == Filtered(s, o)
<1>1. f \in [o .. LastFrame -> Int] /\ Closed(f) \in SUBSET Frames
  BY FilteredIsSignal
<1> HIDE DEF f
<1>2. CloseStarts(f, o) \in SUBSET Nat /\ CloseStart(f, o) = Earliest(CloseStarts(f, o))
  BY <1>1 DEF CloseStarts, CloseStart
<1>3. CloseStart(f, o) # None /\ CloseRun(f, o) = FirstRun(Closed(f), CloseStart(f, o))
  BY DEF CloseRun, f
<1>4. CloseStart(f, o) \in CloseStarts(f, o)
  BY <1>2, <1>3, EarliestIsLeast
<1>5. CloseStart(f, o) \in Frames /\ o < CloseStart(f, o)
  BY <1>1, <1>4 DEF CloseStarts, Frames
<1>6. FirstRun(Closed(f), CloseStart(f, o)) # None
  BY <1>3 DEF f
<1>7. CloseStart(f, o) \in Int
  BY <1>5 DEF Frames
<1>8. /\ CloseRun(f, o) \in Frames /\ CloseRun(f, o) >= CloseStart(f, o)
      /\ CloseRun(f, o) + StableFrames - 1 \in Closed(f)
  BY <1>1, <1>3, <1>6, <1>7, FirstRunIsFirst
<1> QED  BY <1>5, <1>7, <1>8 DEF f, Frames

(* The frames of a loop stand in their order, behind the cut. *)
LEMMA LoopInOrder ==
    ASSUME NEW s \in [Frames -> Levels], NEW o \in Nat, NEW e \in LoopFrom(s, o)
    PROVE  /\ e.closeStart \in Frames /\ e.closeDone \in Frames
           /\ e.openStart \in Frames /\ e.openDone \in Frames
           /\ o < e.closeStart /\ e.closeStart < e.closeDone
           /\ e.closeDone < e.openStart /\ e.openStart < e.openDone
<1> USE TimelineAssumption
<1> DEFINE f == Filtered(s, o)
           closeDone == CloseRun(f, o) + StableFrames - 1
           openStart == Earliest({i \in DOMAIN f \ {o} : i > closeDone /\ f[i] > f[i - 1]})
           openRun == FirstRun(Opened(f), openStart)
<1>1. /\ e = [closeStart |-> CloseStart(f, o), closeDone |-> closeDone,
              openStart |-> openStart, openDone |-> openRun + StableFrames - 1]
      /\ CloseRun(f, o) # None /\ openStart # None /\ openRun # None
      /\ e.closeStart < e.closeDone /\ e.closeDone < e.openStart /\ e.openStart < e.openDone
  BY DEF LoopFrom
<1>2. /\ CloseStart(f, o) \in Frames /\ o < CloseStart(f, o)
      /\ CloseRun(f, o) \in Frames
      /\ CloseRun(f, o) + StableFrames - 1 \in Closed(f)
  BY <1>1, CloseIsStable
<1>3. /\ f \in [o .. LastFrame -> Int]
      /\ Closed(f) \in SUBSET Frames /\ Opened(f) \in SUBSET Frames
  BY FilteredIsSignal
<1> HIDE DEF f
<1>4. closeDone \in Frames
  BY <1>2, <1>3
<1>5. openStart \in Frames
  <2>1. {i \in DOMAIN f \ {o} : i > closeDone /\ f[i] > f[i - 1]} \in SUBSET Frames
    BY <1>3 DEF Frames
  <2> QED  BY <1>1, <2>1, EarliestIsLeast DEF Frames
<1> HIDE DEF openStart, closeDone
<1>6. openRun + StableFrames - 1 \in Frames
  BY <1>1, <1>3, <1>5, FirstRunIsFirst DEF Frames
<1> HIDE DEF openRun
<1> QED  BY <1>1, <1>2, <1>4, <1>5, <1>6

NextLoop(s, o) == CHOOSE e \in LoopFrom(s, o) : TRUE
Ended(s, o) == LastFrame + 1 - o < 2 * StableFrames \/ LoopFrom(s, o) = {}

Body(s, f, o) ==
    IF Ended(s, o) THEN <<>> ELSE <<NextLoop(s, o)>> \o f[NextLoop(s, o).openDone + 1]

(* The search moves on, and ends with the signal. *)
LEMMA SearchMoves ==
    ASSUME NEW s \in [Frames -> Levels], NEW o \in Nat, ~Ended(s, o)
    PROVE  /\ NextLoop(s, o) \in LoopFrom(s, o)
           /\ NextLoop(s, o).openDone + 1 \in Nat
           /\ o < NextLoop(s, o).openDone + 1
           /\ NextLoop(s, o).openDone \in Frames
<1>1. NextLoop(s, o) \in LoopFrom(s, o)
  BY DEF NextLoop, Ended
<1> QED  BY <1>1, LoopInOrder, TimelineAssumption DEF Frames

(* The recursion of LoopsFrom has a solution: one that is right for the last  *)
(* n cuts is made right for one more.                                         *)
Solves(s, f, n) == \A o \in Nat : LastFrame + 1 - o <= n => f[o] = Body(s, f, o)
Solvable(s) == {n \in Nat : \E f : DOMAIN f = Nat /\ Solves(s, f, n)}

LEMMA RecursionIsSolved ==
    ASSUME NEW s \in [Frames -> Levels]
    PROVE  \E f : f = [o \in Nat |-> Body(s, f, o)]
<1> USE TimelineAssumption
<1>1. \A o \in Nat : LastFrame + 1 - o <= 0 => Ended(s, o)
  BY DEF Ended
<1>2. 0 \in Solvable(s)
  <2>1. Solves(s, [o \in Nat |-> <<>>], 0)
    BY <1>1 DEF Solves, Body
  <2> QED  BY <2>1 DEF Solvable
<1>3. ASSUME NEW n \in Nat, n \in Solvable(s) PROVE n + 1 \in Solvable(s)
  <2>1. PICK f : DOMAIN f = Nat /\ Solves(s, f, n)
    BY <1>3 DEF Solvable
  <2> DEFINE g == [o \in Nat |-> Body(s, f, o)]
  <2>2. \A o \in Nat : LastFrame + 1 - o <= n => g[o] = f[o]
    BY <2>1 DEF Solves
  <2>3. \A o \in Nat : LastFrame + 1 - o <= n + 1 /\ ~Ended(s, o) =>
            g[NextLoop(s, o).openDone + 1] = f[NextLoop(s, o).openDone + 1]
    BY <2>2, SearchMoves
  <2>4. Solves(s, g, n + 1)
    BY <2>3 DEF Solves, Body
  <2> QED  BY <2>4 DEF Solvable
<1>4. LastFrame + 1 \in Solvable(s)
  BY <1>2, <1>3, Induction
<1>5. PICK f : DOMAIN f = Nat /\ Solves(s, f, LastFrame + 1)
  BY <1>4 DEF Solvable
<1> DEFINE g == [o \in Nat |-> Body(s, f, o)]
<1>6. \A o \in Nat : g[o] = f[o]
  BY <1>5 DEF Solves
<1>7. \A o \in Nat : Body(s, g, o) = Body(s, f, o)
  BY <1>6, SearchMoves DEF Body
<1> QED  BY <1>7

LEMMA LoopsAreFound ==
    ASSUME NEW s \in [Frames -> Levels]
    PROVE  \A o \in Nat : LoopsFrom(s)[o] = Body(s, LoopsFrom(s), o)
<1>1. LoopsFrom(s) = CHOOSE f : f = [o \in Nat |-> Body(s, f, o)]
  BY Zenon DEF LoopsFrom, Body, Ended, NextLoop
<1>2. LoopsFrom(s) = [o \in Nat |-> Body(s, LoopsFrom(s), o)]
  BY <1>1, RecursionIsSolved, Zenon
<1> QED  BY <1>2

(* What is found is loops of the signal, each behind its cut. *)
AllLoops(s) == UNION {LoopFrom(s, o) : o \in Nat}
Listed(s) == {n \in Nat : \A o \in Nat : LastFrame + 1 - o <= n => LoopsFrom(s)[o] \in Seq(AllLoops(s))}

LEMMA LoopsAreLoops ==
    ASSUME NEW s \in [Frames -> Levels]
    PROVE  \A o \in Nat : LoopsFrom(s)[o] \in Seq(AllLoops(s))
<1> USE TimelineAssumption
<1>1. \A o \in Nat : Ended(s, o) => LoopsFrom(s)[o] = <<>>
  BY LoopsAreFound DEF Body
<1>2. 0 \in Listed(s)
  <2>1. \A o \in Nat : LastFrame + 1 - o <= 0 => Ended(s, o)
    BY DEF Ended
  <2>2. \A o \in Nat : Ended(s, o) => LoopsFrom(s)[o] \in Seq(AllLoops(s))
    BY <1>1, EmptySeq
  <2> QED  BY <2>1, <2>2 DEF Listed
<1>3. ASSUME NEW n \in Nat, n \in Listed(s) PROVE n + 1 \in Listed(s)
  <2>1. ASSUME NEW o \in Nat, LastFrame + 1 - o <= n + 1, ~Ended(s, o)
        PROVE  LoopsFrom(s)[o] \in Seq(AllLoops(s))
    <3>1. NextLoop(s, o) \in AllLoops(s)
      BY <2>1, SearchMoves DEF AllLoops
    <3>2. LoopsFrom(s)[NextLoop(s, o).openDone + 1] \in Seq(AllLoops(s))
      BY <1>3, <2>1, SearchMoves DEF Listed
    <3>3. LoopsFrom(s)[o] = <<NextLoop(s, o)>> \o LoopsFrom(s)[NextLoop(s, o).openDone + 1]
      BY <2>1, LoopsAreFound DEF Body
    <3> HIDE DEF AllLoops
    <3> QED  BY <3>1, <3>2, <3>3
  <2>2. \A o \in Nat : Ended(s, o) => LoopsFrom(s)[o] \in Seq(AllLoops(s))
    BY <1>1, EmptySeq
  <2> QED  BY <2>1, <2>2 DEF Listed
<1>4. LastFrame + 1 \in Listed(s)
  BY <1>2, <1>3, Induction
<1> QED  BY <1>4 DEF Listed

(* A close and a reopening behind a cut are a loop of the search from there. *)
LEMMA GestureIsLoop ==
    ASSUME NEW s \in [Frames -> Levels], NEW k \in Nat, NEW c \in Nat, NEW o \in Nat,
           k < c, c < o,
           Filtered(s, k)[c - 1] > ClosedLevel,
           c .. (c + StableFrames - 1) \subseteq Closed(Filtered(s, k)),
           o .. (o + StableFrames - 1) \subseteq Opened(Filtered(s, k))
    PROVE  ~Ended(s, k) /\ \A e \in LoopFrom(s, k) : e.openDone <= o + StableFrames - 1
<1> USE TimelineAssumption
<1> DEFINE f == Filtered(s, k)
           closeDone == CloseRun(f, k) + StableFrames - 1
           openStart == Earliest({i \in DOMAIN f \ {k} : i > closeDone /\ f[i] > f[i - 1]})
           openRun == FirstRun(Opened(f), openStart)
           e == [closeStart |-> CloseStart(f, k), closeDone |-> closeDone,
                 openStart |-> openStart, openDone |-> openRun + StableFrames - 1]
<1>1. /\ f \in [k .. LastFrame -> Int]
      /\ Closed(f) \in SUBSET Frames /\ Opened(f) \in SUBSET Frames
      /\ Closed(f) \in SUBSET (k .. LastFrame) /\ Opened(f) \in SUBSET (k .. LastFrame)
  BY FilteredIsSignal
<1>2. \A i \in Closed(f) : f[i] \in Int /\ f[i] <= ClosedLevel
  BY <1>1 DEF Closed
<1>3. \A i \in Opened(f) : f[i] \in Int /\ f[i] >= OpenLevel
  BY <1>1 DEF Opened
<1>4. c \in Closed(f) /\ c + StableFrames - 1 \in Closed(f)
  OBVIOUS
<1>5. o \in Opened(f) /\ o + StableFrames - 1 \in Opened(f)
  OBVIOUS
<1>6. c + StableFrames - 1 < o
  <2>1. o \notin Closed(f)
    BY <1>2, <1>3, <1>5
  <2> QED  BY <2>1
<1>7. LongEnough(k) /\ LastFrame + 1 - k >= 2 * StableFrames
  BY <1>1, <1>5, <1>6 DEF LongEnough
<1>8. f[c - 1] \in Int /\ f[c - 1] > ClosedLevel
  BY <1>1, <1>4
<1> HIDE DEF f
<1>9. CloseStart(f, k) \in Frames /\ CloseStart(f, k) <= c
  <2>1. CloseStarts(f, k) \in SUBSET Frames /\ CloseStart(f, k) = Earliest(CloseStarts(f, k))
    BY <1>1 DEF CloseStarts, CloseStart, Frames
  <2>2. c \in CloseStarts(f, k)
    BY <1>1, <1>2, <1>4, <1>8 DEF CloseStarts
  <2> QED  BY <2>1, <2>2, EarliestIsLeast DEF Frames
<1>10. CloseStart(f, k) # None
  BY <1>9 DEF Frames, None
<1>11. CloseRun(f, k) = FirstRun(Closed(f), CloseStart(f, k))
  BY <1>7, <1>10 DEF CloseRun
<1>12. /\ CloseRun(f, k) # None /\ CloseRun(f, k) \in Frames
       /\ CloseStart(f, k) <= CloseRun(f, k) /\ CloseRun(f, k) <= c
       /\ CloseRun(f, k) + StableFrames - 1 \in Closed(f)
  <2>1. CloseStart(f, k) \in Int /\ c .. (c + StableFrames - 1) \subseteq Closed(f)
    BY <1>9 DEF Frames, f
  <2> QED  BY <1>1, <1>9, <1>11, <2>1, FirstRunIsFirst
<1>13. closeDone \in Closed(f) /\ closeDone \in Frames /\ closeDone < o
  BY <1>1, <1>6, <1>12 DEF Frames
<1>14. PICK m \in (closeDone + 1) .. o : f[m] > ClosedLevel /\ f[m - 1] <= ClosedLevel
  <2> DEFINE T == {i \in (closeDone + 1) .. o : f[i] > ClosedLevel}
  <2>1. T \in SUBSET Nat /\ o \in T
    BY <1>3, <1>5, <1>13 DEF Frames
  <2>2. PICK m \in T : \A i \in T : m <= i
    BY <2>1, LeastNatural
  <2>3. m - 1 = closeDone \/ m - 1 \in (closeDone + 1) .. o
    <3>1. closeDone \in Int
      BY <1>13 DEF Frames
    <3> HIDE DEF closeDone
    <3> QED  BY <2>2, <3>1
  <2>4. m - 1 \notin T
    BY <2>1, <2>2
  <2>5. m - 1 \in k .. LastFrame
    BY <1>1, <1>5, <1>13, <2>3
  <2>6. f[m - 1] <= ClosedLevel
    BY <1>1, <1>2, <1>13, <2>3, <2>4, <2>5
  <2> QED  BY <2>2, <2>6
<1>15. openStart # None /\ openStart \in Frames /\ closeDone < openStart /\ openStart <= o
  <2> DEFINE T == {i \in DOMAIN f \ {k} : i > closeDone /\ f[i] > f[i - 1]}
  <2>1. T \in SUBSET Nat
    BY <1>1
  <2>2. m \in T
    <3>1. m \in k .. LastFrame /\ m - 1 \in k .. LastFrame /\ m # k
      BY <1>1, <1>5, <1>13, SMTT(30)
    <3>2. f[m] \in Int /\ f[m - 1] \in Int
      BY <1>1, <3>1
    <3> QED  BY <1>1, <1>13, <1>14, <3>1, <3>2, SMTT(30) DEF Frames
  <2>3. openStart \in T /\ openStart <= m /\ openStart # None
    BY <2>1, <2>2, EarliestIsLeast
  <2> QED  BY <1>1, <1>13, <2>3 DEF Frames
<1>16. /\ openRun # None /\ openRun \in Frames /\ openStart <= openRun /\ openRun <= o
  <2>1. openStart \in Int /\ o .. (o + StableFrames - 1) \subseteq Opened(f)
    BY <1>15 DEF Frames, f
  <2> HIDE DEF openStart
  <2> QED  BY <1>1, <1>15, <2>1, FirstRunIsFirst
<1>17. e.closeStart < e.closeDone /\ e.closeDone < e.openStart /\ e.openStart < e.openDone
  <2> HIDE DEF openStart, openRun
  <2> QED  BY <1>9, <1>12, <1>15, <1>16 DEF Frames
<1>18. LoopFrom(s, k) = {e}
  <2> HIDE DEF e
  <2>1. LoopFrom(s, k) = {x \in {e} :
          /\ CloseRun(f, k) # None
          /\ openStart # None
          /\ openRun # None
          /\ x.closeStart < x.closeDone
          /\ x.closeDone < x.openStart
          /\ x.openStart < x.openDone}
    BY Zenon DEF LoopFrom, f, e
  <2> QED  BY <1>12, <1>15, <1>16, <1>17, <2>1
<1>19. e.openDone <= o + StableFrames - 1
  <2> HIDE DEF openRun
  <2> QED  BY <1>16 DEF Frames
<1> HIDE DEF e, openRun, openStart, closeDone
<1> QED  BY <1>7, <1>18, <1>19 DEF Ended

(* A cut changes the filtered signal on the frame of the cut only. *)
LEMMA CutKeepsTheRest ==
    ASSUME NEW s \in [Frames -> Levels], NEW k \in Frames
    PROVE  /\ Filtered(s, k)[k] = s[k]
           /\ \A i \in (k + 1) .. LastFrame : Filtered(s, k)[i] = Filtered(s, 0)[i]
<1> USE TimelineAssumption
<1>1. \A a, b \in Int : Median(a, a, b) = a
  BY DEF Median, Greater, Lesser
<1>2. Greater(k - 1, k) = k /\ Lesser(k + 1, LastFrame) \in Frames
  BY DEF Greater, Lesser, Frames
<1>3. s[k] \in Int /\ s[Lesser(k + 1, LastFrame)] \in Int
  BY <1>2
<1>4. k \in k .. LastFrame /\ k \in Nat
  BY DEF Frames
<1>5. Filtered(s, k)[k] = Median(s[k], s[k], s[Lesser(k + 1, LastFrame)])
  BY <1>2, <1>4 DEF Filtered
<1>6. Filtered(s, k)[k] = s[k]
  BY <1>1, <1>3, <1>5
<1>7. ASSUME NEW i \in (k + 1) .. LastFrame
      PROVE  Filtered(s, k)[i] = Filtered(s, 0)[i]
  <2>1. Greater(i - 1, k) = i - 1 /\ Greater(i - 1, 0) = i - 1
    BY <1>4 DEF Greater
  <2>2. i \in k .. LastFrame /\ i \in 0 .. LastFrame
    BY <1>4
  <2> QED  BY <2>1, <2>2 DEF Filtered
<1> QED  BY <1>6, <1>7

(* The first of two gestures is a loop, which ends before the second begins;  *)
(* the second is one unless the cut falls on its first frame or the one before.*)
LEMMA SecondGestureIsFound ==
    ASSUME NEW s \in [Frames -> Levels], NEW c \in Frames, SecondGestureAt(s, c)
    PROVE  LET cut == ArmLoops(s)[1].openDone + 1
           IN  \/ Len(ArmLoops(s)) >= 2
               \/ /\ Len(ArmLoops(s)) = 1
                  /\ c = cut \/ (c = cut + 1 /\ s[cut] <= ClosedLevel)
<1> USE TimelineAssumption
<1> DEFINE f == Filtered(s, 0)
           e == NextLoop(s, 0)
           cut == e.openDone + 1
<1>1. /\ f \in [Frames -> Int]
      /\ Closed(f) \in SUBSET Frames /\ Opened(f) \in SUBSET Frames
  BY FilteredIsSignal DEF Frames
<1>2. PICK o \in Frames : c < o /\ o .. (o + StableFrames - 1) \subseteq Opened(f)
  BY DEF SecondGestureAt, OpensAt
<1>3. PICK b, p \in Frames : /\ b < p /\ p < c
                             /\ b - 1 \in DOMAIN f \ Closed(f)
                             /\ b .. (b + StableFrames - 1) \subseteq Closed(f)
                             /\ p .. (p + StableFrames - 1) \subseteq Opened(f)
  BY DEF SecondGestureAt, OpensAt, ClosesAt
<1>4. c - 1 \in DOMAIN f \ Closed(f) /\ c .. (c + StableFrames - 1) \subseteq Closed(f)
  BY DEF SecondGestureAt, ClosesAt
<1>5. \A i \in DOMAIN f \ Closed(f) : f[i] \in Int /\ f[i] > ClosedLevel
  BY <1>1 DEF Closed
<1>6. c \notin Opened(f)
  <2>1. c \in Closed(f)
    BY <1>4 DEF Frames
  <2> QED  BY <1>1, <2>1 DEF Closed, Opened
<1>7. p + StableFrames - 1 < c
  BY <1>3, <1>6 DEF Frames
<1>8. ~Ended(s, 0) /\ \A x \in LoopFrom(s, 0) : x.openDone <= p + StableFrames - 1
  <2>1. b \in Nat /\ p \in Nat /\ 0 < b /\ f[b - 1] > ClosedLevel
    BY <1>1, <1>3, <1>5 DEF Frames
  <2> QED  BY <1>3, <2>1, GestureIsLoop
<1>9. e \in LoopFrom(s, 0) /\ e.openDone \in Frames /\ cut \in Nat
  BY <1>8, SearchMoves
<1> HIDE DEF e
<1>10. cut <= c /\ cut \in Frames
  <2>1. e.openDone <= p + StableFrames - 1
    BY <1>8, <1>9
  <2> QED  BY <1>7, <1>9, <2>1 DEF Frames
<1>11. ArmLoops(s) = <<e>> \o LoopsFrom(s)[cut]
  BY <1>8, LoopsAreFound DEF ArmLoops, Body, e
<1>12. e \in AllLoops(s) /\ LoopsFrom(s)[cut] \in Seq(AllLoops(s))
  BY <1>9, LoopsAreLoops DEF AllLoops
<1> HIDE DEF cut
<1>13. Len(ArmLoops(s)) = 1 + Len(LoopsFrom(s)[cut]) /\ ArmLoops(s)[1] = e
  BY <1>11, <1>12
<1>14. CASE c = cut \/ (c = cut + 1 /\ s[cut] <= ClosedLevel)
  <2>1. Len(LoopsFrom(s)[cut]) \in Nat
    BY <1>12
  <2> QED  BY <1>13, <1>14, <2>1 DEF cut
<1>15. CASE c > cut + 1 \/ (c = cut + 1 /\ s[cut] > ClosedLevel)
  <2> DEFINE g == Filtered(s, cut)
  <2>1. g[cut] = s[cut] /\ \A i \in (cut + 1) .. LastFrame : g[i] = f[i]
    BY <1>10, CutKeepsTheRest
  <2>2. g \in [cut .. LastFrame -> Int]
    BY <1>9, FilteredIsSignal DEF cut
  <2> HIDE DEF f, g
  <2>3. cut < c /\ g[c - 1] > ClosedLevel
    <3>1. CASE c > cut + 1
      <4>1. c - 1 \in (cut + 1) .. LastFrame
        BY <1>10, <3>1 DEF Frames
      <4> QED  BY <1>4, <1>5, <1>10, <2>1, <3>1, <4>1 DEF Frames
    <3>2. CASE c = cut + 1 /\ s[cut] > ClosedLevel
      <4>1. c - 1 = cut
        BY <1>10, <3>2 DEF Frames
      <4> QED  BY <1>10, <2>1, <3>2, <4>1 DEF Frames
    <3> QED  BY <1>15, <3>1, <3>2
  <2>4. \A i \in Closed(f) : i > cut => i \in Closed(g)
    BY <1>1, <1>10, <2>1, <2>2 DEF Closed, Frames
  <2>5. \A i \in Opened(f) : i > cut => i \in Opened(g)
    BY <1>1, <1>10, <2>1, <2>2 DEF Opened, Frames
  <2>6. c .. (c + StableFrames - 1) \subseteq Closed(g)
    BY <1>4, <1>10, <2>3, <2>4 DEF Frames
  <2>7. o .. (o + StableFrames - 1) \subseteq Opened(g)
    BY <1>2, <1>10, <2>3, <2>5 DEF Frames
  <2>8. ~Ended(s, cut)
    <3>1. cut \in Nat /\ c \in Nat /\ o \in Nat
      BY <1>10 DEF Frames
    <3> QED  BY <1>2, <2>3, <2>6, <2>7, <3>1, GestureIsLoop DEF g
  <2> DEFINE d == NextLoop(s, cut)
  <2>9. d \in AllLoops(s) /\ d.openDone + 1 \in Nat /\ cut \in Nat
    BY <1>10, <2>8, SearchMoves, SMTT(30) DEF AllLoops, Frames
  <2>10. LoopsFrom(s)[cut] = <<d>> \o LoopsFrom(s)[d.openDone + 1]
    BY <2>8, <2>9, LoopsAreFound DEF Body
  <2>11. LoopsFrom(s)[d.openDone + 1] \in Seq(AllLoops(s))
    BY <2>9, LoopsAreLoops
  <2> HIDE DEF d
  <2>12. Len(LoopsFrom(s)[cut]) >= 1
    BY <2>9, <2>10, <2>11
  <2> QED  BY <1>12, <1>13, <2>12
<1>16. c \in Int /\ cut \in Int /\ s[cut] \in Int
  <2>1. s[cut] \in Levels
    BY <1>10
  <2>2. s[cut] \in Int
    BY <2>1
  <2>3. c \in Int /\ cut \in Int
    BY <1>10 DEF Frames
  <2> QED  BY <2>2, <2>3
<1> QED  BY <1>10, <1>14, <1>15, <1>16

---------------------------------------------------------------------------
(* The windows and the seeds *)

LEMMA Products ==
    ASSUME NEW a \in Nat, NEW b \in Nat, a <= b, NEW l \in Nat
    PROVE  a * l <= b * l
<1>1. (b - a) * l >= 0
  <2>1. \A x \in Nat : x * l \in Nat
    OBVIOUS
  <2> QED  BY <2>1
<1>2. (b - a) * l = b * l - a * l
  OBVIOUS
<1>3. a * l \in Int /\ b * l \in Int
  OBVIOUS
<1> QED  BY <1>1, <1>2, <1>3

LEMMA Division ==
    ASSUME NEW n \in Nat, NEW d \in Nat, d > 0
    PROVE  /\ n \div d \in Nat /\ n % d \in 0 .. (d - 1)
           /\ n = (n \div d) * d + (n % d)
OBVIOUS

LEMMA RoundedShare ==
    ASSUME NEW n \in Nat, NEW d \in Nat, d > 0, NEW len \in Nat, n <= len * d
    PROVE  RoundHalfEven(n, d) \in 0 .. len
<1> DEFINE q == n \div d
           r == n % d
<1>1. q \in Nat /\ r \in 0 .. (d - 1) /\ n = q * d + r
  BY Division
<1> HIDE DEF q, r
<1>2. q <= len
  <2>1. SUFFICES ASSUME len + 1 <= q PROVE FALSE
    BY <1>1
  <2>2. (len + 1) * d <= q * d
    BY <1>1, <2>1, Products
  <2>3. (len + 1) * d = len * d + d
    OBVIOUS
  <2> QED  BY <1>1, <2>2, <2>3
<1>3. q = len => r = 0
  BY <1>1
<1>4. RoundHalfEven(n, d) \in {q, q + 1} /\ (r = 0 => RoundHalfEven(n, d) = q)
  BY <1>1 DEF RoundHalfEven, q, r
<1> QED  BY <1>1, <1>2, <1>3, <1>4
(* Frames at equal distances stay between the first and the last one. *)
LEMMA UniformFramesFit ==
    ASSUME NEW first \in Nat, NEW last \in Nat, first <= last, NEW count \in Nat \ {0}
    PROVE  /\ UniformFrames(first, last, count) # {}
           /\ UniformFrames(first, last, count) \subseteq first .. last
<1>1. CASE first = last \/ count = 1
  BY <1>1 DEF UniformFrames
<1>2. CASE ~(first = last \/ count = 1)
  <2> DEFINE len == last - first
             d == count - 1
  <2>1. len \in Nat /\ d \in Nat /\ d > 0
    BY <1>2
  <2>2. UniformFrames(first, last, count) = {first + RoundHalfEven(k * len, d) : k \in 0 .. d}
    BY <1>2 DEF UniformFrames
  <2> HIDE DEF len, d
  <2>3. ASSUME NEW k \in 0 .. d PROVE RoundHalfEven(k * len, d) \in 0 .. len
    <3>1. k \in Nat /\ k <= d
      BY <2>1
    <3>2. k * len <= d * len /\ k * len \in Nat /\ d * len = len * d
      BY <2>1, <3>1, Products
    <3> QED  BY <2>1, <3>2, RoundedShare
  <2>4. 0 \in 0 .. d
    BY <2>1
  <2>5. len + first = last
    BY DEF len
  <2>6. \A k \in 0 .. d : first + RoundHalfEven(k * len, d) \in first .. last
    BY <2>1, <2>3, <2>5
  <2> QED  BY <2>2, <2>4, <2>6
<1> QED  BY <1>1, <1>2

(* What the later stages take for granted of a context. *)
Spans == [start : Frames, end : Frames]

Fits(c) ==
    /\ c.target \in Spans /\ c.check \in Spans /\ c.receiver \in Spans
    /\ ContextHolds(c)
    /\ Inside(c.check, c.target)
    /\ \A f \in c.seeds : f <= c.target.end /\ f <= c.receiver.end
    /\ c.mode = "pick_place" => c.target.start <= c.receiver.end

(* A close in its order makes seeds before it and windows around it. *)
Close(e) == /\ e.closeStart \in Frames /\ e.closeDone \in Frames
            /\ 0 < e.closeStart /\ e.closeStart < e.closeDone

LEMMA SeedsComeBefore ==
    ASSUME NEW e, Close(e)
    PROVE  /\ SeedFrames(e) # {}
           /\ \A f \in SeedFrames(e) : f \in Frames /\ f <= e.closeStart
<1> USE TimelineAssumption
<1> DEFINE last == Greater(0, e.closeStart - SeedMargin)
<1>1. last \in Nat /\ last <= e.closeStart
  BY DEF Close, Greater, Frames
<1>2. SeedFrames(e) = UniformFrames(0, last, SeedCount)
  BY DEF SeedFrames
<1> HIDE DEF last
<1>3. SeedFrames(e) # {} /\ SeedFrames(e) \subseteq 0 .. last
  BY <1>1, <1>2, UniformFramesFit
<1> QED  BY <1>1, <1>3 DEF Close, Frames

LEMMA MoveComesFirst ==
    ASSUME NEW e, Close(e), NEW move \in MoveFrames(e)
    PROVE  move \in Frames /\ move <= e.closeStart
BY TimelineAssumption DEF Close, MoveFrames, Frames

LEMMA PickPlaceFits ==
    ASSUME NEW s \in [Frames -> Levels], NEW t \in [Frames -> Levels],
           NEW c \in PickPlaceContexts(s, t)
    PROVE  Fits(c)
<1> USE TimelineAssumption
<1> DEFINE loops == ArmLoops(s) \o ArmLoops(t)
           e == loops[1]
<1>1. Len(loops) = 1 /\ \E move \in MoveFrames(e) : c = PickPlaceContext(e, move)
  BY DEF PickPlaceContexts
<1>2. loops \in Seq(AllLoops(s) \cup AllLoops(t))
  <2>1. ArmLoops(s) \in Seq(AllLoops(s)) /\ ArmLoops(t) \in Seq(AllLoops(t))
    BY LoopsAreLoops DEF ArmLoops
  <2> QED  BY <2>1
<1> HIDE DEF loops
<1>3. e \in AllLoops(s) \cup AllLoops(t)
  <2>1. 1 \in 1 .. Len(loops)
    BY <1>1
  <2> QED  BY <1>2, <2>1, ElementOfSeq
<1> HIDE DEF e
<1>4. /\ Close(e) /\ e.openStart \in Frames /\ e.openDone \in Frames
      /\ e.closeDone < e.openStart /\ e.openStart < e.openDone
  BY <1>3, LoopInOrder DEF AllLoops, Close, Frames
<1>5. PICK move \in MoveFrames(e) : c = PickPlaceContext(e, move)
  BY <1>1
<1>6. move \in Frames /\ move <= e.closeStart
  BY <1>4, MoveComesFirst
<1>7. /\ SeedFrames(e) # {}
      /\ \A f \in SeedFrames(e) : f \in Frames /\ f <= e.closeStart
  BY <1>4, SeedsComeBefore
<1>8. /\ c.mode = "pick_place" /\ c.seeds = SeedFrames(e)
      /\ c.target = Window(move, e.openStart - 1)
      /\ c.check = Window(move, e.closeDone)
      /\ c.receiver = Window(e.closeDone, e.openDone)
  BY <1>5 DEF PickPlaceContext
<1>9. e.openStart - 1 \in Frames
  BY <1>4 DEF Close, Frames
<1>10. c.target \in Spans /\ c.check \in Spans /\ c.receiver \in Spans
  BY <1>4, <1>6, <1>8, <1>9 DEF Window, Spans, Close
<1>11. ContextHolds(c) /\ Inside(c.check, c.target)
  BY <1>4, <1>6, <1>7, <1>8 DEF ContextHolds, Valid, Inside, Window, Close, Frames
<1>12. /\ \A f \in c.seeds : f <= c.target.end /\ f <= c.receiver.end
       /\ c.target.start <= c.receiver.end
  BY <1>4, <1>6, <1>7, <1>8 DEF Window, Close, Frames
<1> QED  BY <1>10, <1>11, <1>12 DEF Fits

LEMMA TargetOnlyFits ==
    ASSUME NEW s \in [Frames -> Levels], NEW t \in [Frames -> Levels],
           NEW c \in TargetOnlyContexts(s, t)
    PROVE  Fits(c)
<1> USE TimelineAssumption
<1> DEFINE e == CHOOSE e \in HoldFrom(s) \cup HoldFrom(t) : TRUE
<1>1. /\ HoldFrom(s) \cup HoldFrom(t) # {}
      /\ \E move \in MoveFrames(e) : c = TargetOnlyContext(e, move)
  BY DEF TargetOnlyContexts
<1>2. e \in HoldFrom(s) \cup HoldFrom(t)
  BY <1>1
<1> HIDE DEF e
<1>3. ASSUME NEW v \in [Frames -> Levels], e \in HoldFrom(v) PROVE Close(e)
  <2> DEFINE f == Filtered(v, 0)
  <2>1. /\ CloseRun(f, 0) # None
        /\ e.closeStart = CloseStart(f, 0) /\ e.closeDone = CloseRun(f, 0) + StableFrames - 1
        /\ e.closeStart < e.closeDone
    BY <1>3 DEF HoldFrom
  <2>2. /\ CloseStart(f, 0) \in Frames /\ 0 < CloseStart(f, 0)
        /\ CloseRun(f, 0) + StableFrames - 1 \in Closed(f)
    BY <2>1, CloseIsStable
  <2>3. Closed(f) \in SUBSET Frames
    BY FilteredIsSignal
  <2> HIDE DEF f
  <2> QED  BY <2>1, <2>2, <2>3 DEF Close
<1>4. Close(e)
  BY <1>2, <1>3
<1>5. PICK move \in MoveFrames(e) : c = TargetOnlyContext(e, move)
  BY <1>1
<1>6. move \in Frames /\ move <= e.closeStart
  BY <1>4, MoveComesFirst
<1>7. /\ SeedFrames(e) # {}
      /\ \A f \in SeedFrames(e) : f \in Frames /\ f <= e.closeStart
  BY <1>4, SeedsComeBefore
<1>8. /\ c.mode = "target_only" /\ c.seeds = SeedFrames(e)
      /\ c.target = Window(move, LastFrame)
      /\ c.check = Window(move, e.closeDone)
      /\ c.receiver = Window(move, LastFrame)
  BY <1>5 DEF TargetOnlyContext
<1>9. LastFrame \in Frames
  BY DEF Frames
<1>10. c.target \in Spans /\ c.check \in Spans /\ c.receiver \in Spans
  BY <1>4, <1>6, <1>8, <1>9 DEF Window, Spans, Close
<1>11. ContextHolds(c) /\ Inside(c.check, c.target)
  BY <1>4, <1>6, <1>7, <1>8 DEF ContextHolds, Valid, Inside, Window, Close, Frames
<1>12. \A f \in c.seeds : f <= c.target.end /\ f <= c.receiver.end
  BY <1>4, <1>6, <1>7, <1>8 DEF Window, Close, Frames
<1> QED  BY <1>8, <1>10, <1>11, <1>12 DEF Fits

LEMMA VideoFits ==
    ASSUME NEW w \in Spans, w.start <= w.end, NEW mode \in {"target_only", "tool_use"}
    PROVE  Fits(VideoContext(w, mode))
<1> USE TimelineAssumption
<1> DEFINE c == VideoContext(w, mode)
<1>1. /\ c.mode = mode /\ c.target = w /\ c.check = w /\ c.receiver = w
      /\ c.seeds = UniformFrames(w.start, w.end, Greater(8, SeedCount))
  BY DEF VideoContext
<1> HIDE DEF c
<1>2. w.start \in Nat /\ w.end \in Nat /\ w.end <= LastFrame
  BY DEF Spans, Frames
<1>3. Greater(8, SeedCount) \in Nat \ {0}
  BY DEF Greater
<1>4. c.seeds # {} /\ c.seeds \subseteq w.start .. w.end
  BY <1>1, <1>2, <1>3, UniformFramesFit
<1>5. ContextHolds(c) /\ Inside(c.check, c.target)
  BY <1>1, <1>2, <1>4 DEF ContextHolds, Valid, Inside, Frames
<1>6. \A f \in c.seeds : f <= c.target.end /\ f <= c.receiver.end
  BY <1>1, <1>2, <1>4
<1> QED  BY <1>1, <1>5, <1>6 DEF Fits, c

---------------------------------------------------------------------------
(* The object masks *)

Todos == {<<>>, <<"target">>, <<"receiver">>, <<"target", "receiver">>}
Early == {"detect", "plan", "failed"}

Trials == [method : {"text", "bbox"}, seed : context.seeds,
           status : {"passed", "refused", "error"}, id : {"A", "B", "BBOX", "none"}]

(* The structure that TypeOK leaves open. *)
Shape == /\ todo \in Todos
         /\ at \in {"resolve", "track"} => todo # <<>>
         /\ attempts \in Seq(Trials)
         /\ attempts # <<>> => at = "resolve"
         /\ \A r \in Roles : plan[r].status = "ok" => plan[r].seed \in context.seeds
         /\ DOMAIN reports = Roles /\ DOMAIN tracks = Roles /\ DOMAIN accepted = Roles

(* Nothing is judged before the plan is there, nothing tracked before QC. *)
Fresh == /\ at = "detect" => plan = Unplanned
         /\ at \in Early => \A r \in Roles : reports[r] = Report("not_run")
         /\ at \in Early \cup {"resolve"} => \A r \in Roles : tracks[r] = NoTrack

(* QC treats the roles in their order and leaves out none. *)
Pending ==
    /\ at = "resolve" =>
          /\ config.qc
          /\ \A r \in Range(todo) : reports[r].status = "not_run"
          /\ \A r \in Range(RolesOf(context.mode)) \ Range(todo) : reports[r].status # "not_run"
    /\ at = "track" /\ config.qc => \A r \in Range(todo) : reports[r].status # "not_run"

(* The accepted mask of a role stays the one its passing attempt or its *)
(* passing report names.                                                *)
Selected ==
    /\ at = "resolve" /\ Decided /\ Last.status = "passed" =>
          accepted[Role] = Mask(Last.method, Last.seed, Last.id)
    /\ \A r \in Roles : reports[r].status = "passed" =>
          /\ accepted[r] = Mask(reports[r].from.method, reports[r].from.seed, reports[r].id)
          /\ reports[r].seed = accepted[r].seed

IInv == /\ TypeOK /\ Shape /\ Fresh /\ Pending /\ Selected
        /\ RescueComesLast /\ AcceptedMaskIsTracked

LEMMA RoleIsOne ==
    ASSUME Shape, todo # <<>>
    PROVE  /\ Role \in Roles /\ Role \in Range(todo)
           /\ Range(todo) \subseteq Roles
           /\ Tail(todo) \in Todos
           /\ Role \notin Range(Tail(todo))
           /\ Range(todo) = {Role} \cup Range(Tail(todo))
           /\ Len(todo) > 1 <=> Tail(todo) # <<>>
<1>1. CASE todo = <<"target">>
  BY <1>1 DEF Todos, Role, Roles, Range
<1>2. CASE todo = <<"receiver">>
  BY <1>2 DEF Todos, Role, Roles, Range
<1>3. CASE todo = <<"target", "receiver">>
  <2>1. Tail(todo) = <<"receiver">> /\ Head(todo) = "target" /\ Len(todo) = 2
    BY <1>3
  <2>2. Range(todo) = {"target", "receiver"} /\ Range(Tail(todo)) = {"receiver"}
    BY <1>3, <2>1 DEF Range
  <2> QED BY <2>1, <2>2 DEF Todos, Role, Roles
<1> QED BY <1>1, <1>2, <1>3 DEF Shape, Todos

LEMMA RolesOfMode ==
    ASSUME NEW mode
    PROVE  /\ RolesOf(mode) \in Todos /\ RolesOf(mode) # <<>>
           /\ Range(RolesOf(mode)) \subseteq Roles
BY DEF RolesOf, Todos, Range, Roles

Rest == <<config, plan, todo, attempts, reports, tracks, accepted>>

LEMMA InitHolds == Init => IInv
<1> SUFFICES ASSUME Init PROVE IInv
  OBVIOUS
<1>1. context.seeds \subseteq Frames
  BY TimelineAssumption
  DEF Init, VideoContext, Window, UniformFrames, Frames
<1>2. TypeOK
  BY <1>1 DEF Init, TypeOK, Unplanned, NoSeed, Report, NoTrack, Statuses, Roles
<1>3. attempts = <<>> /\ at = "detect" /\ todo = <<>> /\ plan = Unplanned
  BY DEF Init
<1>4. \A r \in Roles : reports[r] = Report("not_run") /\ tracks[r] = NoTrack
  BY DEF Init
<1>5. Shape
  BY <1>3, EmptySeq DEF Init, Shape, Todos, Unplanned, NoSeed
<1>6. Fresh /\ Pending
  BY <1>3, <1>4 DEF Fresh, Pending
<1>7. Selected
  BY <1>3, <1>4 DEF Selected, Report
<1>8. RescueComesLast /\ AcceptedMaskIsTracked
  BY <1>3, <1>4 DEF RescueComesLast, AcceptedMaskIsTracked, NoTrack, Init
<1> QED BY <1>2, <1>5, <1>6, <1>7, <1>8 DEF IInv

(* A step of the first stage moves on with everything else as it was. *)
LEMMA DetectStepHolds ==
    ASSUME IInv, at = "detect", UNCHANGED Rest, at' \in {"plan", "failed", "raised"},
           at' # "raised" => context'.seeds \subseteq Frames
    PROVE  IInv'
<1> USE DEF IInv, Rest
<1>1. attempts = <<>> /\ plan = Unplanned
  BY DEF Fresh, Shape
<1>2. \A r \in Roles : reports[r] = Report("not_run") /\ tracks[r] = NoTrack
  BY DEF Fresh, Early
<1>3. TypeOK'
  BY <1>1, <1>2 DEF TypeOK, Unplanned, NoSeed, Report, NoTrack, Statuses
<1>4. Shape'
  BY <1>1, EmptySeq DEF Shape, Unplanned, NoSeed
<1>5. Fresh' /\ Pending'
  BY <1>2 DEF Fresh, Pending
<1>6. Selected'
  BY <1>2 DEF Selected, Report
<1>7. RescueComesLast' /\ AcceptedMaskIsTracked'
  BY <1>2 DEF RescueComesLast, AcceptedMaskIsTracked, NoTrack
<1> QED BY <1>3, <1>4, <1>5, <1>6, <1>7

LEMMA PlanFailsHolds == IInv /\ PlanFails => IInv'
<1> SUFFICES ASSUME IInv, PlanFails PROVE IInv'
  OBVIOUS
<1> USE DEF IInv, PlanFails
<1>1. TypeOK' /\ Shape'
  BY DEF TypeOK, Shape, Statuses, Trials
<1>2. Fresh' /\ Pending' /\ Selected'
  BY DEF Fresh, Early, Pending, Selected, Decided, Last, Role
<1>3. RescueComesLast' /\ AcceptedMaskIsTracked'
  BY DEF RescueComesLast, AcceptedMaskIsTracked
<1> QED BY <1>1, <1>2, <1>3

LEMMA PlanHolds == IInv /\ Plan => IInv'
<1> SUFFICES ASSUME IInv, Plan PROVE IInv'
  OBVIOUS
<1> USE DEF IInv
<1>1. PICK qc, seeds, bbox \in BOOLEAN :
           /\ config' = [qc |-> qc, seeds |-> seeds, bbox |-> bbox]
           /\ at' = IF qc THEN "resolve" ELSE "track"
  BY DEF Plan
<1>2. /\ at = "plan" /\ todo' = RolesOf(context.mode)
      /\ UNCHANGED <<signal, context, attempts, reports, tracks, accepted>>
  BY DEF Plan
<1>3. attempts = <<>>
  BY <1>2 DEF Shape
<1>4. \A r \in Roles : reports[r] = Report("not_run") /\ tracks[r] = NoTrack
  BY <1>2 DEF Fresh, Early
<1>5. ASSUME NEW r \in Roles
      PROVE  /\ plan'[r].seed \in context.seeds \cup {None}
             /\ plan'[r].status = "ok" => plan'[r].seed \in context.seeds
  <2>1. plan'[r] \in {NoSeed} \cup {[status |-> "ok", seed |-> f] : f \in context.seeds}
    BY DEF Plan, Answers
  <2> QED BY <2>1 DEF NoSeed
<1>6. TypeOK'
  <2>1. config' \in [qc : BOOLEAN, seeds : BOOLEAN, bbox : BOOLEAN]
    BY <1>1
  <2>2. at' \in {"resolve", "track"} /\ at = "plan"
    BY <1>1, <1>2
  <2> QED BY <1>2, <1>5, <2>1, <2>2 DEF TypeOK
<1>7. Shape'
  <2>1. \A r \in Roles : plan'[r].status = "ok" => plan'[r].seed \in context'.seeds
    BY <1>2, <1>5
  <2> QED BY <1>2, <1>3, <2>1, EmptySeq, RolesOfMode DEF Shape
<1>8. Fresh'
  BY <1>1, <1>2, <1>4 DEF Fresh, Early
<1>9. Pending'
  <2>1. at' = "resolve" => config'.qc
    BY <1>1
  <2>2. at' = "track" => ~config'.qc
    BY <1>1
  <2>3. \A r \in Range(todo') : reports'[r].status = "not_run"
    BY <1>2, <1>4, RolesOfMode DEF Report
  <2>4. Range(RolesOf(context'.mode)) \ Range(todo') = {}
    BY <1>2
  <2> QED BY <2>1, <2>2, <2>3, <2>4 DEF Pending
<1>10. Selected' /\ RescueComesLast' /\ AcceptedMaskIsTracked'
  BY <1>2, <1>3, <1>4
  DEF Selected, Report, Decided, RescueComesLast, AcceptedMaskIsTracked, NoTrack
<1> QED BY <1>6, <1>7, <1>8, <1>9, <1>10

(* A box is drawn only when no text seed is left; both kinds of attempt keep *)
(* the invariant, since the attempts before them were all refused.           *)
LEMMA TryHolds ==
    ASSUME IInv, NEW method \in {"text", "bbox"}, Try(method),
           method = "bbox" => Left("text") = {}
    PROVE  IInv'
<1> USE DEF IInv
<1>1. /\ at = "resolve" /\ ~Decided
      /\ UNCHANGED <<at, signal, config, context, plan, todo, reports, tracks>>
  BY DEF Try
<1>2. PICK seed \in context.seeds, status \in {"passed", "refused", "error"},
           id \in {"A", "B", "BBOX", "none"} :
           /\ attempts' = Append(attempts, Attempt(method, seed, status, id))
           /\ IF status = "passed"
              THEN accepted' = [accepted EXCEPT ![Role] = Mask(method, seed, id)]
              ELSE accepted' = accepted
  <2>1. PICK seed \in context.seeds, result \in Judged(CandidateIds(method)) :
          /\ attempts' = Append(attempts, Attempt(method, seed, result.status, result.id))
          /\ accepted' = IF result.status = "passed"
                         THEN [accepted EXCEPT ![Role] = Mask(method, seed, result.id)]
                         ELSE accepted
    BY DEF Try
  <2>2. CandidateIds(method) \subseteq {"A", "B", "BBOX", "none"}
    BY DEF CandidateIds
  <2>3. /\ result.status \in {"passed", "refused", "error"}
        /\ result.id \in {"A", "B", "BBOX", "none"}
    BY <2>2 DEF Judged
  <2> QED BY <2>1, <2>3
<1> DEFINE a == Attempt(method, seed, status, id)
           n == Len(attempts)
<1>3. a \in Trials /\ a.method = method /\ a.seed = seed /\ a.status = status /\ a.id = id
  BY DEF Attempt, Trials
<1>4. attempts \in Seq(Trials) /\ n \in Nat
  BY LenProperties DEF Shape
<1> HIDE DEF a
<1>5. /\ attempts' = Append(attempts, a) /\ attempts' \in Seq(Trials)
      /\ Len(attempts') = n + 1 /\ attempts'[n + 1] = a
      /\ \A i \in 1 .. n : attempts'[i] = attempts[i]
      /\ DOMAIN attempts' = 1 .. (n + 1) /\ DOMAIN attempts = 1 .. n
  BY <1>2, <1>3, <1>4 DEF a
<1>6. Trials' = Trials
  BY <1>1 DEF Trials
<1>7. todo # <<>> /\ Role \in Roles /\ Role \in Range(todo) /\ Role' = Role
  BY <1>1, RoleIsOne DEF Shape, Role
<1>8. reports[Role].status = "not_run"
  BY <1>1, <1>7 DEF Pending
<1>9. /\ DOMAIN accepted' = Roles
      /\ \A r \in Roles \ {Role} : accepted'[r] = accepted[r]
      /\ status = "passed" => accepted'[Role] = Mask(method, seed, id)
  BY <1>2, <1>7 DEF Shape
<1>10. Shape'
  BY <1>1, <1>5, <1>6, <1>9 DEF Shape
<1>11. TypeOK'
  <2>1. \A i \in DOMAIN attempts' : attempts'[i] \in Trials
    BY <1>5, ElementOfSeq
  <2> QED BY <1>1, <2>1 DEF TypeOK, Trials, Statuses
<1>12. Fresh' /\ Pending'
  BY <1>1 DEF Fresh, Pending, Early
<1>13. Selected'
  <2>1. (Last.status = "passed" => accepted[Role] = Mask(Last.method, Last.seed, Last.id))'
    BY <1>3, <1>5, <1>7, <1>9 DEF Last
  <2>2. \A r \in Roles : reports'[r].status = "passed" => r # Role
    BY <1>1, <1>8
  <2> QED BY <1>1, <1>9, <2>1, <2>2 DEF Selected
<1>14. RescueComesLast'
  <2>1. SeedsToTry' = SeedsToTry
    BY <1>1, <1>7 DEF SeedsToTry
  <2>2. \A i \in 1 .. n : attempts[i].status = "refused"
    <3>1. \A i \in 1 .. n : i < n => attempts[i].status = "refused"
      BY <1>1, <1>5 DEF RescueComesLast
    <3>2. n > 0 => attempts[n].status = "refused"
      <4>1. n > 0 => attempts # <<>> /\ attempts[n] \in Trials
        BY <1>4, ElementOfSeq, EmptySeq
      <4> QED BY <1>1, <4>1 DEF Decided, Last, Trials
    <3> QED BY <1>4, <3>1, <3>2
  <2>3. ASSUME method = "bbox", NEW f \in SeedsToTry
        PROVE  \E j \in 1 .. n : attempts[j].method = "text" /\ attempts[j].seed = f
    <3>1. f \in Tried("text")
      BY <2>3 DEF Left
    <3> QED BY <3>1, <1>5 DEF Tried, Range
  <2>4. ASSUME NEW i \in 1 .. n, attempts[i].method = "bbox", NEW f \in SeedsToTry
        PROVE  \E j \in 1 .. (i - 1) : attempts[j].method = "text" /\ attempts[j].seed = f
    BY <1>1, <1>5, <2>4 DEF RescueComesLast
  <2>5. ASSUME NEW i \in 1 .. (n + 1)
        PROVE  /\ i < n + 1 => attempts'[i].status = "refused"
               /\ attempts'[i].method = "bbox" =>
                     \A f \in SeedsToTry :
                        \E j \in 1 .. (i - 1) : /\ attempts'[j].method = "text"
                                               /\ attempts'[j].seed = f
    <3>1. CASE i = n + 1
      BY <3>1, <1>3, <1>4, <1>5, <2>3
    <3>2. CASE i \in 1 .. n
      <4>1. attempts'[i] = attempts[i] /\ \A j \in 1 .. (i - 1) : attempts'[j] = attempts[j]
        BY <3>2, <1>4, <1>5
      <4> QED BY <3>2, <4>1, <2>2, <2>4
    <3> QED BY <1>4, <3>1, <3>2
  <2> QED BY <1>5, <2>1, <2>5 DEF RescueComesLast
<1>15. AcceptedMaskIsTracked'
  <2>1. \A r \in Roles : tracks'[r].mask = NoMask
    BY <1>1 DEF Fresh, NoTrack
  <2> QED BY <2>1 DEF AcceptedMaskIsTracked
<1> QED BY <1>10, <1>11, <1>12, <1>13, <1>14, <1>15

(* A role that was planned is not settled before something was tried. *)
LEMMA SettledByAttempt ==
    ASSUME IInv, Settle, Planned
    PROVE  attempts # <<>> /\ Last \in Trials
<1> USE DEF IInv
<1>1. todo # <<>> /\ Role \in Roles
  BY RoleIsOne DEF Settle, Shape
<1>2. attempts # <<>>
  <2>1. SUFFICES ASSUME attempts = <<>> PROVE FALSE
    OBVIOUS
  <2>2. Left("text") = {}
    BY <2>1 DEF Settle, Decided, Exhausted
  <2>3. SeedsToTry = {}
    BY <2>1, <2>2 DEF Left, Tried, Range
  <2>4. plan[Role].seed \in SeedsToTry
    BY <1>1 DEF Planned, SeedsToTry, Shape
  <2> QED  BY <2>3, <2>4
<1> QED  BY <1>2, LenProperties, ElementOfSeq, EmptySeq DEF Shape, Last

LEMMA SettleHolds == IInv /\ Settle => IInv'
<1> SUFFICES ASSUME IInv, Settle PROVE IInv'
  OBVIOUS
<1> USE DEF IInv
<1> DEFINE selected == [status |-> "passed", id |-> Last.id, seed |-> Last.seed,
                        from |-> Mask(Last.method, Last.seed, "none")]
           report == IF ~Planned THEN Report("refused")
                     ELSE IF Last.status = "passed" THEN selected
                     ELSE Report(Last.status)
<1>1. /\ at = "resolve"
      /\ reports' = [reports EXCEPT ![Role] = report]
      /\ attempts' = <<>>
      /\ todo' = IF Len(todo) > 1 THEN Tail(todo) ELSE RolesOf(context.mode)
      /\ at' = IF Len(todo) > 1 THEN at ELSE "track"
      /\ UNCHANGED <<signal, config, context, plan, tracks, accepted>>
  BY DEF Settle
<1>2. /\ todo # <<>> /\ Role \in Roles /\ Role \in Range(todo)
      /\ Tail(todo) \in Todos /\ Role \notin Range(Tail(todo))
      /\ Range(todo) = {Role} \cup Range(Tail(todo))
      /\ Len(todo) > 1 <=> Tail(todo) # <<>>
  BY <1>1, RoleIsOne DEF Shape
<1>3. Planned => attempts # <<>> /\ Last \in Trials
  BY SettledByAttempt
<1>4. /\ report.status \in {"passed", "refused", "error"}
      /\ report.seed \in context.seeds \cup {None}
      /\ report.status = "passed" =>
            Planned /\ Last.status = "passed" /\ report = selected
  BY <1>3 DEF Report, Trials, Mask
<1> HIDE DEF report
<1>5. /\ DOMAIN reports' = Roles /\ reports'[Role] = report
      /\ \A r \in Roles \ {Role} : reports'[r] = reports[r]
  BY <1>1, <1>2 DEF Shape
<1>6. TypeOK'
  <2>1. \A r \in Roles : /\ reports'[r].status \in Statuses
                       /\ reports'[r].seed \in context.seeds \cup {None}
    BY <1>4, <1>5 DEF TypeOK, Statuses
  <2>2. at' \in {"resolve", "track"} /\ DOMAIN attempts' = {}
    BY <1>1
  <2> QED BY <1>1, <2>1, <2>2 DEF TypeOK
<1>7. Shape'
  BY <1>1, <1>2, <1>5, EmptySeq, RolesOfMode DEF Shape
<1>8. Fresh'
  BY <1>1 DEF Fresh, Early
<1>9. Pending'
  <2>1. CASE Len(todo) > 1
    BY <2>1, <1>1, <1>2, <1>4, <1>5, RolesOfMode, RoleIsOne DEF Pending, Shape
  <2>2. CASE ~(Len(todo) > 1)
    <3>1. Range(todo) = {Role}
      BY <2>2, <1>2 DEF Range
    <3>2. todo' = RolesOf(context.mode) /\ at' = "track"
      BY <2>2, <1>1
    <3>3. \A r \in Range(todo') : reports'[r].status # "not_run"
      BY <3>1, <3>2, <1>1, <1>4, <1>5, RolesOfMode DEF Pending
    <3> QED BY <3>2, <3>3 DEF Pending
  <2> QED BY <2>1, <2>2
<1>10. Selected'
  <2>1. ~Decided'
    BY <1>1 DEF Decided
  <2>2. report.status = "passed" =>
           /\ accepted[Role] = Mask(report.from.method, report.from.seed, report.id)
           /\ report.seed = accepted[Role].seed
    <3>1. SUFFICES ASSUME report.status = "passed"
                   PROVE  /\ accepted[Role] = Mask(report.from.method, report.from.seed, report.id)
                          /\ report.seed = accepted[Role].seed
      OBVIOUS
    <3>2. attempts # <<>> /\ Last.status = "passed" /\ report = selected
      BY <3>1, <1>3, <1>4
    <3>3. accepted[Role] = Mask(Last.method, Last.seed, Last.id)
      BY <1>1, <3>2 DEF Selected, Decided
    <3> QED BY <3>2, <3>3 DEF Mask
  <2> QED BY <1>1, <1>2, <1>5, <2>1, <2>2 DEF Selected
<1>11. RescueComesLast'
  BY <1>1 DEF RescueComesLast
<1>12. AcceptedMaskIsTracked'
  <2>1. \A r \in Roles : tracks'[r].mask = NoMask
    BY <1>1 DEF Fresh, NoTrack
  <2> QED BY <2>1 DEF AcceptedMaskIsTracked
<1> QED BY <1>6, <1>7, <1>8, <1>9, <1>10, <1>11, <1>12

LEMMA HealthFailsHolds == IInv /\ HealthFails => IInv'
<1> SUFFICES ASSUME IInv, HealthFails PROVE IInv'
  OBVIOUS
<1> USE DEF IInv
<1>1. /\ at = "resolve" /\ attempts = <<>> /\ at' = "track"
      /\ reports' = [r \in Roles |-> Report(IF r \in Range(todo) THEN "error" ELSE "not_run")]
      /\ UNCHANGED <<signal, config, context, plan, todo, attempts, tracks, accepted>>
  BY DEF HealthFails
<1>2. ASSUME NEW r \in Roles
      PROVE  /\ reports'[r].status # "passed" /\ reports'[r].status \in Statuses
             /\ r \in Range(todo) => reports'[r].status = "error"
             /\ reports'[r].seed = None
  <2>1. reports'[r] = Report(IF r \in Range(todo) THEN "error" ELSE "not_run")
    BY <1>1
  <2> QED BY <2>1 DEF Report, Statuses
<1>3. todo # <<>> /\ Range(todo) \subseteq Roles
  BY <1>1, RoleIsOne DEF Shape
<1>4. TypeOK'
  <2>1. \A r \in Roles : /\ reports'[r].status \in Statuses
                       /\ reports'[r].seed \in context'.seeds \cup {None}
    BY <1>2
  <2>2. at = "resolve" /\ at' = "track"
    BY <1>1
  <2>3. UNCHANGED <<signal, config, context, plan, todo, attempts, tracks, accepted>>
    BY <1>1
  <2> QED BY <2>1, <2>2, <2>3 DEF TypeOK
<1>5. Shape'
  BY <1>1, <1>3, EmptySeq DEF Shape
<1>6. Fresh'
  BY <1>1 DEF Fresh, Early
<1>7. Pending'
  BY <1>1, <1>2, <1>3 DEF Pending
<1>8. Selected'
  <2>1. ~Decided'
    BY <1>1 DEF Decided
  <2>2. \A r \in Roles : reports'[r].status # "passed"
    BY <1>2
  <2> QED BY <2>1, <2>2 DEF Selected
<1>9. RescueComesLast'
  BY <1>1 DEF RescueComesLast
<1>10. AcceptedMaskIsTracked'
  <2>1. \A r \in Roles : tracks'[r].mask = NoMask
    BY <1>1 DEF Fresh, NoTrack
  <2> QED BY <2>1 DEF AcceptedMaskIsTracked
<1> QED BY <1>4, <1>5, <1>6, <1>7, <1>8, <1>9, <1>10

(* A track is what the stage says of a role that it did not refuse. *)
LEMMA RecordHolds ==
    ASSUME IInv, at = "track", NEW track, Record(Role, track),
           track.status \in {"ok", "quarantined", "failed"},
           InputsAgree(Role) => track.frame \in context.seeds \cup {None},
           track.mask # NoMask =>
              /\ ~Refused(Role) /\ track.mask = SeedMask(Role) /\ track.frame = SeedFrame(Role)
    PROVE  IInv'
<1> USE DEF IInv
<1> DEFINE kept == IF InputsAgree(Role) THEN track ELSE NoTrack
<1>1. /\ tracks' = [tracks EXCEPT ![Role] = kept]
      /\ todo' = Tail(todo)
      /\ at' \in {"raised", "track", "saved"}
      /\ at' = "track" => Len(todo) > 1
      /\ UNCHANGED <<signal, config, context, plan, attempts, reports, accepted>>
  BY DEF Record
<1>2. /\ todo # <<>> /\ Role \in Roles /\ Role \in Range(todo)
      /\ Tail(todo) \in Todos
      /\ Range(todo) = {Role} \cup Range(Tail(todo))
      /\ Len(todo) > 1 <=> Tail(todo) # <<>>
  BY RoleIsOne DEF Shape
<1>3. attempts = <<>>
  BY DEF Shape
<1>4. /\ kept.status \in {"none", "ok", "quarantined", "failed"}
      /\ kept.frame \in context.seeds \cup {None}
      /\ kept.mask # NoMask =>
            ~Refused(Role) /\ kept.mask = SeedMask(Role) /\ kept.frame = SeedFrame(Role)
  BY DEF NoTrack
<1> HIDE DEF kept
<1>5. /\ DOMAIN tracks' = Roles /\ tracks'[Role] = kept
      /\ \A r \in Roles \ {Role} : tracks'[r] = tracks[r]
  BY <1>1, <1>2 DEF Shape
<1>6. TypeOK'
  <2>1. \A r \in Roles : /\ tracks'[r].status \in {"none", "ok", "quarantined", "failed"}
                       /\ tracks'[r].frame \in context.seeds \cup {None}
    BY <1>4, <1>5 DEF TypeOK
  <2> QED BY <1>1, <2>1 DEF TypeOK
<1>7. Shape'
  BY <1>1, <1>2, <1>3, <1>5, EmptySeq DEF Shape
<1>8. Fresh' /\ RescueComesLast'
  BY <1>1 DEF Fresh, Early, RescueComesLast
<1>9. Pending'
  BY <1>1, <1>2 DEF Pending
<1>10. Selected'
  BY <1>1, <1>3 DEF Selected, Decided
<1>11. AcceptedMaskIsTracked'
  <2>1. ASSUME config.qc, kept.mask # NoMask
        PROVE  kept.mask = accepted[Role] /\ kept.frame = accepted[Role].seed
    <3>1. reports[Role].status = "passed"
      BY <1>2, <1>4, <2>1 DEF Pending, Refused
    <3> QED BY <3>1, <1>2, <1>4, <2>1 DEF Selected, SeedMask, SeedFrame
  <2>2. ASSUME config.qc, NEW r \in Roles, tracks'[r].mask # NoMask
        PROVE  tracks'[r].mask = accepted[r] /\ tracks'[r].frame = accepted[r].seed
    <3>1. CASE r = Role
      BY <3>1, <1>5, <2>1, <2>2
    <3>2. CASE r # Role
      BY <3>2, <1>5, <2>2 DEF AcceptedMaskIsTracked
    <3> QED BY <3>1, <3>2
  <2> QED BY <1>1, <2>2 DEF AcceptedMaskIsTracked
<1> QED BY <1>6, <1>7, <1>8, <1>9, <1>10, <1>11

LEMMA NextHolds == IInv /\ [Next]_vars => IInv'
<1> SUFFICES ASSUME IInv, [Next]_vars PROVE IInv'
  OBVIOUS
<1>1. ASSUME at = "detect", NEW c, Build(c) PROVE IInv'
  <2>1. at' \in {"plan", "raised"} /\ (at' # "raised" => context'.seeds \subseteq Frames)
    BY <1>1 DEF Build, ContextHolds
  <2> QED BY <1>1, <2>1, DetectStepHolds DEF Build, Rest
<1>2. CASE DetectLoop
  BY <1>1, <1>2 DEF DetectLoop
<1>3. CASE DetectHold
  BY <1>1, <1>3 DEF DetectHold
<1>4. CASE ReadWindow
  BY <1>1, <1>4 DEF ReadWindow
<1>5. CASE DetectFails
  <2>1. at = "detect" /\ at' = "failed" /\ UNCHANGED Rest /\ context' = context
    BY <1>5 DEF DetectFails, Rest
  <2>2. context.seeds \subseteq Frames
    BY <2>1 DEF IInv, TypeOK
  <2> QED BY <2>1, <2>2, DetectStepHolds
<1>6. CASE Plan
  BY <1>6, PlanHolds
<1>7. CASE PlanFails
  BY <1>7, PlanFailsHolds
<1>8. CASE HealthFails
  BY <1>8, HealthFailsHolds
<1>9. CASE TryText
  BY <1>9, TryHolds DEF TryText
<1>10. CASE TryBox
  BY <1>10, TryHolds DEF TryBox
<1>11. CASE Settle
  BY <1>11, SettleHolds
<1>12. CASE Skip
  <2> DEFINE t == Untracked(plan[Role].seed)
  <2>1. at = "track" /\ Record(Role, t)
    BY <1>12 DEF Skip
  <2>2. t.status = "failed" /\ t.frame = plan[Role].seed /\ t.mask = NoMask
    BY DEF Untracked
  <2>3. plan[Role].seed \in context.seeds \cup {None}
    BY <2>1, RoleIsOne DEF IInv, TypeOK, Shape
  <2> HIDE DEF t
  <2> QED BY <2>1, <2>2, <2>3, RecordHolds
<1>13. CASE SeedIsEmpty
  <2> DEFINE t == Untracked(SeedFrame(Role))
  <2>1. at = "track" /\ ~Refused(Role) /\ Record(Role, t)
    BY <1>13 DEF SeedIsEmpty
  <2>2. t.status = "failed" /\ t.frame = SeedFrame(Role) /\ t.mask = NoMask
    BY DEF Untracked
  <2>3. InputsAgree(Role) => SeedFrame(Role) \in context.seeds
    BY <2>1 DEF InputsAgree
  <2> QED BY <2>1, <2>2, <2>3, RecordHolds
<1>14. CASE Track
  <2>1. PICK seen \in Sightings(Role) : \E v \in Verdicts(seen) :
          Record(Role, [status |-> v[1], mask |-> SeedMask(Role),
                        frame |-> SeedFrame(Role), shown |-> v[2]])
    BY <1>14 DEF Track
  <2>2. PICK v \in Verdicts(seen) :
          Record(Role, [status |-> v[1], mask |-> SeedMask(Role),
                        frame |-> SeedFrame(Role), shown |-> v[2]])
    BY <2>1
  <2> DEFINE t == [status |-> v[1], mask |-> SeedMask(Role),
                   frame |-> SeedFrame(Role), shown |-> v[2]]
  <2>3. at = "track" /\ ~Refused(Role)
    BY <1>14 DEF Track
  <2>4. t.status \in {"ok", "quarantined", "failed"}
    BY <2>2 DEF Verdicts
  <2>5. t.frame = SeedFrame(Role) /\ t.mask = SeedMask(Role)
    OBVIOUS
  <2>6. InputsAgree(Role) => SeedFrame(Role) \in context.seeds
    BY <2>3 DEF InputsAgree
  <2> HIDE DEF t
  <2>7. Record(Role, t)
    BY <2>2 DEF t
  <2> QED BY <2>3, <2>4, <2>5, <2>6, <2>7, RecordHolds
<1>15. CASE UNCHANGED vars
  <2>1. TypeOK' /\ Shape'
    BY <1>15 DEF IInv, vars, TypeOK, Shape, Trials
  <2>2. Fresh' /\ Pending' /\ Selected'
    BY <1>15 DEF IInv, vars, Fresh, Pending, Selected, Decided, Last, Role
  <2>3. RescueComesLast' /\ AcceptedMaskIsTracked'
    BY <1>15 DEF IInv, vars, RescueComesLast, AcceptedMaskIsTracked, SeedsToTry, Role
  <2> QED BY <2>1, <2>2, <2>3 DEF IInv
<1> QED BY <1>2, <1>3, <1>4, <1>5, <1>6, <1>7, <1>8, <1>9, <1>10, <1>11, <1>12, <1>13, <1>14,
           <1>15 DEF Next

(* All invariants hold in every state that the stages can reach. *)
THEOREM Invariance == Spec => []IInv
BY InitHolds, NextHolds, PTL DEF Spec

(* The types of the variables, for any timeline parameters. *)
THEOREM TypeCorrectness == Spec => []TypeOK
<1>1. IInv => TypeOK
  BY DEF IInv
<1> QED BY Invariance, <1>1, PTL

(* A box is drawn only after every text seed was tried and refused, however *)
(* many candidates there are (ObjectMaskResolver.resolve).                  *)
THEOREM BoxIsTheLastResort == Spec => []RescueComesLast
<1>1. IInv => RescueComesLast
  BY DEF IInv
<1> QED BY Invariance, <1>1, PTL

(* What is tracked under mask QC is what QC accepted, at the frame it was made *)
(* on, through all fallbacks (run_mask_qc, _run_role).                         *)
THEOREM TrackedMasksWereAccepted == Spec => []AcceptedMaskIsTracked
<1>1. IInv => AcceptedMaskIsTracked
  BY DEF IInv
<1> QED BY Invariance, <1>1, PTL

(* Only a track that is shown where temporal QC looked, or one that failed   *)
(* there and was seen later, puts pixels into the masks.                      *)
LEMMA PixelsHold ==
    ASSUME IInv, KnownWrongPixelsStayOut, [Next]_vars
    PROVE  KnownWrongPixelsStayOut'
<1> USE DEF KnownWrongPixelsStayOut
<1>1. CASE UNCHANGED tracks
  BY <1>1
<1>2. ASSUME NEW r \in Roles, NEW track, Record(r, track),
             track.shown # {} =>
                 \/ track.status = "ok" /\ "checked" \in track.shown
                 \/ track.status = "failed" /\ track.shown = {"held"}
      PROVE  KnownWrongPixelsStayOut'
  <2>1. /\ DOMAIN tracks = Roles
        /\ tracks' = [tracks EXCEPT ![r] = IF InputsAgree(r) THEN track ELSE NoTrack]
    BY <1>2 DEF Record, IInv, Shape
  <2>2. NoTrack.shown = {}
    BY DEF NoTrack
  <2>3. \A q \in Roles : tracks'[q] = IF q = r THEN IF InputsAgree(r) THEN track ELSE NoTrack
                                      ELSE tracks[q]
    BY <2>1
  <2> QED BY <1>2, <2>2, <2>3
<1>3. at = "track" => Role \in Roles
  BY RoleIsOne DEF IInv, Shape
<1>4. \A frame : Untracked(frame).shown = {}
  BY DEF Untracked
<1>5. CASE Skip
  BY <1>2, <1>3, <1>4, <1>5 DEF Skip
<1>6. CASE SeedIsEmpty
  BY <1>2, <1>3, <1>4, <1>6 DEF SeedIsEmpty
<1>7. CASE Track
  <2>0. PICK seen \in Sightings(Role) : \E v \in Verdicts(seen) :
            Record(Role, [status |-> v[1], mask |-> SeedMask(Role),
                          frame |-> SeedFrame(Role), shown |-> v[2]])
    BY <1>7 DEF Track
  <2>1. PICK v \in Verdicts(seen) :
            Record(Role, [status |-> v[1], mask |-> SeedMask(Role),
                          frame |-> SeedFrame(Role), shown |-> v[2]])
    BY <2>0
  <2>2. seen \subseteq {"checked", "held"}
    BY DEF Sightings
  <2>3. \/ v[2] = {}
        \/ v[1] = "ok" /\ "checked" \in v[2]
        \/ v[1] = "failed" /\ v[2] = {"held"}
    <3>1. v \in {<<"failed", seen>>, <<"ok", seen>>, <<"quarantined", {}>>}
          /\ (v = <<"failed", seen>> => "checked" \notin seen)
          /\ (v = <<"ok", seen>> => "checked" \in seen)
      BY DEF Verdicts
    <3>2. CASE v = <<"failed", seen>>
      <4>1. v[1] = "failed" /\ v[2] = seen
        BY <3>2
      <4>2. seen # {} => seen = {"held"}
        BY <2>2, <3>1, <3>2
      <4> QED BY <4>1, <4>2
    <3>3. CASE v = <<"ok", seen>>
      <4>1. v[1] = "ok" /\ v[2] = seen
        BY <3>3
      <4>2. "checked" \in seen
        BY <3>1, <3>3
      <4> QED BY <4>1, <4>2
    <3>4. CASE v = <<"quarantined", {}>>
      BY <3>4
    <3> QED BY <3>1, <3>2, <3>3, <3>4
  <2>4. Role \in Roles
    BY <1>3, <1>7 DEF Track
  <2> QED BY <1>2, <2>1, <2>3, <2>4
<1>8. CASE \/ UNCHANGED vars \/ DetectLoop \/ DetectHold \/ ReadWindow \/ DetectFails
           \/ Plan \/ PlanFails \/ HealthFails \/ TryText \/ TryBox \/ Settle
  BY <1>1, <1>8 DEF vars, DetectLoop, DetectHold, ReadWindow, DetectFails, Build, Plan, PlanFails,
     HealthFails, TryText, TryBox, Try, Settle
<1> QED BY <1>5, <1>6, <1>7, <1>8 DEF Next

(* Pixels of an object that was lost or jumped stay out of the masks, for any *)
(* windows, seeds and candidates; the exception is the one the code makes.    *)
THEOREM WrongPixelsStayOut == Spec => []KnownWrongPixelsStayOut
<1>1. Init => KnownWrongPixelsStayOut
  BY DEF Init, KnownWrongPixelsStayOut, NoTrack
<1> QED BY <1>1, InitHolds, NextHolds, PixelsHold, PTL DEF Spec

---------------------------------------------------------------------------
(* The gripper *)

Chosen == {"choose", "propagate", "gripper"}
Late == {"text_box", "box_only"} \cup Chosen

(* A track that is ok shows the object in the window that QC looked at. *)
OkIsShown == /\ DOMAIN tracks = Roles
             /\ \A r \in Roles : tracks[r].status = "ok" => "checked" \in tracks[r].shown

(* The stage is entered with good tracks and does not change them. *)
EnteredWell == at \in Late => \A r \in Roles : tracks[r].status = "ok"

Failed(bank) == \A f \in gripper.prompted :
                    \E c \in gripper.candidates : c.bank = bank /\ c.frame = f /\ c.rank # Good

(* A bank that was needed was needed because the one before it failed. *)
BanksInOrder ==
    /\ at = "box_only" => Failed("text_box")
    /\ at \in {"box_only"} \cup Chosen =>
          \A c \in gripper.candidates : c.rank \in {Empty, Poor, Good}
    /\ at \in Chosen =>
          /\ (\E c \in gripper.candidates : c.bank = "box_only") => Failed("text_box")
          /\ Passing = {} => Failed("text_box") /\ Failed("box_only")

(* The seed is one of the candidates, and a bad one only for want of a good one. *)
SeedIsFair ==
    /\ at \in {"propagate", "gripper"} =>
          /\ gripper.seed \in gripper.candidates
          /\ gripper.seed.rank # Good => Passing = {}
    /\ at = "gripper" => gripper.seed.rank # Empty

GInv == OkIsShown /\ EnteredWell /\ BanksInOrder /\ SeedIsFair

(* The steps that make the object masks end at the saved ones at the latest. *)
LEMMA ObjectSteps == GInv /\ Next /\ UNCHANGED gripper => GInv'
<1> SUFFICES ASSUME GInv, Next, UNCHANGED gripper PROVE GInv'
  OBVIOUS
<1> USE DEF GInv
<1>1. CASE UNCHANGED tracks /\ at' \notin Late
  BY <1>1 DEF OkIsShown, EnteredWell, BanksInOrder, SeedIsFair, Late, Chosen
<1>2. ASSUME NEW r, NEW track, Record(r, track),
             track.status = "ok" => "checked" \in track.shown
      PROVE  OkIsShown'
  BY <1>2 DEF Record, OkIsShown, NoTrack
<1>3. ASSUME NEW r, NEW track, Record(r, track), at = "track"
      PROVE  at' \notin Late
  BY <1>3 DEF Record, Late, Chosen
<1>4. ASSUME at' \notin Late PROVE EnteredWell' /\ BanksInOrder' /\ SeedIsFair'
  BY <1>4 DEF EnteredWell, BanksInOrder, SeedIsFair, Late, Chosen
<1>5. ASSUME NEW frame PROVE Untracked(frame).status # "ok"
  BY DEF Untracked
<1>6. CASE Skip
  BY <1>2, <1>3, <1>4, <1>5, <1>6 DEF Skip
<1>7. CASE SeedIsEmpty
  BY <1>2, <1>3, <1>4, <1>5, <1>7 DEF SeedIsEmpty
<1>8. CASE Track
  <2>1. PICK seen \in Sightings(Role) : \E v \in Verdicts(seen) :
             Record(Role, [status |-> v[1], mask |-> SeedMask(Role),
                           frame |-> SeedFrame(Role), shown |-> v[2]])
    BY <1>8 DEF Track
  <2>2. PICK v \in Verdicts(seen) :
             Record(Role, [status |-> v[1], mask |-> SeedMask(Role),
                           frame |-> SeedFrame(Role), shown |-> v[2]])
    BY <2>1
  <2>3. v[1] = "ok" => "checked" \in v[2]
    BY <2>2 DEF Verdicts
  <2> DEFINE track == [status |-> v[1], mask |-> SeedMask(Role),
                       frame |-> SeedFrame(Role), shown |-> v[2]]
  <2>4. Record(Role, track) /\ (track.status = "ok" => "checked" \in track.shown)
    BY <2>2, <2>3
  <2>5. at = "track"
    BY <1>8 DEF Track
  <2> HIDE DEF track
  <2> QED BY <2>4, <2>5, <1>2, <1>3, <1>4
<1>9. CASE DetectLoop \/ DetectHold \/ ReadWindow
  BY <1>1, <1>9 DEF DetectLoop, DetectHold, ReadWindow, Build, Late, Chosen
<1>10. CASE DetectFails \/ Plan \/ PlanFails
  BY <1>1, <1>10 DEF DetectFails, Plan, PlanFails, Late, Chosen
<1>11. CASE HealthFails \/ Settle
  BY <1>1, <1>11 DEF HealthFails, Settle, Late, Chosen
<1>12. CASE TryText \/ TryBox
  BY <1>1, <1>12 DEF TryText, TryBox, Try, Late, Chosen
<1> QED BY <1>6, <1>7, <1>8, <1>9, <1>10, <1>11, <1>12 DEF Next

LEMMA LoadHolds == GInv /\ LoadTracks => GInv'
<1> SUFFICES ASSUME GInv, LoadTracks PROVE GInv'
  OBVIOUS
<1> USE DEF GInv
<1>1. DOMAIN tracks' = Roles
  BY DEF LoadTracks, Forget
<1>2. \A r \in Roles : tracks'[r].status = tracks[r].status /\ tracks'[r].shown = tracks[r].shown
  BY DEF LoadTracks, Forget
<1>3. at' = "text_box" => \A r \in Roles : tracks[r].status = "ok"
  BY DEF LoadTracks, Usable
<1>4. at' \in {"text_box", "no_gripper"}
  BY DEF LoadTracks
<1> QED
  BY <1>1, <1>2, <1>3, <1>4 DEF OkIsShown, EnteredWell, BanksInOrder, SeedIsFair, Late, Chosen

LEMMA BanksHold == GInv /\ (BuildTextBank \/ BuildBoxBank) => GInv'
<1> USE DEF GInv
<1>1. ASSUME GInv, BuildTextBank PROVE GInv'
  <2>1. PICK frames \in Prompted : \E rank \in [frames -> {Empty, Poor, Good}] :
          /\ gripper' = Gripper(frames, Bank("text_box", rank), NoCandidate)
          /\ at' = IF NoTextPassed(rank) THEN "box_only" ELSE "choose"
    BY <1>1 DEF BuildTextBank
  <2>2. PICK rank \in [frames -> {Empty, Poor, Good}] :
          /\ gripper' = Gripper(frames, Bank("text_box", rank), NoCandidate)
          /\ at' = IF NoTextPassed(rank) THEN "box_only" ELSE "choose"
    BY <2>1
  <2>3. /\ gripper'.prompted = frames
        /\ gripper'.candidates = {Candidate("text_box", f, rank[f]) : f \in frames}
    BY <2>2 DEF Gripper, Bank
  <2>4. \A c \in gripper'.candidates : c.bank = "text_box" /\ c.rank \in {Empty, Poor, Good}
    BY <2>2, <2>3 DEF Candidate
  <2>5. NoTextPassed(rank) => Failed("text_box")'
    <3> SUFFICES ASSUME NoTextPassed(rank), NEW f \in frames
                 PROVE  \E c \in gripper'.candidates :
                            c.bank = "text_box" /\ c.frame = f /\ c.rank # Good
      BY <2>3 DEF Failed
    <3>1. Candidate("text_box", f, rank[f]) \in gripper'.candidates
      BY <2>3
    <3>2. rank[f] # Good
      BY <2>2 DEF NoTextPassed
    <3> QED BY <3>1, <3>2 DEF Candidate
  <2>6. ~NoTextPassed(rank) => Passing' # {}
    <3> SUFFICES ASSUME NEW f \in frames, rank[f] = Good PROVE Passing' # {}
      BY <2>2 DEF NoTextPassed
    <3>1. Candidate("text_box", f, rank[f]) \in gripper'.candidates
      BY <2>3
    <3> QED BY <3>1 DEF Passing, Candidate
  <2>7. UNCHANGED tracks /\ at \in Late /\ at' \in {"box_only", "choose"}
    BY <1>1, <2>2 DEF BuildTextBank, Stays, Late
  <2>8. BanksInOrder'
    BY <2>2, <2>4, <2>5, <2>6 DEF BanksInOrder, Chosen
  <2> QED BY <1>1, <2>7, <2>8 DEF OkIsShown, EnteredWell, SeedIsFair
<1>2. ASSUME GInv, BuildBoxBank PROVE GInv'
  <2>1. PICK rank \in [gripper.prompted -> {Empty, Poor, Good}] :
          gripper' = Gripper(gripper.prompted, gripper.candidates \cup Bank("box_only", rank),
                             NoCandidate)
    BY <1>2 DEF BuildBoxBank
  <2> DEFINE boxes == {Candidate("box_only", f, rank[f]) : f \in gripper.prompted}
  <2>2. /\ gripper'.prompted = gripper.prompted
        /\ gripper'.candidates = gripper.candidates \cup boxes
    BY <2>1 DEF Gripper, Bank
  <2>3. Failed("text_box")'
    <3>1. Failed("text_box")
      BY <1>2 DEF BuildBoxBank, BanksInOrder
    <3>2. SUFFICES ASSUME NEW f \in gripper.prompted
                   PROVE  \E c \in gripper'.candidates :
                              c.bank = "text_box" /\ c.frame = f /\ c.rank # Good
      BY <2>2 DEF Failed
    <3>3. PICK c \in gripper.candidates :
              c.bank = "text_box" /\ c.frame = f /\ c.rank # Good
      BY <3>1 DEF Failed
    <3>4. c \in gripper'.candidates
      BY <2>2
    <3> QED BY <3>3, <3>4
  <2>4. ASSUME Passing' = {} PROVE Failed("box_only")'
    <3> SUFFICES ASSUME NEW f \in gripper.prompted
                 PROVE  \E c \in gripper'.candidates :
                            c.bank = "box_only" /\ c.frame = f /\ c.rank # Good
      BY <2>2 DEF Failed
    <3>1. Candidate("box_only", f, rank[f]) \in gripper'.candidates
      BY <2>2
    <3> QED BY <2>4, <3>1 DEF Passing, Candidate
  <2>5. \A c \in gripper'.candidates : c.rank \in {Empty, Poor, Good}
    <3>1. ASSUME NEW c \in boxes PROVE c.rank \in {Empty, Poor, Good}
      <4>1. PICK f \in gripper.prompted : c = Candidate("box_only", f, rank[f])
        OBVIOUS
      <4>2. rank[f] \in {Empty, Poor, Good}
        OBVIOUS
      <4> QED BY <4>1, <4>2 DEF Candidate
    <3>2. \A c \in gripper.candidates : c.rank \in {Empty, Poor, Good}
      BY <1>2 DEF BuildBoxBank, BanksInOrder
    <3> QED BY <2>2, <3>1, <3>2
  <2>6. UNCHANGED tracks /\ at \in Late /\ at' = "choose"
    BY <1>2 DEF BuildBoxBank, Stays, Late
  <2>7. BanksInOrder'
    BY <2>3, <2>4, <2>5, <2>6 DEF BanksInOrder
  <2> QED BY <1>2, <2>6, <2>7 DEF OkIsShown, EnteredWell, SeedIsFair
<1> QED BY <1>1, <1>2

(* Whoever chooses, a seed that failed its checks means that all did. *)
LEMMA ChoiceHolds == GInv /\ (QwenChooses \/ FallbackChooses) => GInv'
<1> SUFFICES ASSUME GInv, QwenChooses \/ FallbackChooses PROVE GInv'
  OBVIOUS
<1> USE DEF GInv
<1>1. at = "choose"
  BY DEF QwenChooses, FallbackChooses
<1>2. PICK c \in gripper.candidates : Choose(c) /\ (c.rank # Good => Passing = {})
  <2>1. CASE QwenChooses
    BY <2>1 DEF QwenChooses, Passing
  <2>2. CASE FallbackChooses
    <3>1. PICK c \in gripper.candidates :
              Choose(c) /\ \A d \in gripper.candidates : d.rank <= c.rank
      BY <2>2 DEF FallbackChooses, LeastBad
    <3>2. c.rank \in {Empty, Poor, Good}
      BY <1>1 DEF BanksInOrder, Chosen
    <3>3. ASSUME NEW d \in Passing PROVE c.rank = Good
      <4>1. d.rank = Good /\ d.rank <= c.rank
        BY <3>1, <3>3 DEF Passing
      <4> QED BY <3>2, <4>1 DEF Empty, Poor, Good
    <3> QED BY <3>1, <3>3
  <2> QED BY <2>1, <2>2
<1>3. /\ gripper'.prompted = gripper.prompted
      /\ gripper'.candidates = gripper.candidates
      /\ gripper'.seed = c
      /\ at' = "propagate" /\ UNCHANGED tracks
  BY <1>2 DEF Choose, Gripper, Stays
<1>4. /\ Passing' = Passing
      /\ \A bank : Failed(bank)' <=> Failed(bank)
  BY <1>3 DEF Passing, Failed
<1>5. BanksInOrder'
  BY <1>1, <1>3, <1>4 DEF BanksInOrder, Chosen
<1>6. SeedIsFair'
  BY <1>2, <1>3, <1>4 DEF SeedIsFair
<1>7. OkIsShown' /\ EnteredWell'
  BY <1>1, <1>3 DEF OkIsShown, EnteredWell, Late, Chosen
<1> QED BY <1>5, <1>6, <1>7

LEMMA EndHolds == GInv /\ (GripperFails \/ NothingToChoose \/ Propagate) => GInv'
<1> SUFFICES ASSUME GInv, GripperFails \/ NothingToChoose \/ Propagate PROVE GInv'
  OBVIOUS
<1> USE DEF GInv
<1>1. UNCHANGED <<tracks, gripper>>
  BY DEF GripperFails, NothingToChoose, Propagate, Stays
<1>2. CASE at' \notin Late
  BY <1>1, <1>2 DEF OkIsShown, EnteredWell, BanksInOrder, SeedIsFair, Late, Chosen
<1>3. CASE at' \in Late
  <2>1. at = "propagate" /\ at' = "gripper" /\ gripper.seed.rank # Empty
    BY <1>3 DEF GripperFails, NothingToChoose, Propagate, Late, Chosen
  <2>2. /\ Passing' = Passing
        /\ \A bank : Failed(bank)' <=> Failed(bank)
    BY <1>1 DEF Passing, Failed
  <2>3. BanksInOrder'
    BY <1>1, <2>1, <2>2 DEF BanksInOrder, Chosen
  <2>4. SeedIsFair'
    BY <1>1, <2>1, <2>2 DEF SeedIsFair
  <2> QED BY <1>1, <2>1, <2>3, <2>4 DEF OkIsShown, EnteredWell, Late, Chosen
<1> QED BY <1>2, <1>3

LEMMA Inductive == GInv /\ [GripperNext]_gripperVars => GInv'
<1> SUFFICES ASSUME GInv, [GripperNext]_gripperVars PROVE GInv'
  OBVIOUS
<1>1. CASE Next /\ UNCHANGED gripper
  BY <1>1, ObjectSteps
<1>2. CASE LoadTracks
  BY <1>2, LoadHolds
<1>3. CASE BuildTextBank \/ BuildBoxBank
  BY <1>3, BanksHold
<1>4. CASE QwenChooses \/ FallbackChooses
  BY <1>4, ChoiceHolds
<1>5. CASE GripperFails \/ NothingToChoose \/ Propagate
  BY <1>5, EndHolds
<1>6. CASE UNCHANGED gripperVars
  <2>1. UNCHANGED <<at, tracks, gripper>>
    BY <1>6 DEF gripperVars, vars
  <2> QED
    BY <2>1 DEF GInv, OkIsShown, EnteredWell, BanksInOrder, SeedIsFair, Failed, Passing
<1> QED BY <1>1, <1>2, <1>3, <1>4, <1>5, <1>6 DEF GripperNext

(* A gripper is published only beside accepted tracks and from the least bad *)
(* seed there was, whatever the frames, the prompts and the ranks.           *)
THEOREM GripperSeedIsFair == GripperSpec => []GripperSeedIsLeastBad
<1>1. GripperInit => GInv
  BY DEF GripperInit, Init, GInv, OkIsShown, EnteredWell, BanksInOrder, SeedIsFair, Late, Chosen,
         NoTrack
<1>2. GInv => GripperSeedIsLeastBad
  <2> SUFFICES ASSUME GInv, at = "gripper"
               PROVE  GripperSeedIsLeastBad
    BY DEF GripperSeedIsLeastBad
  <2>1. \A r \in Roles : tracks[r].status = "ok" /\ "checked" \in tracks[r].shown
    BY DEF GInv, OkIsShown, EnteredWell, Late, Chosen
  <2>2. /\ gripper.seed \in gripper.candidates
        /\ gripper.seed.rank # Good => Passing = {}
        /\ gripper.seed.rank # Empty
    BY DEF GInv, SeedIsFair
  <2>3. /\ gripper.seed.bank = "box_only" => Failed("text_box")
        /\ Passing = {} => Failed("text_box") /\ Failed("box_only")
    BY <2>2 DEF GInv, BanksInOrder, Chosen
  <2>4. gripper.seed.rank = Poor => Failed("text_box") /\ Failed("box_only")
    BY <2>2, <2>3 DEF Poor, Good
  <2> QED BY <2>1, <2>2, <2>3, <2>4 DEF GripperSeedIsLeastBad, Failed
<1> QED BY <1>1, <1>2, Inductive, PTL DEF GripperSpec

---------------------------------------------------------------------------
(* The whole episode *)

GripperStages == Late \cup {"no_gripper"}

(* A frame is prompted only where the region of the gripper is known. *)
PromptsFit ==
    /\ at \in Late => context.mode = "pick_place"
    /\ at \in {"box_only"} \cup Chosen =>
          /\ gripper.prompted \subseteq ActiveFrames
          /\ \A c \in gripper.candidates : c.frame \in ActiveFrames

(* Every stage hands over what the next one demands. *)
Agreed ==
    /\ at # "raised"
    /\ at = "detect" => signal \in Signals
    /\ Fits(context)
    /\ \A r \in Roles : reports[r].status = "passed" => reports[r].seed \in context.seeds

EInv == /\ at \notin GripperStages => IInv
        /\ at \in GripperStages => ~config.qc
        /\ GInv /\ KnownWrongPixelsStayOut
        /\ Agreed /\ PromptsFit

(* The windows fit together, and the seed is one of the candidates even when *)
(* a fallback found it: tracking accepts what it is given.                    *)
LEMMA InputsFit ==
    ASSUME IInv, Agreed, NEW r \in Roles
    PROVE  InputsAgree(r)
<1> DEFINE c == context
<1>1. Fits(c) /\ c = context
  BY DEF Agreed
<1> HIDE DEF c
<1>2. /\ c.target \in Spans /\ c.receiver \in Spans /\ Inside(c.check, c.target)
      /\ \A f \in c.seeds : f \in Frames /\ f <= c.target.end /\ f <= c.receiver.end
  BY <1>1 DEF Fits, ContextHolds
<1>3. Inside(c.receiver, c.receiver)
  BY <1>2 DEF Inside, Spans, Frames
<1>4. Inside(CheckWindow(r), OutputWindow(r))
  BY <1>1, <1>2, <1>3 DEF CheckWindow, OutputWindow, Roles
<1>5. ASSUME ~Refused(r) PROVE SeedFrame(r) \in c.seeds
  <2>1. plan[r].status = "ok" /\ reports[r].status \in {"not_run", "passed"}
    BY <1>5 DEF Refused
  <2>2. plan[r].seed \in c.seeds
    BY <1>1, <2>1 DEF IInv, Shape
  <2>3. reports[r].status = "passed" => reports[r].seed \in c.seeds
    BY <1>1 DEF Agreed
  <2> QED  BY <2>2, <2>3 DEF SeedFrame
<1>6. OutputWindow(r) \in {c.target, c.receiver}
  BY <1>1 DEF OutputWindow
<1>7. ~Refused(r) => SeedFrame(r) \in c.seeds /\ SeedFrame(r) <= OutputWindow(r).end
  BY <1>2, <1>5, <1>6
<1> QED  BY <1>1, <1>4, <1>7 DEF InputsAgree

LEMMA AgreedHolds ==
    ASSUME IInv, Agreed, Next
    PROVE  Agreed'
<1>1. ASSUME NEW c, at = "detect", Build(c), Fits(c) PROVE Agreed'
  <2>1. at' = "plan" /\ context' = c /\ UNCHANGED reports
    BY <1>1 DEF Build, Fits
  <2>2. \A r \in Roles : reports[r].status # "passed"
    BY <1>1 DEF IInv, Fresh, Early, Report
  <2> QED  BY <1>1, <2>1, <2>2 DEF Agreed
<1>2. ASSUME UNCHANGED <<context, reports>>, at' \notin {"detect", "raised"} PROVE Agreed'
  BY <1>2 DEF Agreed
<1>3. at = "detect" => signal \in [Frames -> Levels]
  BY MaskStageAssumption DEF Agreed
<1>4. CASE DetectLoop
  <2>1. PICK other \in OtherSignals : \E c \in PickPlaceContexts(signal, other) : Build(c)
    BY <1>4 DEF DetectLoop
  <2>2. other \in [Frames -> Levels] /\ at = "detect"
    BY <1>4, MaskStageAssumption DEF DetectLoop
  <2> QED  BY <1>1, <1>3, <2>1, <2>2, PickPlaceFits
<1>5. CASE DetectHold
  <2>1. PICK other \in OtherSignals : \E c \in TargetOnlyContexts(signal, other) : Build(c)
    BY <1>5 DEF DetectHold
  <2>2. other \in [Frames -> Levels] /\ at = "detect"
    BY <1>5, MaskStageAssumption DEF DetectHold
  <2> QED  BY <1>1, <1>3, <2>1, <2>2, TargetOnlyFits
<1>6. CASE ReadWindow
  <2>1. PICK w \in VideoWindows, mode \in {"target_only", "tool_use"} :
            Build(VideoContext(w, mode))
    BY <1>6 DEF ReadWindow
  <2>2. w \in Spans /\ w.start <= w.end /\ at = "detect"
    BY <1>6, MaskStageAssumption DEF ReadWindow, Spans
  <2> QED  BY <1>1, <2>1, <2>2, VideoFits
<1>7. CASE DetectFails \/ Plan \/ PlanFails
  <2>1. UNCHANGED <<context, reports>> /\ at' \notin {"detect", "raised"}
    BY <1>7 DEF DetectFails, Plan, PlanFails
  <2> QED  BY <1>2, <2>1
<1>8. CASE TryText \/ TryBox
  <2>1. UNCHANGED <<at, context, reports>> /\ at = "resolve"
    BY <1>8 DEF TryText, TryBox, Try
  <2> QED  BY <1>2, <2>1
<1>9. CASE HealthFails
  <2>1. \A r \in Roles : reports'[r].status # "passed"
    <3>1. \A r \in Roles : reports'[r] = Report(IF r \in Range(todo) THEN "error" ELSE "not_run")
      BY <1>9 DEF HealthFails
    <3>2. \A status : Report(status).status = status
      BY DEF Report
    <3> QED  BY <3>1, <3>2
  <2>2. UNCHANGED context /\ at' = "track"
    BY <1>9 DEF HealthFails
  <2> QED  BY <2>1, <2>2 DEF Agreed
<1>10. CASE Settle
  <2> DEFINE report == IF ~Planned THEN Report("refused")
                       ELSE IF Last.status = "passed"
                       THEN [status |-> "passed", id |-> Last.id, seed |-> Last.seed,
                             from |-> Mask(Last.method, Last.seed, "none")]
                       ELSE Report(Last.status)
  <2>1. /\ reports' = [reports EXCEPT ![Role] = report]
        /\ UNCHANGED context /\ at' \in {"resolve", "track"}
    BY <1>10 DEF Settle
  <2>2. report.status = "passed" => report.seed \in context.seeds
    <3>1. Planned => Last \in Trials
      BY <1>10, SettledByAttempt
    <3> QED  BY <3>1 DEF Report, Trials
  <2> HIDE DEF report
  <2>3. \A r \in Roles : reports'[r] = report \/ reports'[r] = reports[r]
    BY <2>1 DEF IInv, Shape
  <2> QED  BY <2>1, <2>2, <2>3 DEF Agreed
<1>11. CASE Skip \/ SeedIsEmpty \/ Track
  <2>1. at = "track" /\ \E track : Record(Role, track)
    <3>1. CASE Skip
      BY <3>1 DEF Skip
    <3>2. CASE SeedIsEmpty
      BY <3>2 DEF SeedIsEmpty
    <3>3. CASE Track
      <4>1. PICK seen \in Sightings(Role) : \E v \in Verdicts(seen) :
              Record(Role, [status |-> v[1], mask |-> SeedMask(Role),
                            frame |-> SeedFrame(Role), shown |-> v[2]])
        BY <3>3 DEF Track
      <4> QED  BY <3>3, <4>1 DEF Track
    <3> QED  BY <1>11, <3>1, <3>2, <3>3
  <2>2. InputsAgree(Role)
    BY <2>1, InputsFit, RoleIsOne DEF IInv, Shape
  <2>3. UNCHANGED <<context, reports>> /\ at' \in {"track", "saved"}
    BY <2>1, <2>2 DEF Record
  <2> QED  BY <1>2, <2>3
<1> QED  BY <1>4, <1>5, <1>6, <1>7, <1>8, <1>9, <1>10, <1>11 DEF Next

(* The gripper stage keeps what it was handed, and its prompts in the window. *)
LEMMA GripperAgrees ==
    ASSUME EInv,
           \/ LoadTracks \/ GripperFails \/ BuildTextBank \/ BuildBoxBank
           \/ QwenChooses \/ FallbackChooses \/ NothingToChoose \/ Propagate
    PROVE  Agreed' /\ PromptsFit' /\ at' \in GripperStages /\ ~config'.qc
<1> USE DEF EInv
<1>1. ASSUME UNCHANGED <<config, context, reports>>, at \in GripperStages,
             at' \in GripperStages
      PROVE  Agreed' /\ ~config'.qc
  BY <1>1 DEF Agreed, GripperStages, Late, Chosen
<1>2. ActiveFrames' = ActiveFrames /\ (context'.mode = context.mode)
  BY DEF ActiveFrames, ActiveWindow, LoadTracks, GripperFails, BuildTextBank, BuildBoxBank,
         QwenChooses, FallbackChooses, NothingToChoose, Propagate, Choose, Stays
<1>3. CASE LoadTracks
  <2>1. /\ UNCHANGED context /\ ~config'.qc
        /\ \A r \in Roles : reports'[r] = Report("not_run")
        /\ at' = IF context.mode = "pick_place" /\ \A r \in Roles : Usable(r)
                 THEN "text_box" ELSE "no_gripper"
    BY <1>3 DEF LoadTracks, Forget
  <2>2. Report("not_run").status # "passed"
    BY DEF Report
  <2>3. Agreed'
    BY <2>1, <2>2 DEF Agreed
  <2> QED  BY <2>1, <2>3 DEF PromptsFit, GripperStages, Late, Chosen
<1>4. CASE GripperFails \/ NothingToChoose
  <2>1. /\ UNCHANGED <<config, context, reports>> /\ at \in GripperStages
        /\ at' = "no_gripper"
    BY <1>4 DEF GripperFails, NothingToChoose, Stays, GripperStages, Late, Chosen
  <2>2. Agreed' /\ ~config'.qc
    BY <1>1, <2>1 DEF GripperStages
  <2> QED  BY <2>1, <2>2 DEF PromptsFit, GripperStages, Late, Chosen
<1>5. CASE BuildTextBank
  <2>1. /\ UNCHANGED <<config, context, reports>> /\ at = "text_box"
        /\ at' \in {"box_only", "choose"}
    BY <1>5 DEF BuildTextBank, Stays
  <2>2. PICK frames \in Prompted : \E rank \in [frames -> {Empty, Poor, Good}] :
             gripper' = Gripper(frames, Bank("text_box", rank), NoCandidate)
    BY <1>5 DEF BuildTextBank
  <2>3. PICK rank \in [frames -> {Empty, Poor, Good}] :
             gripper' = Gripper(frames, Bank("text_box", rank), NoCandidate)
    BY <2>2
  <2>4. frames \subseteq ActiveFrames
    BY DEF Prompted
  <2>5. gripper'.prompted = frames /\ \A c \in gripper'.candidates : c.frame \in frames
    BY <2>3 DEF Gripper, Bank, Candidate
  <2>6. Agreed' /\ ~config'.qc
    BY <1>1, <2>1 DEF GripperStages, Late, Chosen
  <2>7. context.mode = "pick_place"
    BY <2>1 DEF PromptsFit, Late
  <2> QED  BY <1>2, <2>1, <2>4, <2>5, <2>6, <2>7 DEF PromptsFit, GripperStages, Late, Chosen
<1>6. CASE BuildBoxBank
  <2>1. /\ UNCHANGED <<config, context, reports>> /\ at = "box_only" /\ at' = "choose"
    BY <1>6 DEF BuildBoxBank, Stays
  <2>2. PICK rank \in [gripper.prompted -> {Empty, Poor, Good}] :
          gripper' = Gripper(gripper.prompted, gripper.candidates \cup Bank("box_only", rank),
                             NoCandidate)
    BY <1>6 DEF BuildBoxBank
  <2>3. /\ gripper'.prompted = gripper.prompted
        /\ \A c \in gripper'.candidates : c \in gripper.candidates \/ c.frame \in gripper.prompted
    BY <2>2 DEF Gripper, Bank, Candidate
  <2>4. /\ context.mode = "pick_place" /\ gripper.prompted \subseteq ActiveFrames
        /\ \A c \in gripper.candidates : c.frame \in ActiveFrames
    BY <2>1 DEF PromptsFit, Late
  <2>5. Agreed' /\ ~config'.qc
    BY <1>1, <2>1 DEF GripperStages, Late, Chosen
  <2> QED  BY <1>2, <2>1, <2>3, <2>4, <2>5 DEF PromptsFit, GripperStages, Late, Chosen
<1>7. CASE QwenChooses \/ FallbackChooses
  <2>1. at = "choose" /\ \E c : Choose(c)
    BY <1>7 DEF QwenChooses, FallbackChooses
  <2>2. /\ UNCHANGED <<config, context, reports>> /\ at' = "propagate"
        /\ gripper'.prompted = gripper.prompted /\ gripper'.candidates = gripper.candidates
    BY <2>1 DEF Choose, Stays, Gripper
  <2>3. Agreed' /\ ~config'.qc
    BY <1>1, <2>1, <2>2 DEF GripperStages, Late, Chosen
  <2> QED  BY <1>2, <2>1, <2>2, <2>3 DEF PromptsFit, GripperStages, Late, Chosen
<1>8. CASE Propagate
  <2>1. /\ UNCHANGED <<config, context, reports, gripper>> /\ at = "propagate"
    BY <1>8 DEF Propagate, Stays
  <2>2. /\ gripper.seed.frame \in ActiveFrames /\ context.mode = "pick_place"
    BY <2>1 DEF GInv, SeedIsFair, PromptsFit, Late, Chosen
  <2>3. TrackerAccepts(gripper.seed, ActiveWindow)
    <3> DEFINE c == context
    <3>1. /\ c.target \in Spans /\ c.receiver \in Spans
          /\ c.target.start <= c.receiver.end
      BY <2>2 DEF Agreed, Fits
    <3>2. ActiveWindow = Window(c.target.start, c.receiver.end)
      BY DEF ActiveWindow
    <3> HIDE DEF c
    <3>3. Valid(ActiveWindow)
      BY <3>1, <3>2, TimelineAssumption DEF Valid, Window, Spans, Frames
    <3> QED  BY <2>2, <3>3 DEF TrackerAccepts, ActiveFrames
  <2>4. at' \in {"gripper", "no_gripper"}
    BY <1>8, <2>3 DEF Propagate
  <2>5. Agreed' /\ ~config'.qc
    BY <1>1, <2>1, <2>4 DEF GripperStages, Late, Chosen
  <2> QED  BY <1>2, <2>1, <2>4, <2>5 DEF PromptsFit, GripperStages, Late, Chosen
<1> QED  BY <1>3, <1>4, <1>5, <1>6, <1>7, <1>8

LEMMA EpisodeSteps == EInv /\ [GripperNext]_gripperVars => EInv'
<1> SUFFICES ASSUME EInv, [GripperNext]_gripperVars PROVE EInv'
  OBVIOUS
<1>1. GInv'
  BY Inductive DEF EInv
<1>2. CASE Next /\ UNCHANGED gripper
  <2>1. at \notin GripperStages
    BY <1>2 DEF Next, DetectLoop, DetectHold, ReadWindow, DetectFails, Plan, PlanFails,
       HealthFails, TryText, TryBox, Try, Settle, Skip, SeedIsEmpty, Track,
       GripperStages, Late, Chosen
  <2>2. IInv' /\ KnownWrongPixelsStayOut' /\ Agreed'
    BY <1>2, <2>1, NextHolds, PixelsHold, AgreedHolds DEF EInv
  <2>3. at' \notin GripperStages
    BY <2>2 DEF IInv, TypeOK, GripperStages, Late, Chosen
  <2> QED  BY <1>1, <2>2, <2>3 DEF EInv, PromptsFit, GripperStages, Chosen, Late
<1>3. CASE \/ LoadTracks \/ GripperFails \/ BuildTextBank \/ BuildBoxBank
           \/ QwenChooses \/ FallbackChooses \/ NothingToChoose \/ Propagate
  <2>1. Agreed' /\ PromptsFit' /\ at' \in GripperStages /\ ~config'.qc
    BY <1>3, GripperAgrees
  <2>2. \A r \in Roles : tracks'[r].status = tracks[r].status /\ tracks'[r].shown = tracks[r].shown
    BY <1>3 DEF LoadTracks, Forget, GripperFails, BuildTextBank, BuildBoxBank, QwenChooses,
       FallbackChooses, NothingToChoose, Propagate, Choose, Stays
  <2>3. KnownWrongPixelsStayOut'
    BY <2>2 DEF EInv, KnownWrongPixelsStayOut
  <2> QED  BY <1>1, <2>1, <2>3 DEF EInv
<1>4. CASE UNCHANGED gripperVars
  <2>1. /\ UNCHANGED <<at, signal, config, context, plan, todo, attempts, reports, tracks, accepted>>
        /\ UNCHANGED gripper
    BY <1>4 DEF gripperVars, vars
  <2>2. at \notin GripperStages => IInv'
    BY <2>1, NextHolds DEF EInv, vars
  <2>3. KnownWrongPixelsStayOut' /\ Agreed' /\ PromptsFit'
    BY <2>1 DEF EInv, KnownWrongPixelsStayOut, Agreed, PromptsFit, ActiveFrames, ActiveWindow
  <2> QED  BY <1>1, <2>1, <2>2, <2>3 DEF EInv
<1> QED  BY <1>2, <1>3, <1>4 DEF GripperNext

LEMMA EpisodeStarts == GripperInit => EInv
<1> SUFFICES ASSUME GripperInit PROVE EInv
  OBVIOUS
<1>1. Init /\ at = "detect" /\ signal \in Signals
  BY DEF GripperInit, Init
<1>2. IInv /\ KnownWrongPixelsStayOut
  BY <1>1, InitHolds DEF Init, KnownWrongPixelsStayOut, NoTrack
<1>3. GInv /\ PromptsFit
  BY <1>1 DEF Init, GInv, OkIsShown, EnteredWell, BanksInOrder, SeedIsFair, PromptsFit, Late,
     Chosen, NoTrack
<1>4. Agreed
  <2>1. Window(0, 0) \in Spans /\ Window(0, 0).start <= Window(0, 0).end
    BY TimelineAssumption DEF Window, Spans, Frames
  <2>2. Fits(context)
    BY <1>1, <2>1, VideoFits DEF Init
  <2>3. \A r \in Roles : reports[r].status # "passed"
    BY <1>1 DEF Init, Report
  <2> QED  BY <1>1, <2>2, <2>3 DEF Agreed
<1> QED  BY <1>1, <1>2, <1>3, <1>4 DEF EInv, GripperStages, Late, Chosen

THEOREM EpisodeInvariance == GripperSpec => []EInv
BY EpisodeStarts, EpisodeSteps, PTL DEF GripperSpec

(* Whatever the gripper does, whatever Qwen and SAM answer: the windows and *)
(* seeds that a stage hands on are ones the next accepts, so none raises    *)
(* (state_loop.py, sam_stage.py, gripper/sam/stage.py).                     *)
THEOREM NoStageRaises == GripperSpec => []StagesAgree
<1>1. EInv => StagesAgree
  BY DEF EInv, Agreed, StagesAgree
<1> QED  BY EpisodeInvariance, <1>1, PTL

(* For signals of any length: a second gesture is found, and the episode    *)
(* refused, unless it begins where the search starts over                   *)
(* (detect_arm_loops).                                                      *)
THEOREM OtherGesturesAreFound == GripperSpec => []OnlyAdjacentGesturesAreMissed
<1>1. EInv => OnlyAdjacentGesturesAreMissed
  <2> SUFFICES ASSUME EInv, at = "detect", NEW c \in Frames, SecondGestureAt(signal, c)
               PROVE  LET cut == ArmLoops(signal)[1].openDone + 1
                      IN \/ Len(ArmLoops(signal)) >= 2
                         \/ /\ Len(ArmLoops(signal)) = 1
                            /\ c = cut \/ (c = cut + 1 /\ signal[cut] <= ClosedLevel)
    BY Zenon DEF OnlyAdjacentGesturesAreMissed
  <2>1. signal \in [Frames -> Levels]
    BY MaskStageAssumption DEF EInv, Agreed
  <2> QED  BY <2>1, SecondGestureIsFound
<1> QED  BY EpisodeInvariance, <1>1, PTL

(* Also with the stage that follows: what was tracked under QC was accepted, *)
(* and what was lost stays out of the masks that it cuts the gripper by.      *)
THEOREM EpisodeMasksWereAccepted ==
    GripperSpec => [](AcceptedMaskIsTracked /\ KnownWrongPixelsStayOut)
<1>1. EInv => AcceptedMaskIsTracked /\ KnownWrongPixelsStayOut
  BY DEF EInv, IInv, AcceptedMaskIsTracked
<1> QED  BY EpisodeInvariance, <1>1, PTL

====
