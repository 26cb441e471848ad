----------------------------- MODULE SamRunProofs -----------------------------
(***************************************************************************)
(* The SAM run, for any number of episodes, workers, attempts, starts and  *)
(* faults: what the files of an episode say to the next run, to the        *)
(* summary and to the URDF process that reads a completed episode.         *)
(***************************************************************************)
EXTENDS SamRun, TLAPS

Gripper == {"none", "good", "bad"}
Kept == [gen : Nat, objects : BOOLEAN, gripper : Gripper]
Verdict == [objects : BOOLEAN, gripper : Gripper]
Worker == [episode : Episode, gen : Nat, run : Nat, mode : Mode, pc : 1..8,
           objects : BOOLEAN, gripper : Gripper]

\* TypeOK but for the bounds of the numbers.
Shape ==
    /\ at \in {"idle", "scan", "episodes", "returned", "raised", "crashed"}
    /\ runs \in Nat
    /\ options \in Options
    /\ rows \in [Episode -> {"none"} \cup CompletedStatus \cup FailureStatus]
    /\ writers \subseteq Worker
    /\ gen \in [Episode -> Nat]
    /\ disk \in [Episode -> [File -> Kept]]
    /\ receipt \in [Episode -> [File -> Kept]]
    /\ summary \in [by : [Episode -> Nat], mode : Mode, passed : BOOLEAN]
    /\ cut \in [Episode -> {"no", "rewritten", "overlapped"}]

On(e) == {w \in writers : w.episode = e}

\* Two executions write into one episode only where the second began, or the
\* resume scan read, while an orphan was still at work.
Alone == \A e \in Episode : cut[e] # "overlapped" => \A v, w \in On(e) : v = w

\* An execution, a file and a summary are of an execution that was begun, and a
\* worker of this run works in its mode.
Begotten ==
    /\ \A e \in Episode, f \in File : disk[e][f] # Absent => disk[e][f].gen \in 1..gen[e]
    /\ \A w \in writers : w.gen \in 1..gen[w.episode] /\ w.run \in 1..runs
    /\ \A e \in Episode : summary.by[e] <= gen[e]
    /\ \A w \in writers : at = "scan" => w.run < runs
    /\ \A w \in Mine : w.mode = options.mode

\* What an execution that is alone on its episode has saved so far.
Saved(w) ==
    LET d == disk[w.episode]
    IN  /\ w.pc > 1 => d["plan"].gen = w.gen
        /\ w.pc > 2 => d["mask_qc"].gen = w.gen /\ (w.objects => d["mask_qc"].objects)
        /\ w.pc > 3 => d["masks"].gen = w.gen
        /\ w.pc > 4 => /\ d["run_manifest"].gen = w.gen
                       /\ d["run_manifest"].objects <=> w.objects
        /\ w.pc \in 5..7 => d["run_manifest"].gripper = "none"
        /\ w.pc <= 5 => w.gripper = "none"
        /\ w.pc > 5 => /\ w.mode = "full" /\ w.objects /\ w.gripper # "none"
                       /\ d["gripper_files"].gen = w.gen
                       /\ d["gripper_files"].gripper = w.gripper
        /\ w.pc > 6 => d["masks"].gripper = w.gripper
        /\ w.pc > 7 => d["run_manifest"].gripper = w.gripper
SavedInv == \A w \in writers : cut[w.episode] # "overlapped" => Saved(w)

\* In an episode that was not cut into, the manifest says that the objects came
\* out, or the gripper, only when the execution that saved it has saved the rest.
Settled(e) ==
    /\ disk[e]["run_manifest"].objects =>
          /\ ObjectsComplete(e)
          /\ Whole(e, {"plan", "mask_qc", "masks", "run_manifest"})
          /\ \A w \in On(e) : w.pc > 4
    /\ disk[e]["run_manifest"].objects /\ disk[e]["run_manifest"].gripper = "good" =>
          /\ Whole(e, File)
          /\ disk[e]["masks"].gripper = "good"
          /\ \A w \in On(e) : w.pc > 7
SettledInv == \A e \in Episode : cut[e] = "no" => Settled(e)

\* A row of this run and a line of the summary that call an episode complete
\* are about what is on disk, and nobody works on it.
RowsInv == \A e \in Episode : rows[e] \in CompletedStatus =>
    /\ gen[e] # 0
    /\ cut[e] # "overlapped" => Complete(options.mode, e) /\ On(e) = {}
SummaryInv == \A e \in Episode :
    /\ summary.passed => summary.by[e] # 0
    /\ summary.by[e] # 0 /\ summary.by[e] = gen[e] /\ cut[e] # "overlapped" =>
          Complete(summary.mode, e) /\ On(e) = {}

\* An incremental source is the first run of its id and the only one.
Pristine ==
    /\ writers = {}
    /\ \A e \in Episode : disk[e] = NoFiles /\ cut[e] = "no"
IncrementalInv ==
    /\ at \in {"scan", "episodes"} => runs > 0
    /\ runs = 0 \/ (options.incremental /\ at = "scan") => Pristine
    /\ options.incremental =>
          /\ runs = 1 /\ options.mode = "object"
          /\ \A e \in Episode : cut[e] # "overlapped"
    /\ \A e \in Episode : receipt[e] # NoFiles =>
          /\ options.incremental /\ at # "scan"
          /\ receipt[e] = disk[e] /\ ObjectsComplete(e) /\ On(e) = {}
          /\ at = "episodes" => rows[e] \in CompletedStatus

IInv == /\ Shape /\ Alone /\ Begotten /\ SavedInv /\ SettledInv
        /\ RowsInv /\ SummaryInv /\ IncrementalInv

-----------------------------------------------------------------------------
(* The scripts *)

LEMMA Joined ==
    ASSUME NEW s \in Seq(File), NEW t \in Seq(File)
    PROVE  /\ s \o t \in Seq(File) /\ Len(s \o t) = Len(s) + Len(t)
           /\ \A i \in 1..Len(s) : (s \o t)[i] = s[i]
           /\ \A i \in 1..Len(t) : (s \o t)[Len(s) + i] = t[i]
OBVIOUS

LEMMA Scripts ==
    /\ Len(ObjectScript) = 4
    /\ Len(Script("object")) = 4 /\ Len(Script("full")) = 7
    /\ \A m \in Mode : /\ Script(m)[1] = "plan" /\ Script(m)[2] = "mask_qc"
                       /\ Script(m)[3] = "masks" /\ Script(m)[4] = "run_manifest"
    /\ Script("full")[5] = "gripper_files" /\ Script("full")[6] = "masks"
    /\ Script("full")[7] = "run_manifest"
<1>1. /\ MaskFiles \in Seq(File) /\ Len(MaskFiles) = 2
      /\ MaskFiles[1] = "masks" /\ MaskFiles[2] = "run_manifest"
  BY DEF MaskFiles, File
<1>2. PICK last \in Seq(File) : last = MaskFiles
  BY <1>1
<1>3. Len(last) = 2 /\ last[1] = "masks" /\ last[2] = "run_manifest"
  BY <1>1, <1>2
<1>4. /\ PlanFiles \in Seq(File) /\ Len(PlanFiles) = 1 /\ PlanFiles[1] = "plan"
  BY DEF PlanFiles, File
<1>5. \A f \in File : <<f>> \in Seq(File) /\ Len(<<f>>) = 1 /\ <<f>>[1] = f
  OBVIOUS
<1>6. "mask_qc" \in File /\ "gripper_files" \in File
  BY DEF File
<1>7. PICK qc \in Seq(File) : qc = <<"mask_qc">> /\ Len(qc) = 1 /\ qc[1] = "mask_qc"
  BY <1>5, <1>6
<1>8. PICK grip \in Seq(File) : grip = <<"gripper_files">> /\ Len(grip) = 1 /\ grip[1] = "gripper_files"
  BY <1>5, <1>6
<1>9. PICK start \in Seq(File) : start = PlanFiles \o qc
  BY <1>4, Joined
<1>10. Len(start) = 2 /\ start[1] = "plan" /\ start[2] = "mask_qc"
  <2>1. Len(start) = 1 + 1 /\ start[1] = PlanFiles[1] /\ start[1 + 1] = qc[1]
    BY <1>4, <1>7, <1>9, Joined
  <2> QED  BY <1>4, <1>7, <2>1
<1>11. PICK obj \in Seq(File) : obj = start \o last
  BY Joined
<1>12. /\ Len(obj) = 4 /\ obj[1] = "plan" /\ obj[2] = "mask_qc"
       /\ obj[3] = "masks" /\ obj[4] = "run_manifest"
  <2>1. /\ Len(obj) = 2 + 2 /\ \A i \in 1..2 : obj[i] = start[i]
        /\ \A i \in 1..2 : obj[2 + i] = last[i]
    <3>1. /\ Len(obj) = Len(start) + Len(last) /\ \A i \in 1..Len(start) : obj[i] = start[i]
          /\ \A i \in 1..Len(last) : obj[Len(start) + i] = last[i]
      BY <1>11, Joined
    <3>2. Len(start) = 2 /\ Len(last) = 2
      BY <1>3, <1>10
    <3> QED  BY <3>1, <3>2, Zenon
  <2>2. 1 \in 1..2 /\ 2 \in 1..2 /\ 2 + 1 = 3 /\ 2 + 2 = 4
    OBVIOUS
  <2> QED  BY <1>3, <1>10, <2>1, <2>2
<1>13. PICK end \in Seq(File) : end = grip \o last
  BY Joined
<1>14. Len(end) = 3 /\ end[1] = "gripper_files" /\ end[2] = "masks" /\ end[3] = "run_manifest"
  <2>1. /\ Len(end) = 1 + 2 /\ \A i \in 1..1 : end[i] = grip[i]
        /\ \A i \in 1..2 : end[1 + i] = last[i]
    <3>1. /\ Len(end) = Len(grip) + Len(last) /\ \A i \in 1..Len(grip) : end[i] = grip[i]
          /\ \A i \in 1..Len(last) : end[Len(grip) + i] = last[i]
      BY <1>13, Joined
    <3>2. Len(grip) = 1 /\ Len(last) = 2
      BY <1>3, <1>8
    <3> QED  BY <3>1, <3>2, Zenon
  <2>2. 1 \in 1..1 /\ 1 \in 1..2 /\ 2 \in 1..2 /\ 1 + 1 = 2 /\ 1 + 2 = 3
    OBVIOUS
  <2> QED  BY <1>3, <1>8, <2>1, <2>2
<1>15. PICK whole \in Seq(File) : whole = obj \o end
  BY Joined
<1>16. /\ Len(whole) = 7 /\ whole[1] = "plan" /\ whole[2] = "mask_qc"
       /\ whole[3] = "masks" /\ whole[4] = "run_manifest"
       /\ whole[5] = "gripper_files" /\ whole[6] = "masks" /\ whole[7] = "run_manifest"
  <2>1. /\ Len(whole) = 4 + 3 /\ \A i \in 1..4 : whole[i] = obj[i]
        /\ \A i \in 1..3 : whole[4 + i] = end[i]
    <3>1. /\ Len(whole) = Len(obj) + Len(end) /\ \A i \in 1..Len(obj) : whole[i] = obj[i]
          /\ \A i \in 1..Len(end) : whole[Len(obj) + i] = end[i]
      BY <1>15, Joined
    <3>2. Len(obj) = 4 /\ Len(end) = 3
      BY <1>12, <1>14
    <3> QED  BY <3>1, <3>2, Zenon
  <2>2. /\ 1 \in 1..4 /\ 2 \in 1..4 /\ 3 \in 1..4 /\ 4 \in 1..4
        /\ 1 \in 1..3 /\ 2 \in 1..3 /\ 3 \in 1..3
        /\ 4 + 1 = 5 /\ 4 + 2 = 6 /\ 4 + 3 = 7
    OBVIOUS
  <2> QED  BY <1>12, <1>14, <2>1, <2>2
<1>17. ObjectScript = obj /\ GripperScript = end
  BY <1>2, <1>7, <1>8, <1>9, <1>11, <1>13 DEF ObjectScript, GripperScript
<1>18. Script("object") = obj /\ Script("full") = whole
  BY <1>15, <1>17 DEF Script
<1> QED  BY <1>12, <1>16, <1>17, <1>18 DEF Mode

\* The file an execution saves next, and where it may end.
LEMMA NextFile ==
    ASSUME NEW w \in Worker, ~Ended(w)
    PROVE  /\ w.pc \in 1..7 /\ (w.pc > 4 => w.mode = "full" /\ w.objects)
           /\ Script(w.mode)[w.pc] \in File
           /\ w.pc = 1 => Script(w.mode)[w.pc] = "plan"
           /\ w.pc = 2 => Script(w.mode)[w.pc] = "mask_qc"
           /\ w.pc \in {3, 6} => Script(w.mode)[w.pc] = "masks"
           /\ w.pc \in {4, 7} => Script(w.mode)[w.pc] = "run_manifest"
           /\ w.pc = 5 => Script(w.mode)[w.pc] = "gripper_files"
<1>1. w.pc \in 1..8 /\ w.mode \in {"object", "full"}
  BY DEF Worker, Mode
<1>2. w.pc <= Len(Script(w.mode)) /\ (w.pc > 4 => w.objects)
  <2>1. Len(Script(w.mode)) \in Nat /\ Len(ObjectScript) = 4
    BY <1>1, Scripts
  <2>2. ~(w.pc > Len(Script(w.mode))) /\ (w.pc > 4 => w.objects)
    BY <2>1 DEF Ended
  <2>3. \A m, n \in Nat : ~(m > n) => m <= n
    OBVIOUS
  <2>4. w.pc <= Len(Script(w.mode))
    BY <1>1, <2>1, <2>2, <2>3
  <2> QED  BY <2>2, <2>4, Zenon
<1>3. w.pc \in 1..7 /\ (w.pc > 4 => w.mode = "full")
  <2>1. CASE w.mode = "object"
    <3>1. w.pc <= 4
      BY <1>2, <2>1, Scripts, Zenon
    <3> QED  BY <1>1, <3>1
  <2>2. CASE w.mode = "full"
    <3>1. w.pc <= 7
      BY <1>2, <2>2, Scripts, Zenon
    <3> QED  BY <1>1, <2>2, <3>1
  <2> QED  BY <1>1, <2>1, <2>2
<1>4. w.pc \in {1, 2, 3, 4, 5, 6, 7}
  BY <1>3
<1> QED  BY <1>1, <1>2, <1>3, <1>4, Scripts, SMTT(30) DEF Mode, File

LEMMA EndedAt ==
    ASSUME NEW w \in Worker, Ended(w), w.pc > 5 => w.mode = "full" /\ w.objects
    PROVE  w.pc = 8 \/ (w.pc = 5 /\ (w.mode = "object" \/ ~w.objects))
<1>1. w.pc \in 1..8 /\ w.mode \in {"object", "full"}
  BY DEF Worker, Mode
<1>2. w.pc > Len(Script(w.mode)) \/ (w.pc > 4 /\ ~w.objects)
  BY Scripts DEF Ended
<1> QED  BY <1>1, <1>2, Scripts

-----------------------------------------------------------------------------
(* What keeps *)

LEMMA SameFiles ==
    ASSUME NEW e, disk'[e] = disk[e]
    PROVE  /\ ObjectsComplete(e)' <=> ObjectsComplete(e)
           /\ \A m : Complete(m, e)' <=> Complete(m, e)
           /\ \A files : Whole(e, files)' <=> Whole(e, files)
BY DEF ObjectsComplete, GripperComplete, Complete, HasMasks, Whole

\* The settled state of an episode outlives the end of an execution.
LEMMA SettledStays ==
    ASSUME NEW e, Settled(e), disk'[e] = disk[e],
           \A w \in On(e)' : w \in On(e)
    PROVE  Settled(e)'
<1>1. /\ ObjectsComplete(e)' <=> ObjectsComplete(e)
      /\ \A files : Whole(e, files)' <=> Whole(e, files)
  BY SameFiles
<1> QED  BY <1>1 DEF Settled

LEMMA SavedStays ==
    ASSUME NEW w, Saved(w), disk'[w.episode] = disk[w.episode]
    PROVE  Saved(w)'
BY DEF Saved

\* Nothing is written, and no execution begins.
LEMMA NothingWritten ==
    ASSUME IInv, writers' \subseteq writers, UNCHANGED <<gen, disk>>,
           \A e \in Episode : cut'[e] # "overlapped" => cut[e] # "overlapped",
           \A e \in Episode : cut'[e] = "no" => cut[e] = "no" \/ Settled(e)
    PROVE  /\ Alone' /\ SavedInv' /\ SettledInv'
           /\ \A e \in Episode : On(e)' \subseteq On(e)
           /\ \A m, e : Complete(m, e)' <=> Complete(m, e)
           /\ \A e : ObjectsComplete(e)' <=> ObjectsComplete(e)
<1>1. \A e \in Episode : On(e)' \subseteq On(e)
  BY DEF On
<1>2. Alone'
  BY <1>1 DEF IInv, Alone
<1>3. SavedInv'
  <2> SUFFICES ASSUME NEW w \in writers', cut'[w.episode] # "overlapped" PROVE Saved(w)'
    BY DEF SavedInv
  <2>1. w \in writers /\ w.episode \in Episode
    BY DEF IInv, Shape, Worker
  <2>2. Saved(w)
    BY <2>1 DEF IInv, SavedInv
  <2> QED  BY <2>2, SavedStays
<1>4. SettledInv'
  <2> SUFFICES ASSUME NEW e \in Episode, cut'[e] = "no" PROVE Settled(e)'
    BY DEF SettledInv
  <2>1. Settled(e)
    BY DEF IInv, SettledInv
  <2>2. \A w \in On(e)' : w \in On(e)
    BY <1>1
  <2> QED  BY <2>1, <2>2, SettledStays
<1>5. \A e : /\ ObjectsComplete(e)' <=> ObjectsComplete(e)
             /\ \A m : Complete(m, e)' <=> Complete(m, e)
  BY DEF ObjectsComplete, GripperComplete, Complete, HasMasks
<1> QED  BY <1>1, <1>2, <1>3, <1>4, <1>5

\* An episode that looks complete was executed.
LEMMA CompleteWasBegun ==
    ASSUME IInv, NEW e \in Episode, NEW m, Complete(m, e)
    PROVE  gen[e] # 0
<1>1. disk[e]["masks"] # Absent /\ "masks" \in File
  BY DEF Complete, ObjectsComplete, GripperComplete, HasMasks, File
<1>2. disk[e]["masks"].gen \in 1..gen[e] /\ gen[e] \in Nat
  BY <1>1 DEF IInv, Begotten, Shape
<1> QED  BY <1>2

\* A step that ends executions or rows without success.
LEMMA RowsOnly ==
    ASSUME IInv, writers' \subseteq writers,
           UNCHANGED <<at, runs, options, gen, disk, receipt, summary, cut>>,
           rows' \in [Episode -> {"none"} \cup CompletedStatus \cup FailureStatus],
           \A e \in Episode : rows'[e] \in CompletedStatus => rows[e] \in CompletedStatus,
           \A e \in Episode : rows[e] \in CompletedStatus /\ On(e) = {} => rows'[e] = rows[e]
    PROVE  IInv'
<1>0. /\ Alone' /\ SavedInv' /\ SettledInv'
      /\ \A e \in Episode : On(e)' \subseteq On(e)
      /\ \A m, e : Complete(m, e)' <=> Complete(m, e)
      /\ \A e : ObjectsComplete(e)' <=> ObjectsComplete(e)
  BY NothingWritten
<1>1. Shape'
  BY DEF IInv, Shape
<1>2. Begotten'
  <2>1. Mine' \subseteq Mine
    BY DEF Mine
  <2> QED  BY <2>1 DEF IInv, Begotten
<1>3. RowsInv'
  BY <1>0 DEF IInv, RowsInv
<1>4. SummaryInv'
  BY <1>0 DEF IInv, SummaryInv
<1>5. IncrementalInv'
  <2>1. Pristine => Pristine'
    BY DEF Pristine
  <2> QED  BY <1>0, <2>1 DEF IInv, IncrementalInv
<1> QED  BY <1>0, <1>1, <1>2, <1>3, <1>4, <1>5 DEF IInv

-----------------------------------------------------------------------------
(* A run starts, looks, ends *)

LEMMA LeaveKeeps ==
    ASSUME IInv, NEW end \in {"raised", "crashed"}, NEW still \in SUBSET writers,
           at \in {"scan", "episodes"}, Leave(end, still)
    PROVE  IInv'
<1>1. /\ at' = end /\ writers' = still
      /\ UNCHANGED <<runs, gen, disk, receipt, summary, cut>>
      /\ rows' = [e \in Episode |-> "none"]
  BY DEF Leave, artifacts
<1>2. PICK i \in BOOLEAN : i = options.incremental
  BY DEF IInv, Shape, Options
<1>3. options' = [mode |-> "object", force |-> FALSE, parallel |-> FALSE, incremental |-> i]
  BY <1>2 DEF Leave
<1>4. options' \in Options /\ options'.incremental = i /\ options'.mode = "object"
  <2>1. \A r, b : r = [mode |-> "object", force |-> FALSE, parallel |-> FALSE, incremental |-> b]
                    => r.incremental = b /\ r.mode = "object"
    BY Z3
  <2>2. \A b \in BOOLEAN :
          [mode |-> "object", force |-> FALSE, parallel |-> FALSE, incremental |-> b] \in Options
    BY DEF Options, Mode
  <2> QED  BY <1>3, <2>1, <2>2, Zenon
<1>5. /\ Alone' /\ SavedInv' /\ SettledInv'
      /\ \A e \in Episode : On(e)' \subseteq On(e)
      /\ \A m, e : Complete(m, e)' <=> Complete(m, e)
      /\ \A e : ObjectsComplete(e)' <=> ObjectsComplete(e)
  BY <1>1, NothingWritten
<1>6. \A e \in Episode : rows'[e] = "none"
  BY <1>1
<1>7. Shape'
  BY <1>1, <1>4 DEF IInv, Shape
<1>8. Begotten'
  <2>1. Mine' = {}
    BY <1>1 DEF Mine
  <2> QED  BY <1>1, <2>1 DEF IInv, Begotten
<1>9. RowsInv'
  BY <1>6 DEF RowsInv, CompletedStatus
<1>10. SummaryInv'
  BY <1>1, <1>5 DEF IInv, SummaryInv
<1>11. IncrementalInv'
  <2>1. Pristine => Pristine'
    BY <1>1 DEF Pristine
  <2>2. (options.incremental)' <=> options.incremental
    BY <1>2, <1>4
  <2>3. runs' = 0 => runs = 0
    BY <1>1
  <2>4. at' # "scan" /\ at' # "episodes"
    BY <1>1
  <2>5. options'.incremental => runs' = 1 /\ options'.mode = "object"
                                /\ \A e \in Episode : cut'[e] # "overlapped"
    BY <1>1, <1>4, <2>2 DEF IInv, IncrementalInv
  <2>6. runs' = 0 => Pristine'
    BY <2>1, <2>3 DEF IInv, IncrementalInv
  <2>7. \A e \in Episode : receipt'[e] # NoFiles =>
            /\ options'.incremental
            /\ receipt'[e] = disk'[e] /\ ObjectsComplete(e)' /\ On(e)' = {}
    BY <1>1, <1>5, <2>2 DEF IInv, IncrementalInv
  <2> QED  BY <2>4, <2>5, <2>6, <2>7 DEF IncrementalInv
<1> QED  BY <1>5, <1>7, <1>8, <1>9, <1>10, <1>11 DEF IInv

LEMMA StartKeeps ==
    ASSUME IInv, Start
    PROVE  IInv'
<1>1. /\ at' = "scan" /\ runs' = runs + 1 /\ ~options.incremental
      /\ options' \in Options
      /\ options'.incremental => options'.mode = "object" /\ runs = 0
      /\ UNCHANGED <<writers, gen, disk, receipt, summary, cut>>
      /\ rows' = [e \in Episode |-> "none"]
  BY DEF Start, artifacts
<1>2. runs \in Nat /\ runs' \in Nat /\ runs' > 0 /\ (runs = 0 => runs' = 1)
  BY <1>1 DEF IInv, Shape
<1>3. /\ Alone' /\ SavedInv' /\ SettledInv'
      /\ \A e \in Episode : On(e)' \subseteq On(e)
      /\ \A m, e : Complete(m, e)' <=> Complete(m, e)
      /\ \A e : ObjectsComplete(e)' <=> ObjectsComplete(e)
  BY <1>1, NothingWritten
<1>4. Shape'
  BY <1>1, <1>2 DEF IInv, Shape
<1>5. Begotten'
  <2>1. Mine' = {}
    BY <1>1 DEF Mine
  <2>2. \A w \in writers : w.run \in 1..runs /\ w.run \in Nat
    BY DEF IInv, Begotten, Shape, Worker
  <2>3. \A w \in writers' : w.run \in 1..runs' /\ w.run < runs'
    BY <1>1, <1>2, <2>2
  <2> QED  BY <1>1, <2>1, <2>3 DEF IInv, Begotten
<1>6. RowsInv'
  BY <1>1 DEF RowsInv, CompletedStatus
<1>7. SummaryInv'
  BY <1>1, <1>3 DEF IInv, SummaryInv
<1>8. IncrementalInv'
  <2>1. Pristine => Pristine'
    BY <1>1 DEF Pristine
  <2>2. \A e \in Episode : receipt'[e] = NoFiles
    BY <1>1 DEF IInv, IncrementalInv
  <2>3. options'.incremental => Pristine /\ runs' = 1 /\ options'.mode = "object"
    BY <1>1, <1>2 DEF IInv, IncrementalInv
  <2>4. options'.incremental => \A e \in Episode : cut'[e] # "overlapped"
    BY <1>1, <2>3 DEF Pristine
  <2> QED  BY <1>1, <1>2, <2>1, <2>2, <2>3, <2>4 DEF IncrementalInv
<1> QED  BY <1>3, <1>4, <1>5, <1>6, <1>7, <1>8 DEF IInv

\* The resume scan skips what looks complete; if an orphan is still writing
\* there, the episode counts as overlapped.
LEMMA ScanKeeps ==
    ASSUME IInv, Scan
    PROVE  IInv'
<1> DEFINE Done(e) == ~options.force /\ Complete(options.mode, e)
<1>1. /\ at = "scan" /\ at' = "episodes"
      /\ UNCHANGED <<runs, options, writers, gen, disk, summary>>
  BY DEF Scan, run
<1>2. rows' = [e \in Episode |-> IF Done(e) THEN "skipped_complete" ELSE "none"]
  BY DEF Scan
<1>3. receipt' = [e \in Episode |-> IF options.incremental /\ Done(e) THEN disk[e] ELSE receipt[e]]
  BY DEF Scan, Freeze
<1>4. cut' = [e \in Episode |-> IF Done(e) /\ On(e) # {} THEN "overlapped" ELSE cut[e]]
  BY DEF Scan, On
<1>5. \A e \in Episode : /\ cut'[e] # "overlapped" => cut[e] # "overlapped"
                         /\ cut'[e] = "no" => cut[e] = "no"
                         /\ rows'[e] \in CompletedStatus => Done(e)
  BY <1>2, <1>4 DEF CompletedStatus
<1>6. /\ Alone' /\ SavedInv' /\ SettledInv'
      /\ \A e \in Episode : On(e)' \subseteq On(e)
      /\ \A m, e : Complete(m, e)' <=> Complete(m, e)
      /\ \A e : ObjectsComplete(e)' <=> ObjectsComplete(e)
  BY <1>1, <1>5, NothingWritten
<1>7. Shape'
  BY <1>1, <1>2, <1>3, <1>4 DEF IInv, Shape, CompletedStatus
<1>8. Begotten'
  <2>1. \A w \in writers : w.run < runs /\ w.run \in Nat /\ runs \in Nat
    BY <1>1 DEF IInv, Begotten, Shape, Worker
  <2>2. Mine' = {}
    BY <1>1, <2>1 DEF Mine
  <2> QED  BY <1>1, <2>2 DEF IInv, Begotten
<1>9. RowsInv'
  <2> SUFFICES ASSUME NEW e \in Episode, rows'[e] \in CompletedStatus
               PROVE  /\ gen'[e] # 0
                      /\ cut'[e] # "overlapped" => Complete(options.mode, e)' /\ On(e)' = {}
    BY DEF RowsInv
  <2>1. Done(e)
    BY <1>5
  <2>2. gen[e] # 0
    BY <2>1, CompleteWasBegun
  <2>3. cut'[e] # "overlapped" => On(e) = {}
    BY <1>4, <2>1
  <2> QED  BY <1>1, <1>6, <2>1, <2>2, <2>3
<1>10. SummaryInv'
  BY <1>1, <1>5, <1>6 DEF IInv, SummaryInv
<1>11. IncrementalInv'
  <2>1. runs > 0
    BY <1>1 DEF IInv, IncrementalInv
  <2>2. options.incremental => \A e \in Episode : disk[e] = NoFiles /\ On(e) = {}
    BY <1>1 DEF IInv, IncrementalInv, Pristine, On
  <2>3. options.incremental => \A e \in Episode : ~Complete(options.mode, e)
    BY <2>2 DEF Complete, ObjectsComplete, GripperComplete, HasMasks, NoFiles, File
  <2>4. \A e \in Episode : receipt'[e] = NoFiles
    BY <1>1, <1>3, <2>3 DEF IInv, IncrementalInv
  <2>5. options.incremental => \A e \in Episode : cut'[e] # "overlapped"
    BY <1>4, <2>2 DEF IInv, IncrementalInv
  <2>6. runs' # 0
    BY <1>1, <2>1 DEF IInv, Shape
  <2> QED  BY <1>1, <2>4, <2>5, <2>6 DEF IInv, IncrementalInv
<1> QED  BY <1>6, <1>7, <1>8, <1>9, <1>10, <1>11 DEF IInv

LEMMA SummariseKeeps ==
    ASSUME IInv, Summarise
    PROVE  IInv'
<1>1. /\ at = "episodes" /\ at' = "returned" /\ \A e \in Episode : rows[e] # "none"
      /\ UNCHANGED <<runs, options, rows, writers, gen, disk, receipt, cut>>
  BY DEF Summarise, run
<1>2. PICK rendered \in BOOLEAN :
          summary' = [by |-> [e \in Episode |-> IF rows[e] \in CompletedStatus THEN gen[e] ELSE 0],
                      mode |-> options.mode, passed |-> rendered /\ Passed]
  BY DEF Summarise
<1>3. PICK by \in [Episode -> Nat], passed \in BOOLEAN :
          /\ by = [e \in Episode |-> IF rows[e] \in CompletedStatus THEN gen[e] ELSE 0]
          /\ passed <=> rendered /\ Passed
          /\ summary' = [by |-> by, mode |-> options.mode, passed |-> passed]
  <2>1. [e \in Episode |-> IF rows[e] \in CompletedStatus THEN gen[e] ELSE 0] \in [Episode -> Nat]
    BY DEF IInv, Shape
  <2>2. (rendered /\ Passed) \in BOOLEAN
    OBVIOUS
  <2> QED  BY <1>2, <2>1, <2>2, Zenon
<1>4. /\ summary'.by = by /\ summary'.mode = options.mode /\ summary'.passed = passed
      /\ summary' \in [by : [Episode -> Nat], mode : Mode, passed : BOOLEAN]
  <2>1. \A r, b, m, p : r = [by |-> b, mode |-> m, passed |-> p] => r.by = b /\ r.mode = m /\ r.passed = p
    BY Z3
  <2>2. options.mode \in Mode
    BY DEF IInv, Shape, Options
  <2>3. summary' \in [by : [Episode -> Nat], mode : Mode, passed : BOOLEAN]
    BY <1>3, <2>2, Zenon
  <2> QED  BY <1>3, <2>1, <2>3, Zenon
<1>5. /\ Alone' /\ SavedInv' /\ SettledInv'
      /\ \A e \in Episode : On(e)' \subseteq On(e)
      /\ \A m, e : Complete(m, e)' <=> Complete(m, e)
      /\ \A e : ObjectsComplete(e)' <=> ObjectsComplete(e)
  BY <1>1, NothingWritten
<1>6. Shape'
  BY <1>1, <1>4 DEF IInv, Shape
<1>7. Begotten'
  <2>1. Mine' = {}
    BY <1>1 DEF Mine
  <2>2. \A e \in Episode : by[e] <= gen[e]
    BY <1>3 DEF IInv, Shape
  <2> QED  BY <1>1, <1>4, <2>1, <2>2 DEF IInv, Begotten
<1>8. RowsInv'
  BY <1>1, <1>5 DEF IInv, RowsInv
<1>9. SummaryInv'
  <2>1. \A e \in Episode : passed => rows[e] \in CompletedStatus
    BY <1>1, <1>3 DEF Passed, IInv, Shape
  <2>2. \A e \in Episode : passed => by[e] # 0
    BY <1>3, <2>1 DEF IInv, RowsInv
  <2>3. \A e \in Episode : by[e] # 0 => rows[e] \in CompletedStatus
    BY <1>3
  <2>4. \A e \in Episode : by[e] # 0 /\ cut[e] # "overlapped" => Complete(options.mode, e) /\ On(e) = {}
    BY <2>3 DEF IInv, RowsInv
  <2> QED  BY <1>1, <1>4, <1>5, <2>2, <2>4 DEF SummaryInv
<1>10. IncrementalInv'
  <2>1. Pristine => Pristine'
    BY <1>1 DEF Pristine
  <2> QED  BY <1>1, <1>5, <2>1 DEF IInv, IncrementalInv
<1> QED  BY <1>5, <1>6, <1>7, <1>8, <1>9, <1>10 DEF IInv

-----------------------------------------------------------------------------
(* An execution begins and comes to its end *)

LEMMA BeginKeeps ==
    ASSUME IInv, NEW e \in Episode, Begin(e)
    PROVE  IInv'
<1>0. /\ gen \in [Episode -> Nat] /\ runs \in Nat /\ options \in Options
      /\ writers \subseteq Worker /\ cut \in [Episode -> {"no", "rewritten", "overlapped"}]
  BY DEF IInv, Shape
<1>1. /\ at = "episodes" /\ rows[e] = "none" /\ \A w \in Mine : w.episode # e
      /\ UNCHANGED <<at, runs, options, rows, disk, receipt, summary>>
      /\ runs > 0
  BY DEF Begin, Pending, Active, run, artifacts, IInv, IncrementalInv
<1>2. /\ gen' \in [Episode -> Nat] /\ gen'[e] = gen[e] + 1
      /\ \A i \in Episode \ {e} : gen'[i] = gen[i]
  BY <1>0 DEF Begin
<1>3. PICK n : n = [episode |-> e, gen |-> gen[e] + 1, run |-> runs, mode |-> options.mode,
                    pc |-> 1, objects |-> TRUE, gripper |-> "none"]
  OBVIOUS
<1>4. /\ n \in Worker /\ n.episode = e /\ n.gen = gen'[e] /\ n.run = runs
      /\ n.mode = options.mode /\ n.pc = 1 /\ n.gripper = "none"
  BY <1>0, <1>2, <1>3 DEF Worker, Options, Gripper
<1>5. writers' = writers \cup {n}
  BY <1>3 DEF Begin
<1>6. /\ \A i \in Episode \ {e} : cut'[i] = cut[i] /\ On(i)' = On(i)
      /\ On(e)' = On(e) \cup {n}
      /\ cut'[e] = IF On(e) # {} THEN "overlapped"
                   ELSE IF cut[e] = "no" /\ ObjectsComplete(e) THEN "rewritten" ELSE cut[e]
      /\ cut' \in [Episode -> {"no", "rewritten", "overlapped"}]
  <2>1. cut' = [cut EXCEPT ![e] = IF On(e) # {} THEN "overlapped"
                                  ELSE IF cut[e] = "no" /\ ObjectsComplete(e) THEN "rewritten"
                                  ELSE cut[e]]
    BY DEF Begin, On
  <2>2. \A i \in Episode \ {e} : On(i)' = On(i)
    BY <1>4, <1>5 DEF On
  <2>3. On(e)' = On(e) \cup {n}
    BY <1>4, <1>5 DEF On
  <2> QED  BY <1>0, <2>1, <2>2, <2>3
<1>7. /\ \A m, i : Complete(m, i)' <=> Complete(m, i)
      /\ \A i : ObjectsComplete(i)' <=> ObjectsComplete(i)
  BY <1>1 DEF ObjectsComplete, GripperComplete, Complete, HasMasks
<1>8. Shape'
  BY <1>1, <1>2, <1>4, <1>5, <1>6 DEF IInv, Shape
<1>9. Alone'
  BY <1>6 DEF IInv, Alone
<1>10. Begotten'
  <2>1. \A i \in Episode : gen[i] \in Nat /\ gen'[i] \in Nat /\ gen[i] <= gen'[i]
    BY <1>0, <1>2
  <2>2. \A i \in Episode, f \in File : disk'[i][f] # Absent => disk'[i][f].gen \in 1..gen'[i]
    BY <1>1, <2>1 DEF IInv, Begotten
  <2>3. n.gen \in 1..gen'[n.episode] /\ n.run \in 1..runs
    BY <1>0, <1>1, <1>2, <1>4
  <2>4. \A w \in writers' : w.gen \in 1..gen'[w.episode] /\ w.run \in 1..runs'
    <3>1. \A w \in writers : w.gen \in 1..gen[w.episode] /\ w.run \in 1..runs /\ w.episode \in Episode
      BY <1>0 DEF IInv, Begotten, Worker
    <3>2. \A w \in writers : w.gen \in 1..gen'[w.episode]
      BY <2>1, <3>1
    <3> QED  BY <1>1, <1>5, <2>3, <3>1, <3>2
  <2>5. \A i \in Episode : summary'.by[i] <= gen'[i]
    <3>1. summary.by \in [Episode -> Nat]
      BY DEF IInv, Shape
    <3> QED  BY <1>1, <2>1, <3>1 DEF IInv, Begotten
  <2>6. \A w \in Mine' : w.mode = options'.mode
    BY <1>1, <1>4, <1>5 DEF Mine, IInv, Begotten
  <2> QED  BY <1>1, <2>2, <2>4, <2>5, <2>6 DEF Begotten
<1>11. SavedInv'
  <2> SUFFICES ASSUME NEW w \in writers', cut'[w.episode] # "overlapped" PROVE Saved(w)'
    BY DEF SavedInv
  <2>1. CASE w = n
    BY <1>4, <2>1 DEF Saved
  <2>2. CASE w \in writers
    <3>1. w.episode \in Episode /\ w \in On(w.episode)
      BY <1>0, <2>2 DEF Worker, On
    <3>2. w.episode # e
      BY <1>6, <3>1
    <3>3. Saved(w)
      BY <1>6, <2>2, <3>1, <3>2 DEF IInv, SavedInv
    <3> QED  BY <1>1, <3>3, SavedStays
  <2> QED  BY <1>5, <2>1, <2>2
<1>12. SettledInv'
  <2> SUFFICES ASSUME NEW i \in Episode, cut'[i] = "no" PROVE Settled(i)'
    BY DEF SettledInv
  <2>1. CASE i # e
    <3>1. Settled(i)
      BY <1>6, <2>1 DEF IInv, SettledInv
    <3> QED  BY <1>1, <1>6, <2>1, <3>1, SettledStays
  <2>2. CASE i = e
    <3>1. cut[e] = "no" /\ ~ObjectsComplete(e)
      BY <1>6, <2>2
    <3>2. ~disk[e]["run_manifest"].objects
      BY <3>1 DEF IInv, SettledInv, Settled
    <3> QED  BY <1>1, <2>2, <3>2 DEF Settled
  <2> QED  BY <2>1, <2>2
<1>13. RowsInv'
  <2> SUFFICES ASSUME NEW i \in Episode, rows[i] \in CompletedStatus
               PROVE  /\ gen'[i] # 0
                      /\ cut'[i] # "overlapped" => Complete(options.mode, i)' /\ On(i)' = {}
    BY <1>1 DEF RowsInv
  <2>1. i # e
    BY <1>1 DEF CompletedStatus
  <2> QED  BY <1>1, <1>2, <1>6, <1>7, <2>1 DEF IInv, RowsInv
<1>14. SummaryInv'
  <2>1. summary.by[e] # gen'[e]
    <3>1. summary.by[e] <= gen[e] /\ summary.by[e] \in Nat /\ gen[e] \in Nat
      BY <1>0 DEF IInv, Begotten, Shape
    <3> QED  BY <1>2, <3>1
  <2>2. \A i \in Episode : summary.passed => summary.by[i] # 0
    BY DEF IInv, SummaryInv
  <2>3. \A i \in Episode \ {e} :
           summary.by[i] # 0 /\ summary.by[i] = gen[i] /\ cut[i] # "overlapped" =>
               Complete(summary.mode, i) /\ On(i) = {}
    BY DEF IInv, SummaryInv
  <2> QED  BY <1>1, <1>2, <1>6, <1>7, <2>1, <2>2, <2>3 DEF SummaryInv
<1>15. IncrementalInv'
  <2>1. options.incremental => On(e) = {}
    <3> SUFFICES ASSUME options.incremental, NEW w \in On(e) PROVE FALSE
      OBVIOUS
    <3>1. runs = 1 /\ w \in writers /\ w.episode = e
      BY DEF IInv, IncrementalInv, On
    <3>2. w.run \in 1..runs
      BY <3>1 DEF IInv, Begotten
    <3> QED  BY <1>1, <3>1, <3>2 DEF Mine
  <2>2. options.incremental => \A i \in Episode : cut'[i] # "overlapped"
    BY <1>6, <2>1 DEF IInv, IncrementalInv
  <2>3. receipt[e] = NoFiles
    BY <1>1 DEF IInv, IncrementalInv, CompletedStatus
  <2>4. runs' # 0 /\ at' # "scan"
    BY <1>0, <1>1
  <2>5. \A i \in Episode : receipt'[i] # NoFiles =>
            /\ options'.incremental /\ at' # "scan"
            /\ receipt'[i] = disk'[i] /\ ObjectsComplete(i)' /\ On(i)' = {}
            /\ at' = "episodes" => rows'[i] \in CompletedStatus
    BY <1>1, <1>6, <1>7, <2>3 DEF IInv, IncrementalInv
  <2> QED  BY <1>1, <2>2, <2>4, <2>5 DEF IInv, IncrementalInv
<1> QED  BY <1>8, <1>9, <1>10, <1>11, <1>12, <1>13, <1>14, <1>15 DEF IInv

\* An execution that was alone on its episode leaves it settled, and complete
\* in its mode if its masks came out.
LEMMA EndedIsSettled ==
    ASSUME IInv, NEW w \in writers, Ended(w), cut[w.episode] # "overlapped"
    PROVE  /\ Settled(w.episode)
           /\ CameOut(w) => Complete(w.mode, w.episode)
<1>1. /\ w \in Worker /\ w.episode \in Episode /\ w.pc \in 1..8 /\ w.gen \in Nat
      /\ w.mode \in {"object", "full"} /\ w.objects \in BOOLEAN /\ w.gripper \in Gripper
  BY DEF IInv, Shape, Worker, Mode
<1>2. w.gen # 0
  <2>1. w.gen \in 1..gen[w.episode] /\ gen[w.episode] \in Nat
    BY <1>1 DEF IInv, Begotten, Shape
  <2> QED  BY <2>1
<1>3. Saved(w)
  BY DEF IInv, SavedInv
<1>4. w.pc = 8 \/ (w.pc = 5 /\ (w.mode = "object" \/ ~w.objects))
  BY <1>1, <1>3, EndedAt DEF Saved
<1>5. \A v \in On(w.episode) : v = w
  BY <1>1 DEF IInv, Alone, On
<1> DEFINE d == disk[w.episode]
<1>6. /\ d["plan"].gen = w.gen /\ d["mask_qc"].gen = w.gen
      /\ w.objects => d["mask_qc"].objects
      /\ d["masks"].gen = w.gen /\ d["run_manifest"].gen = w.gen
      /\ d["run_manifest"].objects <=> w.objects
  BY <1>3, <1>4 DEF Saved
<1>7. HasMasks(w.episode)
  <2>1. Absent.gen = 0
    BY DEF Absent
  <2> QED  BY <1>2, <1>6, <2>1 DEF HasMasks
<1>8. w.pc = 8 => /\ w.mode = "full" /\ w.objects
                  /\ d["gripper_files"].gen = w.gen /\ d["gripper_files"].gripper = w.gripper
                  /\ d["masks"].gripper = w.gripper /\ d["run_manifest"].gripper = w.gripper
  BY <1>3 DEF Saved
<1>9. w.pc = 5 => d["run_manifest"].gripper = "none" /\ w.gripper = "none"
  BY <1>3 DEF Saved
<1>10. d["run_manifest"].objects => ObjectsComplete(w.episode)
  BY <1>6, <1>7 DEF ObjectsComplete
<1>11. Settled(w.episode)
  <2>1. w.pc > 4 /\ (w.pc # 5 => w.pc > 7)
    BY <1>1, <1>4
  <2>2. Whole(w.episode, {"plan", "mask_qc", "masks", "run_manifest"})
    BY <1>6 DEF Whole
  <2>3. w.pc = 8 => Whole(w.episode, File)
    BY <1>6, <1>8 DEF Whole, File
  <2>4. d["run_manifest"].gripper = "good" => w.pc = 8
    BY <1>4, <1>9
  <2> QED  BY <1>4, <1>5, <1>8, <1>10, <2>1, <2>2, <2>3, <2>4 DEF Settled
<1>12. ASSUME CameOut(w) PROVE Complete(w.mode, w.episode)
  <2>1. w.objects /\ (w.mode = "full" => w.gripper = "good")
    BY <1>12 DEF CameOut
  <2>2. CASE w.pc = 5
    BY <1>4, <1>6, <1>10, <2>1, <2>2 DEF Complete
  <2>3. CASE w.pc = 8
    BY <1>6, <1>7, <1>8, <2>1, <2>3 DEF Complete, GripperComplete
  <2> QED  BY <1>4, <2>2, <2>3
<1> QED  BY <1>11, <1>12

LEMMA FinishKeeps ==
    ASSUME IInv, NEW w \in writers, Finish(w)
    PROVE  IInv'
<1> DEFINE e == w.episode
<1>0. /\ e \in Episode /\ w \in Mine /\ Ended(w) /\ at = "episodes" /\ w \in On(e)
      /\ rows \in [Episode -> {"none"} \cup CompletedStatus \cup FailureStatus]
      /\ cut \in [Episode -> {"no", "rewritten", "overlapped"}]
  BY DEF Finish, Mine, IInv, Shape, Worker, On
<1>1. /\ UNCHANGED <<at, runs, options, gen, disk, summary>>
      /\ writers' = writers \ {w}
  BY DEF Finish, run
<1>2. /\ \A i \in Episode \ {e} : rows'[i] = rows[i] /\ cut'[i] = cut[i]
      /\ rows'[e] = IF CameOut(w) THEN "completed" ELSE "incomplete"
      /\ cut'[e] = IF cut[e] = "rewritten" THEN "no" ELSE cut[e]
      /\ rows' \in [Episode -> {"none"} \cup CompletedStatus \cup FailureStatus]
      /\ cut' \in [Episode -> {"no", "rewritten", "overlapped"}]
  BY <1>0 DEF Finish, Row, CompletedStatus, FailureStatus
<1>3. receipt' = [i \in Episode |-> IF options.incremental /\ CameOut(w) /\ i = e
                                    THEN disk[i] ELSE receipt[i]]
  BY DEF Finish, Freeze
<1>4. cut[e] # "overlapped" => /\ Settled(e) /\ (CameOut(w) => Complete(options.mode, e))
                               /\ On(e)' = {}
  <2>1. w.mode = options.mode
    BY <1>0 DEF IInv, Begotten
  <2>2. cut[e] # "overlapped" => On(e)' = {}
    BY <1>0, <1>1 DEF IInv, Alone, On
  <2> QED  BY <1>0, <2>1, <2>2, EndedIsSettled
<1>5. \A i \in Episode : /\ cut'[i] # "overlapped" => cut[i] # "overlapped"
                         /\ cut'[i] = "no" => cut[i] = "no" \/ Settled(i)
  BY <1>0, <1>2, <1>4
<1>6. /\ Alone' /\ SavedInv' /\ SettledInv'
      /\ \A i \in Episode : On(i)' \subseteq On(i)
      /\ \A m, i : Complete(m, i)' <=> Complete(m, i)
      /\ \A i : ObjectsComplete(i)' <=> ObjectsComplete(i)
  <2>1. writers' \subseteq writers
    BY <1>1
  <2> QED  BY <1>1, <1>5, <2>1, NothingWritten
<1>7. Shape'
  <2>1. receipt' \in [Episode -> [File -> Kept]]
    BY <1>3 DEF IInv, Shape
  <2> QED  BY <1>1, <1>2, <2>1 DEF IInv, Shape
<1>8. Begotten'
  BY <1>1 DEF Mine, IInv, Begotten
<1>9. RowsInv'
  <2> SUFFICES ASSUME NEW i \in Episode, rows'[i] \in CompletedStatus
               PROVE  /\ gen[i] # 0
                      /\ cut'[i] # "overlapped" => Complete(options.mode, i) /\ On(i)' = {}
    BY <1>1, <1>6 DEF RowsInv
  <2>1. CASE i # e
    BY <1>2, <1>6, <2>1 DEF IInv, RowsInv
  <2>2. CASE i = e
    <3>1. CameOut(w)
      BY <1>2, <2>2 DEF CompletedStatus
    <3>2. gen[e] # 0
      <4>1. w.gen \in 1..gen[e] /\ gen[e] \in Nat
        BY <1>0 DEF IInv, Begotten, Shape
      <4> QED  BY <4>1
    <3> QED  BY <1>4, <1>5, <2>2, <3>1, <3>2
  <2> QED  BY <2>1, <2>2
<1>10. SummaryInv'
  BY <1>1, <1>5, <1>6 DEF IInv, SummaryInv
<1>11. IncrementalInv'
  <2>1. runs > 0 /\ runs' # 0 /\ at' # "scan"
    BY <1>0, <1>1 DEF IInv, IncrementalInv, Shape
  <2>2. options.incremental => runs = 1 /\ options.mode = "object"
                               /\ \A i \in Episode : cut'[i] # "overlapped" /\ cut[i] # "overlapped"
    <3>1. \A i \in Episode : cut[i] # "overlapped" => cut'[i] # "overlapped"
      BY <1>0, <1>2
    <3> QED  BY <3>1 DEF IInv, IncrementalInv
  <2>3. \A i \in Episode : receipt'[i] # NoFiles =>
            /\ options.incremental
            /\ receipt'[i] = disk[i] /\ ObjectsComplete(i) /\ On(i)' = {}
            /\ rows'[i] \in CompletedStatus
    <3> SUFFICES ASSUME NEW i \in Episode, receipt'[i] # NoFiles
                 PROVE  /\ options.incremental
                        /\ receipt'[i] = disk[i] /\ ObjectsComplete(i) /\ On(i)' = {}
                        /\ rows'[i] \in CompletedStatus
      OBVIOUS
    <3>1. CASE options.incremental /\ CameOut(w) /\ i = e
      <4>1. Complete("object", e) /\ On(e)' = {}
        BY <1>0, <1>4, <2>2, <3>1
      <4> QED  BY <1>0, <1>2, <1>3, <3>1, <4>1 DEF Complete, CompletedStatus
    <3>2. CASE ~(options.incremental /\ CameOut(w) /\ i = e)
      <4>1. receipt[i] # NoFiles /\ receipt'[i] = receipt[i]
        BY <1>3, <3>2
      <4>2. i # e
        BY <1>0, <4>1 DEF IInv, IncrementalInv
      <4> QED  BY <1>0, <1>2, <1>6, <4>1, <4>2 DEF IInv, IncrementalInv
    <3> QED  BY <3>1, <3>2
  <2> QED  BY <1>0, <1>1, <1>6, <2>1, <2>2, <2>3 DEF IncrementalInv
<1> QED  BY <1>6, <1>7, <1>8, <1>9, <1>10, <1>11 DEF IInv

-----------------------------------------------------------------------------
(* An execution saves a file *)

\* What the step does to the disk.
LEMMA Stored ==
    ASSUME Shape, NEW e \in Episode, NEW f \in File, NEW c \in Kept, Store(e, f, c)
    PROVE  /\ disk' \in [Episode -> [File -> Kept]]
           /\ disk'[e][f] = c /\ \A g \in File \ {f} : disk'[e][g] = disk[e][g]
           /\ \A i \in Episode \ {e} : disk'[i] = disk[i]
<1>1. disk[e] \in [File -> Kept]
  BY DEF Shape
<1>2. PICK d : d = [disk[e] EXCEPT ![f] = c]
  OBVIOUS
<1>3. d \in [File -> Kept] /\ d[f] = c /\ \A g \in File \ {f} : d[g] = disk[e][g]
  BY <1>1, <1>2
<1>4. disk' = [disk EXCEPT ![e] = d]
  BY <1>2 DEF Store
<1> QED  BY <1>3, <1>4 DEF Shape

\* A file saved in its own episode, by an execution that goes on or ends there,
\* disturbs nothing that is said of other episodes, nor of its own what only
\* holds while nobody works on it.
LEMMA SavedElsewhere ==
    ASSUME IInv, NEW w \in writers, NEW f \in File, NEW c \in Kept,
           Store(w.episode, f, c), c.gen = w.gen,
           \A x \in writers' : \/ x \in writers /\ x # w
                               \/ /\ x \in Worker /\ x.episode = w.episode /\ x.gen = w.gen
                                  /\ x.run = w.run /\ x.mode = w.mode,
           \A x, y \in writers' : x \notin writers \ {w} /\ y \notin writers \ {w} => x = y,
           UNCHANGED <<at, runs, options, gen, receipt, summary, cut>>,
           rows' \in [Episode -> {"none"} \cup CompletedStatus \cup FailureStatus],
           \A i \in Episode : rows'[i] \in CompletedStatus => rows[i] \in CompletedStatus,
           \A i \in Episode \ {w.episode} : rows'[i] = rows[i]
    PROVE  /\ Shape' /\ Alone' /\ Begotten' /\ RowsInv' /\ SummaryInv' /\ IncrementalInv'
           /\ \A x \in writers' : cut[x.episode] # "overlapped" /\ x.episode # w.episode => Saved(x)'
           /\ \A i \in Episode \ {w.episode} : cut[i] = "no" => Settled(i)'
<1>0. /\ w \in Worker /\ w.episode \in Episode /\ w \in On(w.episode) /\ writers \subseteq Worker
      /\ gen \in [Episode -> Nat]
  BY DEF IInv, Shape, Worker, On
<1>1. /\ disk' \in [Episode -> [File -> Kept]]
      /\ disk'[w.episode][f] = c
      /\ \A g \in File \ {f} : disk'[w.episode][g] = disk[w.episode][g]
      /\ \A i \in Episode \ {w.episode} : disk'[i] = disk[i]
  BY <1>0, Stored DEF IInv
<1>2. /\ \A i \in Episode \ {w.episode} : On(i)' \subseteq On(i)
      /\ \A i \in Episode : On(i) = {} => i # w.episode
  BY <1>0 DEF On
<1>3. \A i \in Episode \ {w.episode} : /\ ObjectsComplete(i)' <=> ObjectsComplete(i)
                                       /\ \A m : Complete(m, i)' <=> Complete(m, i)
  BY <1>1, SameFiles
<1>4. Shape'
  <2>1. writers' \subseteq Worker
    BY <1>0
  <2> QED  BY <1>1, <2>1 DEF IInv, Shape
<1>5. Alone'
  <2> SUFFICES ASSUME NEW i \in Episode, cut'[i] # "overlapped", NEW x \in On(i)', NEW y \in On(i)'
               PROVE  x = y
    BY DEF Alone
  <2>1. x \in writers' /\ y \in writers' /\ x.episode = i /\ y.episode = i
    BY DEF On
  <2>2. \A v \in writers : v.episode = i => \A u \in writers : u.episode = i => v = u
    BY DEF IInv, Alone, On
  <2>3. CASE i = w.episode
    BY <2>1, <2>2, <2>3
  <2>4. CASE i # w.episode
    BY <2>1, <2>2, <2>4
  <2> QED  BY <2>3, <2>4
<1>6. Begotten'
  <2>1. \A i \in Episode, g \in File : disk'[i][g] # Absent => disk'[i][g].gen \in 1..gen[i]
    <3>1. c.gen \in 1..gen[w.episode]
      BY DEF IInv, Begotten
    <3> QED  BY <1>0, <1>1, <3>1 DEF IInv, Begotten
  <2>2. \A x \in writers' : /\ x.gen \in 1..gen[x.episode] /\ x.run \in 1..runs
                            /\ at = "scan" => x.run < runs
                            /\ at = "episodes" /\ x.run = runs => x.mode = options.mode
    BY DEF IInv, Begotten, Mine
  <2> QED  BY <2>1, <2>2 DEF IInv, Begotten, Mine
<1>7. RowsInv'
  <2> SUFFICES ASSUME NEW i \in Episode, rows[i] \in CompletedStatus
               PROVE  /\ gen[i] # 0
                      /\ cut[i] # "overlapped" => Complete(options.mode, i)' /\ On(i)' = {}
    BY DEF RowsInv
  <2>1. gen[i] # 0 /\ (cut[i] # "overlapped" => Complete(options.mode, i) /\ On(i) = {})
    BY DEF IInv, RowsInv
  <2> QED  BY <1>2, <1>3, <2>1
<1>8. SummaryInv'
  <2> SUFFICES ASSUME NEW i \in Episode
               PROVE  /\ summary.passed => summary.by[i] # 0
                      /\ summary.by[i] # 0 /\ summary.by[i] = gen[i] /\ cut[i] # "overlapped"
                            => Complete(summary.mode, i)' /\ On(i)' = {}
    BY DEF SummaryInv
  <2>1. /\ summary.passed => summary.by[i] # 0
        /\ summary.by[i] # 0 /\ summary.by[i] = gen[i] /\ cut[i] # "overlapped"
              => Complete(summary.mode, i) /\ On(i) = {}
    BY DEF IInv, SummaryInv
  <2> QED  BY <1>2, <1>3, <2>1
<1>9. IncrementalInv'
  <2>1. ~Pristine
    BY DEF Pristine
  <2>2. \A i \in Episode : receipt[i] # NoFiles => i # w.episode
    BY <1>2 DEF IInv, IncrementalInv
  <2>3. \A i \in Episode : receipt[i] # NoFiles =>
            /\ options.incremental /\ at # "scan"
            /\ receipt[i] = disk'[i] /\ ObjectsComplete(i)' /\ On(i)' = {}
            /\ at = "episodes" => rows'[i] \in CompletedStatus
    BY <1>1, <1>2, <1>3, <2>2 DEF IInv, IncrementalInv
  <2> QED  BY <2>1, <2>3 DEF IInv, IncrementalInv
<1>10. ASSUME NEW x \in writers', cut[x.episode] # "overlapped", x.episode # w.episode
       PROVE  Saved(x)'
  <2>1. x \in writers /\ x.episode \in Episode
    BY <1>0, <1>10 DEF Worker
  <2>2. Saved(x)
    BY <1>10, <2>1 DEF IInv, SavedInv
  <2> QED  BY <1>1, <1>10, <2>1, <2>2, SavedStays
<1>11. ASSUME NEW i \in Episode \ {w.episode}, cut[i] = "no" PROVE Settled(i)'
  <2>1. Settled(i)
    BY <1>11 DEF IInv, SettledInv
  <2>2. \A v \in On(i)' : v \in On(i)
    BY <1>2
  <2> QED  BY <1>1, <2>1, <2>2, SettledStays
<1> QED  BY <1>4, <1>5, <1>6, <1>7, <1>8, <1>9, <1>10, <1>11

LEMMA AdvancedFields ==
    ASSUME NEW w \in Worker, NEW v \in Verdict, w.pc <= 7
    PROVE  /\ Advanced(w, v) \in Worker
           /\ Advanced(w, v).episode = w.episode /\ Advanced(w, v).gen = w.gen
           /\ Advanced(w, v).run = w.run /\ Advanced(w, v).mode = w.mode
           /\ Advanced(w, v).pc = w.pc + 1
           /\ Advanced(w, v).objects = v.objects /\ Advanced(w, v).gripper = v.gripper
<1>1. \A r, a, b, c, d, p, o, g :
          r = [episode |-> a, gen |-> b, run |-> c, mode |-> d, pc |-> p, objects |-> o, gripper |-> g] =>
              /\ r.episode = a /\ r.gen = b /\ r.run = c /\ r.mode = d /\ r.pc = p
              /\ r.objects = o /\ r.gripper = g
  BY Z3
<1>2. /\ w.episode \in Episode /\ w.gen \in Nat /\ w.run \in Nat /\ w.mode \in Mode
      /\ w.pc + 1 \in 1..8 /\ v.objects \in BOOLEAN /\ v.gripper \in Gripper
  BY DEF Worker, Verdict
<1>3. Advanced(w, v) \in Worker
  BY <1>2, Zenon DEF Advanced, Worker
<1> QED  BY <1>1, <1>3, Zenon DEF Advanced

LEMMA WriteKeeps ==
    ASSUME IInv, NEW w \in writers, Write(w)
    PROVE  IInv'
<1>0. w \in Worker /\ w.episode \in Episode /\ ~Ended(w)
  BY DEF IInv, Shape, Worker, Write
<1>1. PICK v \in Verdict :
          /\ v.objects # w.objects =>
                w.objects /\ w.gripper = "none" /\ Script(w.mode)[w.pc] \in {"mask_qc", "masks"}
          /\ Script(w.mode)[w.pc] = "gripper_files" <=> v.gripper # w.gripper
          /\ Store(w.episode, Script(w.mode)[w.pc],
                   [gen |-> w.gen, objects |-> v.objects, gripper |-> v.gripper])
          /\ writers' = (writers \ {w}) \cup {Advanced(w, v)}
  BY DEF Write, Verdicts, Verdict, Gripper
<1>2. PICK f \in File : f = Script(w.mode)[w.pc]
  BY <1>0, NextFile
<1>3. PICK c : c = [gen |-> w.gen, objects |-> v.objects, gripper |-> v.gripper]
  OBVIOUS
<1>4. c \in Kept /\ c.gen = w.gen /\ c.objects = v.objects /\ c.gripper = v.gripper
  <2>1. \A r, a, b, d : r = [gen |-> a, objects |-> b, gripper |-> d] =>
                            r.gen = a /\ r.objects = b /\ r.gripper = d
    BY Z3
  <2>2. w.gen \in Nat /\ v.objects \in BOOLEAN /\ v.gripper \in Gripper
    BY <1>0 DEF Worker, Verdict
  <2>3. c \in Kept
    BY <1>3, <2>2, Zenon DEF Kept
  <2> QED  BY <1>3, <2>1, <2>3, Zenon
<1>5. PICK x : x = Advanced(w, v)
  OBVIOUS
<1>6. /\ x \in Worker /\ x.episode = w.episode /\ x.gen = w.gen /\ x.run = w.run /\ x.mode = w.mode
      /\ x.pc = w.pc + 1 /\ x.objects = v.objects /\ x.gripper = v.gripper
      /\ w.pc \in 1..7 /\ (w.pc > 4 => w.mode = "full" /\ w.objects)
      /\ w.pc = 1 => f = "plan"
      /\ w.pc = 2 => f = "mask_qc"
      /\ w.pc \in {3, 6} => f = "masks"
      /\ w.pc \in {4, 7} => f = "run_manifest"
      /\ w.pc = 5 => f = "gripper_files"
  <2>1. w.pc \in 1..7
    BY <1>0, NextFile
  <2>2. w.pc <= 7
    BY <2>1
  <2> QED  BY <1>0, <1>2, <1>5, <2>2, NextFile, AdvancedFields
<1>7. /\ Store(w.episode, f, c) /\ writers' = (writers \ {w}) \cup {x}
      /\ UNCHANGED <<at, runs, options, rows, gen, receipt, summary, cut>>
  BY <1>1, <1>2, <1>3, <1>5 DEF Write, run
<1>8. /\ Shape' /\ Alone' /\ Begotten' /\ RowsInv' /\ SummaryInv' /\ IncrementalInv'
      /\ \A y \in writers' : cut[y.episode] # "overlapped" /\ y.episode # w.episode => Saved(y)'
      /\ \A i \in Episode \ {w.episode} : cut[i] = "no" => Settled(i)'
  <2>1. \A y \in writers' : \/ y \in writers /\ y # w
                            \/ /\ y \in Worker /\ y.episode = w.episode /\ y.gen = w.gen
                               /\ y.run = w.run /\ y.mode = w.mode
    BY <1>6, <1>7
  <2>2. \A y, z \in writers' : y \notin writers \ {w} /\ z \notin writers \ {w} => y = z
    BY <1>7
  <2>3. rows' \in [Episode -> {"none"} \cup CompletedStatus \cup FailureStatus]
    BY <1>7 DEF IInv, Shape
  <2> QED  BY <1>4, <1>7, <2>1, <2>2, <2>3, SavedElsewhere
<1>9. /\ disk'[w.episode][f] = c
      /\ \A g \in File \ {f} : disk'[w.episode][g] = disk[w.episode][g]
  BY <1>0, <1>4, <1>7, Stored DEF IInv
<1>10. /\ w.objects \in BOOLEAN /\ v.objects \in BOOLEAN
       /\ v.objects => w.objects
       /\ f \notin {"mask_qc", "masks"} \/ w.gripper # "none" => v.objects = w.objects
       /\ f = "gripper_files" <=> v.gripper # w.gripper
  BY <1>0, <1>1, <1>2 DEF Worker, Verdict
<1>11. /\ cut[w.episode] # "overlapped" => Saved(w)
       /\ cut[w.episode] # "overlapped" => \A y \in On(w.episode)' : y = x
  <2>1. cut[w.episode] # "overlapped" => \A y \in writers : y.episode = w.episode => y = w
    BY <1>0 DEF IInv, Alone, On
  <2> QED  BY <1>7, <2>1 DEF IInv, SavedInv, On
<1>12. ASSUME cut[w.episode] # "overlapped" PROVE Saved(x)'
  <2> SUFFICES LET d == disk'[w.episode]
               IN  /\ x.pc > 1 => d["plan"].gen = x.gen
                   /\ x.pc > 2 => d["mask_qc"].gen = x.gen /\ (x.objects => d["mask_qc"].objects)
                   /\ x.pc > 3 => d["masks"].gen = x.gen
                   /\ x.pc > 4 => /\ d["run_manifest"].gen = x.gen
                                  /\ d["run_manifest"].objects <=> x.objects
                   /\ x.pc \in 5..7 => d["run_manifest"].gripper = "none"
                   /\ x.pc <= 5 => x.gripper = "none"
                   /\ x.pc > 5 => /\ x.mode = "full" /\ x.objects /\ x.gripper # "none"
                                  /\ d["gripper_files"].gen = x.gen
                                  /\ d["gripper_files"].gripper = x.gripper
                   /\ x.pc > 6 => d["masks"].gripper = x.gripper
                   /\ x.pc > 7 => d["run_manifest"].gripper = x.gripper
    BY <1>6 DEF Saved
  <2>0. Saved(w) /\ w.pc \in 1..7
    BY <1>6, <1>11, <1>12
  <2> USE DEF File
  <2>1. CASE w.pc = 1
    BY <1>4, <1>6, <1>9, <1>10, <2>0, <2>1 DEF Saved
  <2>2. CASE w.pc = 2
    BY <1>4, <1>6, <1>9, <1>10, <2>0, <2>2 DEF Saved
  <2>3. CASE w.pc = 3
    BY <1>4, <1>6, <1>9, <1>10, <2>0, <2>3 DEF Saved
  <2>4. CASE w.pc = 4
    BY <1>4, <1>6, <1>9, <1>10, <2>0, <2>4 DEF Saved
  <2>5. CASE w.pc = 5
    BY <1>4, <1>6, <1>9, <1>10, <2>0, <2>5 DEF Saved
  <2>6. CASE w.pc = 6
    BY <1>4, <1>6, <1>9, <1>10, <2>0, <2>6 DEF Saved
  <2>7. CASE w.pc = 7
    BY <1>4, <1>6, <1>9, <1>10, <2>0, <2>7 DEF Saved
  <2>8. w.pc \in {1, 2, 3, 4, 5, 6, 7}
    BY <2>0
  <2> QED  BY <2>1, <2>2, <2>3, <2>4, <2>5, <2>6, <2>7, <2>8
<1>13. SavedInv'
  <2> SUFFICES ASSUME NEW y \in writers', cut[y.episode] # "overlapped" PROVE Saved(y)'
    BY <1>7 DEF SavedInv
  <2>1. CASE y.episode = w.episode
    <3>1. y = x
      BY <1>11, <2>1 DEF On
    <3> QED  BY <1>6, <1>12, <3>1
  <2> QED  BY <1>8, <2>1
<1>14. ASSUME cut[w.episode] = "no" PROVE Settled(w.episode)'
  <2>0. /\ Saved(w) /\ Saved(x)' /\ Settled(w.episode) /\ w.pc \in 1..7
        /\ w \in On(w.episode)
        /\ \A y \in On(w.episode)' : y = x
    BY <1>0, <1>6, <1>11, <1>12, <1>14 DEF IInv, SettledInv, On
  <2>1. CASE w.pc <= 3
    <3>1. ~disk[w.episode]["run_manifest"].objects
      BY <2>0, <2>1 DEF Settled
    <3>2. f # "run_manifest" /\ "run_manifest" \in File
      BY <1>6, <2>0, <2>1 DEF File
    <3>3. ~disk'[w.episode]["run_manifest"].objects
      BY <1>9, <3>1, <3>2
    <3> QED  BY <3>3 DEF Settled
  <2>2. CASE w.pc > 3
    <3>1. x.pc > 4 /\ x.pc \in 5..8 /\ (x.pc # 8 => x.pc \in 5..7) /\ (x.pc = 8 => x.pc > 7)
      BY <1>6, <2>0, <2>2
    <3> DEFINE d == disk'[w.episode]
    <3>2. /\ d["plan"].gen = x.gen /\ d["mask_qc"].gen = x.gen
          /\ x.objects => d["mask_qc"].objects
          /\ d["masks"].gen = x.gen /\ d["run_manifest"].gen = x.gen
          /\ d["run_manifest"].objects <=> x.objects
      BY <1>6, <2>0, <3>1 DEF Saved
    <3>3. /\ x.pc # 8 => d["run_manifest"].gripper = "none"
          /\ x.pc = 8 => /\ d["gripper_files"].gen = x.gen
                         /\ d["masks"].gripper = x.gripper
                         /\ d["run_manifest"].gripper = x.gripper
      BY <1>6, <2>0, <3>1 DEF Saved
    <3>4. HasMasks(w.episode)'
      <4>1. x.gen # 0 /\ Absent.gen = 0
        <5>1. w.gen \in 1..gen[w.episode] /\ gen[w.episode] \in Nat
          BY <1>0 DEF IInv, Begotten, Shape
        <5> QED  BY <1>6, <5>1 DEF Absent
      <4> QED  BY <3>2, <4>1 DEF HasMasks
    <3>5. d["run_manifest"].objects => ObjectsComplete(w.episode)'
      BY <3>2, <3>4 DEF ObjectsComplete
    <3>6. Whole(w.episode, {"plan", "mask_qc", "masks", "run_manifest"})'
      BY <3>2 DEF Whole
    <3>7. x.pc = 8 => Whole(w.episode, File)'
      BY <3>2, <3>3 DEF Whole, File
    <3> QED  BY <2>0, <3>1, <3>3, <3>5, <3>6, <3>7 DEF Settled
  <2> QED  BY <2>0, <2>1, <2>2
<1>15. SettledInv'
  BY <1>7, <1>8, <1>14 DEF SettledInv
<1> QED  BY <1>8, <1>13, <1>15 DEF IInv

LEMMA QwenFailsKeeps ==
    ASSUME IInv, NEW w \in writers, QwenFails(w)
    PROVE  IInv'
<1>0. /\ w \in Worker /\ w.episode \in Episode /\ w.gen \in Nat /\ w.pc = 1
      /\ rows \in [Episode -> {"none"} \cup CompletedStatus \cup FailureStatus]
  BY DEF IInv, Shape, Worker, QwenFails
<1>1. PICK c : c = [gen |-> w.gen, objects |-> FALSE, gripper |-> "none"]
  OBVIOUS
<1>2. c \in Kept /\ c.gen = w.gen /\ "plan" \in File
  BY <1>0, <1>1 DEF Kept, Gripper, File
<1>3. /\ Store(w.episode, "plan", c) /\ writers' = writers \ {w}
      /\ rows' = [rows EXCEPT ![w.episode] = "failed"]
      /\ UNCHANGED <<at, runs, options, gen, receipt, summary, cut>>
  BY <1>1 DEF QwenFails, Row, run
<1>4. /\ rows' \in [Episode -> {"none"} \cup CompletedStatus \cup FailureStatus]
      /\ \A i \in Episode : rows'[i] \in CompletedStatus => rows[i] \in CompletedStatus
      /\ \A i \in Episode \ {w.episode} : rows'[i] = rows[i]
  BY <1>0, <1>3 DEF CompletedStatus, FailureStatus
<1>5. /\ Shape' /\ Alone' /\ Begotten' /\ RowsInv' /\ SummaryInv' /\ IncrementalInv'
      /\ \A y \in writers' : cut[y.episode] # "overlapped" /\ y.episode # w.episode => Saved(y)'
      /\ \A i \in Episode \ {w.episode} : cut[i] = "no" => Settled(i)'
  <2>1. \A y \in writers' : y \in writers /\ y # w
    BY <1>3
  <2> QED  BY <1>2, <1>3, <1>4, <2>1, SavedElsewhere
<1>6. cut[w.episode] # "overlapped" => \A y \in writers' : y.episode # w.episode
  BY <1>0, <1>3 DEF IInv, Alone, On
<1>7. SavedInv'
  BY <1>3, <1>5, <1>6 DEF SavedInv
<1>8. cut[w.episode] = "no" => Settled(w.episode)'
  <2> SUFFICES ASSUME cut[w.episode] = "no" PROVE Settled(w.episode)'
    OBVIOUS
  <2>1. Settled(w.episode) /\ w \in On(w.episode)
    BY <1>0 DEF IInv, SettledInv, On
  <2>2. ~disk[w.episode]["run_manifest"].objects
    BY <1>0, <2>1 DEF Settled
  <2>3. disk'[w.episode]["run_manifest"] = disk[w.episode]["run_manifest"]
    BY <1>0, <1>2, <1>3, Stored DEF IInv, File
  <2> QED  BY <2>2, <2>3 DEF Settled
<1>9. SettledInv'
  BY <1>3, <1>5, <1>8 DEF SettledInv
<1> QED  BY <1>5, <1>7, <1>9 DEF IInv

-----------------------------------------------------------------------------
(* The theorems *)

LEMMA InitIInv == Init => IInv
<1> SUFFICES ASSUME Init PROVE IInv
  OBVIOUS
<1> USE DEF Init
<1>1. Absent \in Kept /\ NoFiles \in [File -> Kept]
  BY DEF Absent, NoFiles, Kept, Gripper
<1>2. options \in Options /\ ~options.incremental
  BY DEF Options, Mode
<1>3. /\ summary.by = [e \in Episode |-> 0] /\ ~summary.passed
      /\ summary \in [by : [Episode -> Nat], mode : Mode, passed : BOOLEAN]
  BY DEF NoSummary, Mode
<1>4. Shape
  BY <1>1, <1>2, <1>3 DEF Shape
<1>5. Alone /\ SavedInv
  BY DEF Alone, SavedInv, On
<1>6. \A e \in Episode, f \in File : disk[e][f] = Absent
  BY DEF NoFiles
<1>7. Begotten
  BY <1>3, <1>6 DEF Begotten, Mine
<1>8. SettledInv
  <2>1. ~Absent.objects /\ "run_manifest" \in File
    BY DEF Absent, File
  <2> QED  BY <1>6, <2>1 DEF SettledInv, Settled
<1>9. RowsInv /\ SummaryInv
  BY <1>3 DEF RowsInv, SummaryInv, CompletedStatus
<1>10. IncrementalInv
  BY <1>2 DEF IncrementalInv, Pristine
<1> QED  BY <1>4, <1>5, <1>7, <1>8, <1>9, <1>10 DEF IInv

LEMMA FailuresKeep ==
    ASSUME IInv, NEW w \in writers, Fails(w) \/ Lost(w) \/ OrphanEnds(w)
    PROVE  IInv'
<1>0. /\ rows \in [Episode -> {"none"} \cup CompletedStatus \cup FailureStatus]
      /\ w.episode \in Episode /\ On(w.episode) # {}
  BY DEF IInv, Shape, Worker, On
<1>1. /\ writers' \subseteq writers
      /\ UNCHANGED <<at, runs, options, gen, disk, receipt, summary, cut>>
  BY DEF Fails, Lost, OrphanEnds, run, artifacts
<1>2. /\ rows' \in [Episode -> {"none"} \cup CompletedStatus \cup FailureStatus]
      /\ \A i \in Episode : rows'[i] = rows[i] \/ rows'[i] \in FailureStatus
      /\ \A i \in Episode : rows[i] # "none" /\ i # w.episode => rows'[i] = rows[i]
  <2>1. CASE Fails(w)
    <3>1. rows' = [AfterFatal(fatal') EXCEPT ![w.episode] = "failed"]
      BY <2>1 DEF Fails
    <3>2. PICK b : b = AfterFatal(fatal')
      OBVIOUS
    <3>3. /\ b \in [Episode -> {"none"} \cup CompletedStatus \cup FailureStatus]
          /\ \A i \in Episode : b[i] = rows[i] \/ (b[i] \in FailureStatus /\ rows[i] = "none")
      BY <1>0, <3>2 DEF AfterFatal, FailureStatus
    <3>4. rows' = [b EXCEPT ![w.episode] = "failed"] /\ "failed" \in FailureStatus
      BY <3>1, <3>2 DEF FailureStatus
    <3> QED  BY <1>0, <3>3, <3>4
  <2>2. CASE Lost(w)
    <3>1. rows' = rows \/ rows' = [rows EXCEPT ![w.episode] = "failed"]
      BY <2>2 DEF Lost, Row
    <3> QED  BY <1>0, <3>1 DEF FailureStatus
  <2>3. CASE OrphanEnds(w)
    BY <1>0, <2>3 DEF OrphanEnds
  <2> QED  BY <2>1, <2>2, <2>3
<1>3. \A i \in Episode : rows'[i] \in CompletedStatus => rows[i] \in CompletedStatus
  BY <1>2 DEF CompletedStatus, FailureStatus
<1>4. \A i \in Episode : rows[i] \in CompletedStatus /\ On(i) = {} => rows'[i] = rows[i]
  BY <1>0, <1>2 DEF CompletedStatus
<1> QED  BY <1>1, <1>2, <1>3, <1>4, RowsOnly

LEMMA NoWorkerLeftKeeps ==
    ASSUME IInv, NoWorkerLeft
    PROVE  IInv'
<1>1. /\ writers' \subseteq writers
      /\ UNCHANGED <<at, runs, options, gen, disk, receipt, summary, cut>>
      /\ rows' = [e \in Episode |-> IF rows[e] = "none" THEN "not_run_no_healthy_sam_worker" ELSE rows[e]]
  BY DEF NoWorkerLeft, run, artifacts
<1>2. /\ rows' \in [Episode -> {"none"} \cup CompletedStatus \cup FailureStatus]
      /\ \A i \in Episode : rows'[i] \in CompletedStatus => rows[i] \in CompletedStatus
      /\ \A i \in Episode : rows[i] \in CompletedStatus => rows'[i] = rows[i]
  BY <1>1 DEF IInv, Shape, CompletedStatus, FailureStatus
<1> QED  BY <1>1, <1>2, RowsOnly

LEMMA StutterKeeps == IInv /\ UNCHANGED vars => IInv'
<1> SUFFICES ASSUME IInv, UNCHANGED vars PROVE IInv'
  OBVIOUS
<1>1. /\ writers' \subseteq writers
      /\ UNCHANGED <<at, runs, options, rows, gen, disk, receipt, summary, cut>>
  BY DEF vars, run, artifacts
<1> QED  BY <1>1, RowsOnly DEF IInv, Shape

\* The invariant holds of every sequence of runs, crashes and repeated,
\* overlapping or orphaned executions.
THEOREM SamRunInvariant == Spec => []IInv
<1>1. IInv /\ [Next]_vars => IInv'
  <2> SUFFICES ASSUME IInv, [Next]_vars PROVE IInv'
    OBVIOUS
  <2>1. CASE HealthFails \/ LoadFails \/ Interrupt \/ Crash
    <3>1. writers \ Mine \in SUBSET writers /\ writers \in SUBSET writers
      BY DEF Mine
    <3>2. \E end \in {"raised", "crashed"}, still \in SUBSET writers :
              Leave(end, still) /\ at \in {"scan", "episodes"}
      BY <2>1, <3>1 DEF HealthFails, LoadFails, Interrupt, Crash
    <3> QED  BY <3>2, LeaveKeeps
  <2>2. CASE Start \/ Scan \/ NoWorkerLeft \/ Summarise
    BY <2>2, StartKeeps, ScanKeeps, NoWorkerLeftKeeps, SummariseKeeps
  <2>3. CASE \E e \in Episode : Begin(e)
    BY <2>3, BeginKeeps
  <2>4. CASE \E w \in writers : Write(w) \/ QwenFails(w) \/ Fails(w) \/ Finish(w) \/ Lost(w)
                               \/ OrphanEnds(w)
    BY <2>4, WriteKeeps, QwenFailsKeeps, FailuresKeep, FinishKeeps
  <2> QED  BY <2>1, <2>2, <2>3, <2>4, StutterKeeps DEF Next
<1> QED  BY InitIInv, <1>1, PTL DEF Spec

\* However many runs are started and however they end, what a later run skips
\* is the work of one execution, unless the episode was cut into: the files of
\* an execution are renamed one by one, the manifest last.
THEOREM SkippedWorkIsWhole == Spec => []CompleteIsWhole
<1>1. IInv => CompleteIsWhole
  <2> SUFFICES ASSUME IInv, NEW e \in Episode, cut[e] = "no"
               PROVE  /\ ObjectsComplete(e) => Whole(e, {"plan", "mask_qc", "masks", "run_manifest"})
                      /\ GripperComplete(e) => Whole(e, File) /\ disk[e]["masks"].gripper = "good"
    BY DEF CompleteIsWhole
  <2>1. Settled(e)
    BY DEF IInv, SettledInv
  <2> QED  BY <2>1 DEF Settled, ObjectsComplete, GripperComplete
<1> QED  BY SamRunInvariant, <1>1, PTL

\* A summary calls complete what the next resume scan skips, until an episode
\* is begun again; a run that passed has completed every episode.
THEOREM SummaryAgreesWithDisk == Spec => []SummaryIsTrue
<1>1. IInv => SummaryIsTrue
  BY DEF IInv, SummaryInv, SummaryIsTrue
<1> QED  BY SamRunInvariant, <1>1, PTL

\* From its receipt on nobody writes into an episode of an incremental source.
THEOREM ReceiptsFreeze == Spec => []ReceiptFreezesEpisode
<1>1. IInv => ReceiptFreezesEpisode
  BY DEF IInv, IncrementalInv, ReceiptFreezesEpisode, On
<1> QED  BY SamRunInvariant, <1>1, PTL

=============================================================================
