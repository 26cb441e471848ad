----------------------------- MODULE UrdfRunProofs -----------------------------
(***************************************************************************)
(* What UrdfRun claims of the files of a run, for any number of episodes,  *)
(* configurations, starts, kills and changes of the source.                *)
(***************************************************************************)
EXTENDS UrdfRun, WellFoundedInduction, TLAPS

Backend == phase \in {"scan", "render"} \/ (phase = "source" /\ job.mode = "streaming")
Running ==
    \/ Backend
    \/ phase \in {"publish", "validate", "close"}
    \/ phase = "select" /\ job.mode = "streaming"

\* A version is as new as the changes made; no summary before the source is made.
SourceVersions ==
    /\ \A e \in Episode : src.masks[e] <= changes + 1 /\ src.other[e] <= changes + 1
    /\ \A e \in Episode : loose[e] <= changes + 1
    /\ src.summary <= changes + 1
    /\ ~src.made => src.summary = 0

\* Without a manifest there is nothing of the run; with one, only the episodes it
\* selects have a plan.
DirectoryInOrder ==
    /\ man.config = NoConfig => man = NoManifest
    /\ ~made => man.config = NoConfig
    /\ man.config = NoConfig => \A e \in Episode : bdir[e] = NoDir /\ cdir[e] = NoTree
    /\ \A e \in Episode : man.plan[e] # None => e \in man.sel

\* What the workflow holds in memory, by the phase it is in.
JobInOrder ==
    /\ phase = "idle" => AtRest
    /\ phase # "idle" => job.config # NoConfig
    /\ job.mode = "streaming" => ~job.resume
    /\ phase \in {"source", "select"} => ~job.resume
    /\ phase = "contract" => todo = {} /\ made /\ man.config = NoConfig
    /\ phase = "plan" /\ job.resume => man.config # NoConfig
    /\ phase \in {"plan", "contract"} => todo \subseteq job.sel
    /\ phase \in {"plan", "contract"} /\ job.mode = "streaming" => todo = {} /\ job.sel = Episode
    /\ phase \in {"scan", "render"} => todo \subseteq job.sel /\ job.mode # "streaming"

\* Plans are made of the episodes selected, or one by one as the source goes on.
PlansInOrder ==
    /\ phase \in {"plan", "contract"} /\ job.mode # "streaming" =>
          \A e \in Episode : plan[e] # None <=> e \in job.sel \ todo
    /\ phase \in {"plan", "contract"} /\ job.mode = "streaming" => plan = Nobody
    /\ phase \in {"source", "select"} /\ job.mode # "streaming" => plan = Nobody
    /\ phase \in {"scan", "render"} => \A e \in job.sel : plan[e] # None

\* The manifest on disk is the one of the run that goes on.
ManifestIsOurs ==
    /\ Running => man.config = job.config /\ man.plan = plan
    /\ Backend => man.status = "running"
    /\ phase = "source" /\ job.mode = "streaming" => man.sel = Episode

Stands(e) == bdir[e] # NoDir /\ bdir[e].config = man.config /\ man.plan[e] # None

\* Records in memory stand as well as those on disk.
RecordsStand ==
    /\ \A e \in Episode : man.rec[e] = "complete" => Stands(e)
    /\ Running => \A e \in Episode : rec[e] = "complete" => Stands(e)
    /\ man.status = "complete" => \A e \in man.sel : man.rec[e] = "complete"

Untouched(e) == plan[e] = None /\ bdir[e] = NoDir

\* Of a source that streams, what is still to come was never planned or rendered,
\* and is announced once.
StreamInOrder ==
    /\ job.mode # "streaming" => ready = <<>>
    /\ phase # "source" => ready = <<>>
    /\ \A i, k \in DOMAIN ready : ready[i] = ready[k] => i = k
    /\ phase = "source" =>
          /\ ~src.made => todo = {} /\ ready = <<>> /\ \A e \in Episode : Untouched(e)
          /\ \A e \in todo : Untouched(e) /\ \A i \in DOMAIN ready : ready[i] # e
          /\ \A i \in DOMAIN ready : i > 1 \/ temp.step = "idle" => Untouched(ready[i])
          /\ temp.step # "idle" => ready # <<>> /\ temp.episode = ready[1]

\* The episode in hand.
HandInOrder ==
    /\ temp.step # "idle" => phase \in {"source", "render", "publish"}
    /\ temp.step = "planned" => phase = "source"
    /\ temp.step \in {"planned", "rendering"} =>
          plan[temp.episode] # None /\ bdir[temp.episode] = NoDir
    /\ phase = "render" =>
          /\ temp.step # "idle" => temp.episode \in todo
          /\ \A e \in todo : bdir[e] = NoDir \/ (temp.step = "rendered" /\ e = temp.episode)
    /\ phase = "publish" => temp.step \in {"idle", "staging"}
    /\ temp.step = "staging" =>
          /\ phase = "publish"
          /\ temp.read # None
          /\ temp.read = plan[temp.episode]
          /\ temp.read = job.frozen[temp.episode]
          /\ bdir[temp.episode] = [masks |-> temp.read.masks, config |-> job.config]

TreesStand ==
    \A e \in Episode : cdir[e] # NoTree =>
        /\ cdir[e].lineage = man.plan[e]
        /\ cdir[e].masks = cdir[e].lineage.masks
        /\ bdir[e] = [masks |-> cdir[e].masks, config |-> man.config]
        /\ cdir[e].config = man.config
        /\ cdir[e].lineage # None

\* A file that is linked is the file of the source; where there is no tree there
\* are no files.
LinksAreShared ==
    \A e \in Episode :
        /\ cdir[e] = NoTree => beside[e] = NoFiles
        /\ beside[e].other.linked => beside[e].other.version = src.other[e]
        /\ beside[e].loose.linked => beside[e].loose.version = loose[e]

\* The files of the tree are those the lineage names, but for what was written
\* through a link.
Kept(e, lineage) == beside[e].other.version = lineage.other \/ beside[e].other.edited

Ok == {"completed", "skipped_complete"}

\* A row is written once per episode; what it says of the tree holds, and after the
\* validation so does what it leaves unsaid.
RowsInOrder ==
    /\ phase \notin {"publish", "validate", "close"} => \A e \in Episode : rows[e] = "none"
    /\ phase \notin {"validate", "close"} => \A e \in Episode : late[e] = "none"
    /\ phase = "publish" => \A e \in job.sel : e \in todo \/ rows[e] # "none"
    /\ phase \in {"validate", "close"} => \A e \in job.sel : rows[e] # "none"
    /\ \A e \in Episode : rows[e] \in Ok =>
          cdir[e] # NoTree /\ cdir[e].lineage = job.frozen[e]
    /\ phase \in {"validate", "close"} /\ ~job.skipRender =>
          \A e \in job.sel : /\ rows[e] \in Ok
                             /\ late[e] = "none"
                             /\ phase = "validate" => e \notin todo
                             => Kept(e, job.frozen[e])

IInv ==
    /\ TypeOK
    /\ SourceVersions
    /\ DirectoryInOrder
    /\ JobInOrder
    /\ PlansInOrder
    /\ ManifestIsOurs
    /\ RecordsStand
    /\ StreamInOrder
    /\ HandInOrder
    /\ TreesStand
    /\ LinksAreShared
    /\ RowsInOrder
    /\ PassedMeansPublished

-----------------------------------------------------------------------------
(* Types *)

LEMMA FirstIsIn == ASSUME NEW S \in SUBSET Episode, S # {} PROVE First(S) \in S
<1>1. S \subseteq Nat
  BY UrdfRunAssumption DEF Episode
<1> DEFINE less == OpToRel(<, Nat)
<1>2. IsWellFoundedOn(less, Nat)
  BY NatLessThanWellFounded
<1>3. \A x, y \in Nat : <<y, x>> \notin less => x <= y
  BY DEF OpToRel
<1> HIDE DEF less
<1>4. PICK x \in S : \A y \in S : ~(<<y, x>> \in less)
  BY <1>1, <1>2, WFMin
<1>5. \A y \in S : x <= y
  BY <1>1, <1>3, <1>4
<1> QED  BY <1>5 DEF First

LEMMA Constants ==
    /\ MaxVersion \in Nat /\ 0 \in Version /\ 1 \in Version
    /\ NoConfig \in Config /\ 1 \in Episode
    /\ None \in Lineage /\ Nobody \in [Episode -> Lineage]
    /\ NoRecords \in [Episode -> Status]
    /\ NoDir \in Rendered /\ NoTree \in Tree /\ NoFiles \in Beside
<1>1. MaxVersion \in Nat /\ 0 \in Version /\ 1 \in Version
  BY UrdfRunAssumption DEF MaxVersion, Version
<1>2. NoConfig \in Config /\ 1 \in Episode
  BY UrdfRunAssumption DEF NoConfig, Config, Episode
<1>3. None \in Lineage
  BY <1>1 DEF None, Lineage
<1>4. NoDir \in Rendered /\ NoTree \in Tree
  BY <1>1, <1>2, <1>3 DEF NoDir, NoTree, Rendered, Tree
<1>5. NoFiles \in Beside
  BY <1>1 DEF NoFiles, NoFile, Beside, File
<1> QED  BY <1>1, <1>2, <1>3, <1>4, <1>5 DEF Nobody, NoRecords, Status

LEMMA Nothing ==
    NoManifest \in Manifest /\ NoSummary \in Summary /\ NoJob \in Job
<1>1. NoManifest \in Manifest
  BY Constants DEF NoManifest, Manifest
<1>2. NoSummary \in Summary
  BY Constants DEF NoSummary, Summary
<1>3. NoJob \in Job
  BY Constants DEF NoJob, Job
<1> QED  BY <1>1, <1>2, <1>3

\* The types of what the workflow holds in memory.
MemoryTypes ==
    /\ phase \in {"idle", "source", "select", "plan", "contract", "scan", "render",
                  "publish", "validate", "close"}
    /\ job \in Job
    /\ plan \in [Episode -> Lineage]
    /\ rec \in [Episode -> Status]
    /\ todo \subseteq Episode
    /\ ready \in Seq(Episode)
    /\ temp \in [step : {"idle", "planned", "rendering", "rendered", "staging"},
                 episode : Episode, read : Lineage]
    /\ rows \in [Episode -> Row]
    /\ late \in [Episode -> Late]
    /\ errors \subseteq {"backend", "render"}

LEMMA RestTypes == AtRest => MemoryTypes
<1> SUFFICES ASSUME AtRest PROVE MemoryTypes
  OBVIOUS
<1>1. temp \in [step : {"idle", "planned", "rendering", "rendered", "staging"},
                episode : Episode, read : Lineage]
  BY Constants DEF AtRest, Idle
<1>2. job \in Job
  BY Nothing DEF AtRest
<1> QED  BY <1>1, <1>2, Constants DEF AtRest, MemoryTypes, Row, Late

LEMMA LeaveRests == Leave => AtRest'
BY DEF Leave, AtRest

LEMMA LineageTypes ==
    ASSUME TypeOK
    PROVE  /\ \A e \in Episode : LineageOf(e) \in Lineage
           /\ \A S \in SUBSET Episode : FrozenLineages(S) \in [Episode -> Lineage]
           /\ Selectable \in SUBSET Episode
<1>1. \A e \in Episode : LineageOf(e) \in Lineage
  BY Constants DEF TypeOK, LineageOf, Lineage
<1>2. Selectable \in SUBSET Episode
  BY DEF Selectable
<1> QED  BY <1>1, <1>2, Constants DEF FrozenLineages

DiskTypes ==
    /\ made \in BOOLEAN
    /\ man \in Manifest
    /\ bdir \in [Episode -> Rendered]
    /\ cdir \in [Episode -> Tree]
    /\ beside \in [Episode -> Beside]
    /\ summary \in Summary

SourceTypes ==
    /\ kind \in {"frozen", "live"}
    /\ src \in [made : BOOLEAN, masks : [Episode -> Version], other : [Episode -> Version],
                receipt : [Episode -> Version \X Version], summary : Version,
                listed : SUBSET Episode]
    /\ loose \in [Episode -> Version]

BoundTypes == runs \in 0..MaxRuns /\ crashes \in 0..MaxCrashes /\ changes \in 0..MaxChanges

LEMMA TypeParts == TypeOK <=> SourceTypes /\ DiskTypes /\ MemoryTypes /\ BoundTypes
BY DEF TypeOK, SourceTypes, DiskTypes, MemoryTypes, BoundTypes

LEMMA CheckpointTypes ==
    ASSUME TypeOK, NEW p \in [Episode -> Lineage], NEW r \in [Episode -> Status],
           NEW s \in {"running", "failed", "complete", man.status}, Checkpoint(p, r, s)
    PROVE  man' \in Manifest
<1>1. man.config \in Config /\ man.sel \in SUBSET Episode
      /\ man.status \in {"none", "running", "failed", "complete"}
  BY DEF TypeOK, Manifest
<1> QED  BY <1>1 DEF Checkpoint, Manifest

LEMMA SourceStepTypes ==
    ASSUME TypeOK, SourceVersions, [Next]_vars
    PROVE  SourceTypes' /\ SourceVersions'
<1> DEFINE Versions == [Episode -> Version]
<1>0. /\ SourceTypes
      /\ src.masks \in Versions /\ src.other \in Versions /\ src.summary \in Version
      /\ src.receipt \in [Episode -> Version \X Version]
      /\ src.listed \in SUBSET Episode /\ src.made \in BOOLEAN
  BY TypeParts DEF SourceTypes
<1>1. ASSUME NEW mm \in Versions, NEW oo \in Versions, NEW n \in Version,
             NEW r \in [Episode -> Version \X Version], NEW l \in SUBSET Episode,
             src' = Source(mm, oo, r, n, l), UNCHANGED <<kind, loose>>, changes' \in Nat,
             changes <= changes',
             \A e \in Episode : mm[e] <= changes' + 1 /\ oo[e] <= changes' + 1,
             n <= changes' + 1
      PROVE  SourceTypes' /\ SourceVersions'
  <2>1. \A e \in Episode : loose'[e] <= changes' + 1
    <3>1. \A e \in Episode : loose[e] \in Nat /\ loose[e] <= changes + 1
      BY <1>0, Constants DEF SourceVersions, SourceTypes, Version
    <3> QED  BY <1>1, <3>1 DEF TypeOK
  <2> QED  BY <1>0, <1>1, <2>1 DEF Source, SourceTypes, SourceVersions
<1>2. changes \in Nat /\ changes <= MaxChanges /\ MaxVersion = MaxChanges + 1 /\ MaxChanges \in Nat
  BY UrdfRunAssumption DEF TypeOK, MaxVersion
<1>3. CASE OpenSource
  <2>1. /\ src' = Source(src.masks, src.other, src.receipt, src.summary, src.listed)
        /\ UNCHANGED <<kind, loose, changes>>
    BY <1>3 DEF OpenSource, bounds
  <2>2. changes' \in Nat /\ changes <= changes'
    BY <1>2, <2>1
  <2>3. /\ \A e \in Episode : src.masks[e] <= changes' + 1 /\ src.other[e] <= changes' + 1
        /\ src.summary <= changes' + 1
    BY <2>1 DEF SourceVersions
  <2> QED  BY <1>0, <1>1, <2>1, <2>2, <2>3
<1>4. CASE \E e \in Episode : SourceEpisode(e)
  <2>1. PICK e \in Episode : SourceEpisode(e)
    BY <1>4
  <2>2. CASE UNCHANGED src
    BY <1>0, <2>1, <2>2 DEF SourceEpisode, bounds, SourceTypes, SourceVersions
  <2>3. CASE ~UNCHANGED src
    <3> DEFINE mm == [src.masks EXCEPT ![e] = 1]
               oo == [src.other EXCEPT ![e] = 1]
               rr == [src.receipt EXCEPT ![e] = <<1, 1>>]
    <3>1. mm \in Versions /\ oo \in Versions /\ rr \in [Episode -> Version \X Version]
      BY <1>0, Constants
    <3>2. /\ \A f \in Episode : mm[f] <= changes + 1 /\ oo[f] <= changes + 1
          /\ src.summary <= changes + 1
      BY <1>0, <1>2 DEF SourceVersions
    <3>3. /\ src' = Source(mm, oo, rr, src.summary, src.listed)
          /\ UNCHANGED <<kind, loose, changes>>
      BY <2>1, <2>3 DEF SourceEpisode, bounds
    <3> HIDE DEF mm, oo, rr
    <3>4. /\ changes' \in Nat /\ changes <= changes' /\ src.summary <= changes' + 1
          /\ \A f \in Episode : mm[f] <= changes' + 1 /\ oo[f] <= changes' + 1
      BY <1>2, <3>2, <3>3
    <3> QED  BY <1>0, <1>1, <3>1, <3>3, <3>4
  <2> QED  BY <2>2, <2>3
<1>5. CASE CloseSource
  <2>1. 1 <= changes + 1 /\ {e \in Episode : src.masks[e] > 0} \in SUBSET Episode
    BY <1>2
  <2>2. /\ src' = Source(src.masks, src.other, src.receipt, 1, {e \in Episode : src.masks[e] > 0})
        /\ UNCHANGED <<kind, loose, changes>>
    BY <1>5 DEF CloseSource, bounds
  <2>3. changes' \in Nat /\ changes <= changes' /\ 1 <= changes' + 1 /\ 1 \in Version
    BY <1>2, <2>2, Constants
  <2>4. \A e \in Episode : src.masks[e] <= changes' + 1 /\ src.other[e] <= changes' + 1
    BY <2>2 DEF SourceVersions
  <2> QED  BY <1>0, <1>1, <2>1, <2>2, <2>3, <2>4
<1>6. CASE ChangeSource
  <2>1. /\ changes' = changes + 1 /\ changes' \in Nat /\ changes' <= MaxChanges /\ UNCHANGED kind
        /\ changes <= changes'
    BY <1>2, <1>6, UrdfRunAssumption DEF ChangeSource
  <2>2. \A x \in Version : x <= changes + 1 => x + 1 \in Version /\ x + 1 <= changes' + 1
                                               /\ x <= changes' + 1
    BY <1>2, <2>1 DEF Version
  <2>3. ASSUME NEW e \in Episode, ChangeMasks(e)
        PROVE  SourceTypes' /\ SourceVersions'
    <3>1. [src.masks EXCEPT ![e] = @ + 1] \in Versions
      BY <1>0, <2>2 DEF SourceVersions
    <3>2. \A f \in Episode : /\ [src.masks EXCEPT ![e] = @ + 1][f] <= changes' + 1
                             /\ src.other[f] <= changes' + 1
      BY <1>0, <2>2 DEF SourceVersions
    <3>3. /\ src' = Source([src.masks EXCEPT ![e] = @ + 1], src.other, src.receipt, src.summary,
                           src.listed)
          /\ UNCHANGED loose
      BY <2>3 DEF ChangeMasks
    <3> QED  BY <1>0, <1>1, <2>1, <2>2, <3>1, <3>2, <3>3 DEF SourceVersions
  <2>4. ASSUME NEW e \in Episode, ChangeOther(e)
        PROVE  SourceTypes' /\ SourceVersions'
    <3>1. [src.other EXCEPT ![e] = @ + 1] \in Versions
      BY <1>0, <2>2 DEF SourceVersions
    <3>2. \A f \in Episode : /\ [src.other EXCEPT ![e] = @ + 1][f] <= changes' + 1
                             /\ src.masks[f] <= changes' + 1
      BY <1>0, <2>2 DEF SourceVersions
    <3>3. /\ src' = Source(src.masks, [src.other EXCEPT ![e] = @ + 1], src.receipt, src.summary,
                           src.listed)
          /\ UNCHANGED loose
      BY <2>4 DEF ChangeOther
    <3>4. src.summary <= changes' + 1
      BY <1>0, <2>2 DEF SourceVersions
    <3> DEFINE oo == [src.other EXCEPT ![e] = @ + 1]
    <3>5. /\ oo \in Versions /\ src' = Source(src.masks, oo, src.receipt, src.summary, src.listed)
          /\ \A f \in Episode : src.masks[f] <= changes' + 1 /\ oo[f] <= changes' + 1
      BY <3>1, <3>2, <3>3
    <3> HIDE DEF oo
    <3> QED  BY <1>0, <1>1, <2>1, <3>3, <3>4, <3>5
  <2>5. ASSUME ChangeSummary
        PROVE  SourceTypes' /\ SourceVersions'
    <3>1. \A f \in Episode : src.masks[f] <= changes' + 1 /\ src.other[f] <= changes' + 1
      BY <1>0, <2>2 DEF SourceVersions
    <3>2. UNCHANGED loose
      BY <2>5 DEF ChangeSummary
    <3>3. PICK left \in SUBSET src.listed :
             src' = Source(src.masks, src.other, src.receipt, src.summary + 1, left)
      BY <2>5 DEF ChangeSummary
    <3>4. src.summary + 1 \in Version /\ src.summary + 1 <= changes' + 1 /\ left \in SUBSET Episode
      BY <1>0, <2>2 DEF SourceVersions
    <3> QED  BY <1>0, <1>1, <2>1, <3>1, <3>2, <3>3, <3>4
  <2>6. ASSUME NEW e \in Episode, ChangeLoose(e)
        PROVE  SourceTypes' /\ SourceVersions'
    <3>1. loose' = [loose EXCEPT ![e] = @ + 1] /\ UNCHANGED src
      BY <2>6 DEF ChangeLoose
    <3>2. \A f \in Episode : loose[f] \in Version /\ loose[f] <= changes + 1
      BY <1>0 DEF SourceTypes, SourceVersions
    <3>3. loose' \in Versions /\ \A f \in Episode : loose'[f] <= changes' + 1
      BY <1>0, <2>2, <3>1, <3>2 DEF SourceTypes
    <3>4. /\ \A f \in Episode : src.masks[f] <= changes' + 1 /\ src.other[f] <= changes' + 1
          /\ src.summary <= changes' + 1
      BY <1>0, <2>2 DEF SourceVersions
    <3> QED  BY <1>0, <2>1, <3>1, <3>3, <3>4 DEF SourceTypes, SourceVersions
  <2> QED  BY <1>6, <2>3, <2>4, <2>5, <2>6 DEF ChangeSource
<1>7. CASE UNCHANGED <<src, kind, loose, changes>>
  BY <1>0, <1>7 DEF SourceTypes, SourceVersions
<1>8. ~(OpenSource \/ (\E e \in Episode : SourceEpisode(e)) \/ CloseSource \/ ChangeSource)
      => UNCHANGED <<src, kind, loose, changes>>
  BY DEF Next, Start, StartLive, SelectLive, PlanEpisode, MakeRun, FirstManifest, ResumeManifest,
     ScanEpisode, FinishScan, PlanReady, BeginRender, FinishRender, SaveRecord, FinishBackend,
     FinishWorker, PreparePublish, FailPublish, PublishTree, SkipTree, FinishPublish,
     ValidateEpisode, RenderReview, WriteSummary, Crash, vars, bounds
<1> QED  BY <1>3, <1>4, <1>5, <1>6, <1>7, <1>8

\* What becomes of a file of a tree: it changes only with the source, and then that
\* is written down.
LEMMA AfterwardsFile ==
    ASSUME NEW f \in File, NEW v \in Version, NEW g \in Afterwards(f, v)
    PROVE  /\ g \in File
           /\ f.edited => g.edited
           /\ g.linked => f.linked /\ g.version = v
           /\ g.version # f.version => f.linked /\ g.version = v /\ g.edited
<1>1. \/ g = [version |-> f.version, linked |-> FALSE, edited |-> f.edited]
      \/ f.linked /\ g = [version |-> v, linked |-> TRUE, edited |-> TRUE]
  BY DEF Afterwards
<1>2. f.version \in Version /\ f.linked \in BOOLEAN /\ f.edited \in BOOLEAN
  BY DEF File
<1>3. CASE g = [version |-> f.version, linked |-> FALSE, edited |-> f.edited]
  <2>1. g \in File
    BY <1>2, <1>3 DEF File
  <2>2. g.version = f.version /\ g.linked = FALSE /\ g.edited = f.edited
    BY <1>3
  <2> QED  BY <2>1, <2>2
<1>4. CASE f.linked /\ g = [version |-> v, linked |-> TRUE, edited |-> TRUE]
  <2>1. g \in File
    BY <1>4 DEF File
  <2>2. g.version = v /\ g.linked = TRUE /\ g.edited = TRUE
    BY <1>4
  <2> QED  BY <1>4, <2>1, <2>2
<1> QED  BY <1>1, <1>3, <1>4

\* A change of the source, as the trees see it.
LEMMA ChangeOfFiles ==
    ASSUME TypeOK, SourceVersions, ChangeSource
    PROVE  \/ UNCHANGED <<beside, loose>> /\ src'.other = src.other
           \/ \E e \in Episode, v \in Version, f \in File :
                 /\ src'.other = [src.other EXCEPT ![e] = v]
                 /\ f \in Afterwards(beside[e].other, v)
                 /\ beside' = [beside EXCEPT ![e] = [other |-> f, loose |-> beside[e].loose]]
                 /\ UNCHANGED loose
           \/ \E e \in Episode, v \in Version, f \in File :
                 /\ loose' = [loose EXCEPT ![e] = v]
                 /\ f \in Afterwards(beside[e].loose, v)
                 /\ beside' = [beside EXCEPT ![e] = [other |-> beside[e].other, loose |-> f]]
                 /\ UNCHANGED src
<1>1. /\ changes < MaxChanges /\ changes \in Nat /\ MaxVersion = MaxChanges + 1 /\ MaxChanges \in Nat
      /\ src.other \in [Episode -> Version] /\ loose \in [Episode -> Version]
      /\ beside \in [Episode -> Beside]
  BY UrdfRunAssumption DEF ChangeSource, TypeOK, MaxVersion
<1>2. \A x \in Version : x <= changes + 1 => x + 1 \in Version
  BY <1>1 DEF Version
<1>3. ASSUME NEW e \in Episode, ChangeMasks(e)
      PROVE  UNCHANGED <<beside, loose>> /\ src'.other = src.other
  BY <1>3 DEF ChangeMasks, Source
<1>4. ASSUME NEW e \in Episode, ChangeOther(e)
      PROVE  \E v \in Version, f \in File :
                 /\ src'.other = [src.other EXCEPT ![e] = v]
                 /\ f \in Afterwards(beside[e].other, v)
                 /\ beside' = [beside EXCEPT ![e] = [other |-> f, loose |-> beside[e].loose]]
                 /\ UNCHANGED loose
  <2> DEFINE v == src.other[e] + 1
  <2>1. v \in Version /\ beside[e].other \in File
    BY <1>1, <1>2 DEF SourceVersions, Beside
  <2>2. src'.other = [src.other EXCEPT ![e] = v]
    BY <1>4 DEF ChangeOther, Source
  <2>3. PICK f \in Afterwards(beside[e].other, v) :
           beside' = [beside EXCEPT ![e] = [other |-> f, loose |-> beside[e].loose]]
    BY <1>4 DEF ChangeOther
  <2> HIDE DEF v
  <2>4. f \in File
    BY <2>1, <2>3, AfterwardsFile
  <2> QED  BY <1>4, <2>1, <2>2, <2>3, <2>4 DEF ChangeOther
<1>5. ASSUME NEW e \in Episode, ChangeLoose(e)
      PROVE  \E v \in Version, f \in File :
                 /\ loose' = [loose EXCEPT ![e] = v]
                 /\ f \in Afterwards(beside[e].loose, v)
                 /\ beside' = [beside EXCEPT ![e] = [other |-> beside[e].other, loose |-> f]]
                 /\ UNCHANGED src
  <2> DEFINE v == loose[e] + 1
  <2>1. v \in Version /\ beside[e].loose \in File
    BY <1>1, <1>2 DEF SourceVersions, Beside
  <2>2. loose' = [loose EXCEPT ![e] = v]
    BY <1>5 DEF ChangeLoose
  <2>3. PICK f \in Afterwards(beside[e].loose, v) :
           beside' = [beside EXCEPT ![e] = [other |-> beside[e].other, loose |-> f]]
    BY <1>5 DEF ChangeLoose
  <2> HIDE DEF v
  <2>4. f \in File
    BY <2>1, <2>3, AfterwardsFile
  <2> QED  BY <1>5, <2>1, <2>2, <2>3, <2>4 DEF ChangeLoose
<1>6. ChangeSummary => UNCHANGED <<beside, loose>> /\ src'.other = src.other
  BY DEF ChangeSummary, Source
<1> QED  BY <1>3, <1>4, <1>5, <1>6 DEF ChangeSource

LEMMA DiskStepTypes ==
    ASSUME TypeOK, SourceVersions, HandInOrder, [Next]_vars
    PROVE  DiskTypes'
<1>0. /\ DiskTypes /\ MemoryTypes /\ SourceTypes
      /\ \A e \in Episode : LineageOf(e) \in Lineage
  BY TypeParts, LineageTypes
<1>1. CASE MakeRun
  BY <1>0, <1>1 DEF MakeRun, DiskTypes
<1>2. CASE FirstManifest
  <2>1. rec' \in [Episode -> Status]
    BY <1>2 DEF FirstManifest, Status
  <2>2. job.config \in Config /\ job.sel \in SUBSET Episode
    BY <1>0 DEF MemoryTypes, Job
  <2>3. man' = [config |-> job.config, sel |-> job.sel, plan |-> plan, rec |-> rec',
                status |-> "running"]
    BY <1>2 DEF FirstManifest
  <2>4. man' \in Manifest
    BY <1>0, <2>1, <2>2, <2>3 DEF MemoryTypes, Manifest
  <2> QED  BY <1>0, <1>2, <2>4 DEF FirstManifest, DiskTypes
<1>3. CASE ResumeManifest
  <2>1. man.rec \in [Episode -> Status]
    BY <1>0 DEF DiskTypes, Manifest
  <2>2. UNCHANGED man \/ Checkpoint(plan, man.rec, "running")
    BY <1>3 DEF ResumeManifest
  <2>3. man' \in Manifest
    BY <1>0, <2>1, <2>2, CheckpointTypes DEF DiskTypes, MemoryTypes
  <2> QED  BY <1>0, <1>3, <2>3 DEF ResumeManifest, DiskTypes
<1>4. CASE ScanEpisode
  <2>1. todo # {} /\ First(todo) \in Episode
    BY <1>0, <1>4, FirstIsIn DEF ScanEpisode, MemoryTypes
  <2>2. man.plan \in [Episode -> Lineage]
    BY <1>0 DEF DiskTypes, Manifest
  <2>3. \A s \in {"complete", "failed"} : [rec EXCEPT ![First(todo)] = s] \in [Episode -> Status]
    BY <1>0, <2>1 DEF MemoryTypes, Status
  <2>4. UNCHANGED man \/ \E r \in [Episode -> Status] : Checkpoint(man.plan, r, man.status)
    BY <1>4, <2>3 DEF ScanEpisode
  <2>5. man' \in Manifest
    BY <1>0, <2>2, <2>4, CheckpointTypes DEF DiskTypes
  <2> QED  BY <1>0, <1>4, <2>5 DEF ScanEpisode, DiskTypes
<1>5. CASE PlanReady
  <2>1. Head(ready) \in Episode
    BY <1>0, <1>5 DEF PlanReady, MemoryTypes
  <2>2. plan' \in [Episode -> Lineage]
    BY <1>0, <1>5, <2>1 DEF PlanReady, MemoryTypes
  <2>3. man.rec \in [Episode -> Status] /\ man.plan \in [Episode -> Lineage]
    BY <1>0 DEF DiskTypes, Manifest
  <2>4. UNCHANGED man \/ Checkpoint(plan', man.rec, man.status)
    BY <1>5 DEF PlanReady
  <2>5. man' \in Manifest
    BY <1>0, <2>2, <2>3, <2>4, CheckpointTypes DEF DiskTypes
  <2> QED  BY <1>0, <1>5, <2>5 DEF PlanReady, DiskTypes
<1>6. CASE SaveRecord
  <2>1. man.plan \in [Episode -> Lineage]
    BY <1>0 DEF DiskTypes, Manifest
  <2>2. man' \in Manifest
    BY <1>0, <1>6, <2>1, CheckpointTypes DEF SaveRecord, MemoryTypes
  <2> QED  BY <1>0, <1>6, <2>2 DEF SaveRecord, DiskTypes
<1>7. CASE FinishBackend \/ FinishWorker
  <2>1. man.plan \in [Episode -> Lineage]
    BY <1>0 DEF DiskTypes, Manifest
  <2>2. \E r \in [Episode -> Status], s \in {"failed", "complete"} : Checkpoint(man.plan, r, s)
    <3>1. CASE FinishBackend
      BY <1>0, <3>1 DEF FinishBackend, CloseManifest, MemoryTypes
    <3>2. CASE FinishWorker
      <4>1. rec' \in [Episode -> Status]
        BY <1>0, <3>2 DEF FinishWorker, MemoryTypes, Status
      <4> QED  BY <3>2, <4>1 DEF FinishWorker, CloseManifest
    <3> QED  BY <1>7, <3>1, <3>2
  <2>3. man' \in Manifest
    BY <2>1, <2>2, CheckpointTypes
  <2> QED  BY <1>0, <1>7, <2>3 DEF FinishBackend, FinishWorker, DiskTypes
<1>8. CASE FinishRender
  <2>1. temp.episode \in Episode /\ Rendering(temp.episode) \in Rendered
    BY <1>0 DEF MemoryTypes, SourceTypes, Rendering, Rendered, Job
  <2>2. bdir' \in [Episode -> Rendered]
    BY <1>0, <1>8, <2>1 DEF FinishRender, DiskTypes
  <2> QED  BY <1>0, <1>8, <2>2 DEF FinishRender, DiskTypes
<1>9. CASE PublishTree
  <2> DEFINE tree == [lineage |-> temp.read, masks |-> temp.read.masks, config |-> job.config]
  <2>1. temp.episode \in Episode /\ temp.read \in Lineage /\ job.config \in Config
    BY <1>0 DEF MemoryTypes, Job
  <2>2. /\ temp.read.masks \in Version /\ src.other[temp.episode] \in Version
        /\ loose[temp.episode] \in Version
    BY <1>0, <2>1 DEF Lineage, SourceTypes
  <2>3. tree \in Tree
    BY <2>1, <2>2 DEF Tree
  <2>4. cdir' = [cdir EXCEPT ![temp.episode] = tree]
    BY <1>9 DEF PublishTree
  <2>5. cdir' \in [Episode -> Tree]
    BY <1>0, <2>1, <2>3, <2>4 DEF DiskTypes
  <2>6. \A v \in Version, l \in BOOLEAN : Materialized(v, l) \in File
    BY DEF Materialized, File
  <2>7. beside' \in [Episode -> Beside]
    <3>1. PICK l \in BOOLEAN :
             beside' = [beside EXCEPT ![temp.episode] =
                           [other |-> Materialized(src.other[temp.episode], l),
                            loose |-> Materialized(loose[temp.episode], l)]]
      BY <1>9 DEF PublishTree
    <3>2. [other |-> Materialized(src.other[temp.episode], l),
           loose |-> Materialized(loose[temp.episode], l)] \in Beside
      BY <2>2, <2>6 DEF Beside
    <3> QED  BY <1>0, <2>1, <3>1, <3>2 DEF DiskTypes
  <2> QED  BY <1>0, <1>9, <2>5, <2>7 DEF PublishTree, DiskTypes
<1>10. CASE WriteSummary
  <2>1. /\ job.skipRender \in BOOLEAN /\ job.sel \in SUBSET Episode
        /\ job.frozen \in [Episode -> Lineage] /\ Passed \in BOOLEAN
    BY <1>0 DEF MemoryTypes, Job, Passed
  <2>2. summary' = [passed |-> Passed, skipRender |-> job.skipRender, sel |-> job.sel,
                    frozen |-> job.frozen]
    BY <1>10 DEF WriteSummary
  <2> HIDE DEF Passed
  <2>3. summary' \in Summary
    BY <2>1, <2>2 DEF Summary
  <2> QED  BY <1>0, <1>10, <2>3 DEF WriteSummary, DiskTypes
<1>11. CASE UNCHANGED disk
  BY <1>0, <1>11 DEF disk, DiskTypes
<1>13. CASE ChangeSource
  <2>1. UNCHANGED <<made, man, bdir, cdir, summary>>
    BY <1>13 DEF ChangeSource
  <2>2. \A e \in Episode : beside[e].other \in File /\ beside[e].loose \in File
    BY <1>0 DEF DiskTypes, Beside
  <2>3. \A f, g \in File : [other |-> f, loose |-> g] \in Beside
    BY DEF Beside
  <2>4. beside' \in [Episode -> Beside]
    <3>0. beside \in [Episode -> Beside]
      BY <1>0 DEF DiskTypes
    <3>1. \/ UNCHANGED beside
          \/ \E e \in Episode, f \in File :
                \/ beside' = [beside EXCEPT ![e] = [other |-> f, loose |-> beside[e].loose]]
                \/ beside' = [beside EXCEPT ![e] = [other |-> beside[e].other, loose |-> f]]
      <4>1. SourceVersions
        BY <1>0
      <4> QED  BY <1>13, <4>1, ChangeOfFiles
    <3>2. CASE UNCHANGED beside
      BY <3>0, <3>2
    <3>3. ASSUME NEW e \in Episode, NEW f \in File, NEW b \in Beside,
                 beside' = [beside EXCEPT ![e] = b]
          PROVE  beside' \in [Episode -> Beside]
      BY <3>0, <3>3
    <3> QED  BY <2>2, <2>3, <3>1, <3>2, <3>3
  <2> QED  BY <1>0, <2>1, <2>4 DEF DiskTypes
<1>12. \/ UNCHANGED disk \/ ChangeSource
       \/ MakeRun \/ FirstManifest \/ ResumeManifest \/ ScanEpisode \/ PlanReady \/ SaveRecord
       \/ FinishBackend \/ FinishWorker \/ FinishRender \/ PublishTree \/ WriteSummary
  BY DEF Next, Start, StartLive, OpenSource, SourceEpisode, CloseSource, SelectLive, PlanEpisode,
     FinishScan, BeginRender, PreparePublish, FailPublish, SkipTree, FinishPublish,
     ValidateEpisode, RenderReview, Crash, vars, disk
<1> QED
  BY <1>1, <1>2, <1>3, <1>4, <1>5, <1>6, <1>7, <1>8, <1>9, <1>10, <1>11, <1>12, <1>13

LEMMA HandTypes ==
    ASSUME TypeOK, NEW step \in {"idle", "planned", "rendering", "rendered", "staging"},
           temp' = InHandAt(step)
    PROVE  temp' \in [step : {"idle", "planned", "rendering", "rendered", "staging"},
                      episode : Episode, read : Lineage]
<1>1. temp.episode \in Episode /\ temp.read \in Lineage
  BY DEF TypeOK
<1> QED  BY <1>1 DEF InHandAt

LEMMA MemoryStepTypes ==
    ASSUME TypeOK, StreamInOrder, [Next]_vars
    PROVE  MemoryTypes'
<1>0. /\ DiskTypes /\ MemoryTypes /\ SourceTypes
      /\ \A e \in Episode : LineageOf(e) \in Lineage
      /\ \A S \in SUBSET Episode : FrozenLineages(S) \in [Episode -> Lineage]
      /\ Selectable \in SUBSET Episode
  BY TypeParts, LineageTypes
<1>1. Leave => MemoryTypes'
  <2>1. AtRest' => MemoryTypes'
    BY RestTypes, PTL
  <2> QED  BY <2>1, LeaveRests
<1>2. todo # {} => First(todo) \in Episode
  BY <1>0, FirstIsIn DEF MemoryTypes
<1>3. CASE Start
  <2>1. job' \in Job
    BY <1>0, <1>3 DEF Start, Job
  <2> QED  BY <1>0, <1>3, <2>1 DEF Start, MemoryTypes
<1>4. CASE StartLive
  <2>1. job' \in Job
    BY <1>4, Constants DEF StartLive, Job
  <2> QED  BY <1>0, <1>4, <2>1 DEF StartLive, MemoryTypes
<1>5. CASE OpenSource
  BY <1>0, <1>5 DEF OpenSource, MemoryTypes
<1>6. ASSUME NEW e \in Episode, SourceEpisode(e) PROVE MemoryTypes'
  <2>1. ready' \in {ready, Append(ready, e)} /\ todo' \subseteq todo
        /\ UNCHANGED <<phase, job, plan, rec, temp, rows, late, errors>>
    BY <1>6 DEF SourceEpisode
  <2>2. ready' \in Seq(Episode)
    BY <1>0, <2>1, SMTT(30) DEF MemoryTypes
  <2> QED  BY <1>0, <2>1, <2>2 DEF MemoryTypes
<1>7. CASE CloseSource
  BY <1>0, <1>7 DEF CloseSource, MemoryTypes
<1>8. CASE SelectLive
  <2>1. ASSUME NEW next \in {"publish", "plan"}, Take(Selectable, next),
               UNCHANGED <<plan, rec, ready, temp, rows, late, errors>>
        PROVE  MemoryTypes'
    <3>1. job' \in Job
      BY <1>0, <2>1 DEF Take, MemoryTypes, Job
    <3> QED  BY <1>0, <2>1, <3>1 DEF Take, MemoryTypes
  <2> QED  BY <1>1, <1>8, <2>1 DEF SelectLive
<1>9. CASE PlanEpisode
  <2>1. CASE Leave
    BY <1>1, <2>1
  <2>2. CASE ~Leave
    <3>1. /\ todo # {} /\ todo' = todo \ {First(todo)}
          /\ plan' = [plan EXCEPT ![First(todo)] = LineageOf(First(todo))]
          /\ UNCHANGED <<phase, job, rec, ready, temp, rows, late, errors>>
      BY <1>9, <2>2 DEF PlanEpisode
    <3> QED  BY <1>0, <1>2, <3>1 DEF MemoryTypes
  <2> QED  BY <2>1, <2>2
<1>10. CASE MakeRun
  BY <1>0, <1>10 DEF MakeRun, MemoryTypes
<1>11. CASE FirstManifest
  <2>1. rec' \in [Episode -> Status] /\ job.sel \in SUBSET Episode
    BY <1>0, <1>11 DEF FirstManifest, Status, MemoryTypes, Job
  <2> QED  BY <1>0, <1>11, <2>1 DEF FirstManifest, MemoryTypes
<1>12. CASE ResumeManifest
  <2>1. man.rec \in [Episode -> Status] /\ job.sel \in SUBSET Episode
    BY <1>0 DEF DiskTypes, Manifest, MemoryTypes, Job
  <2> QED  BY <1>0, <1>1, <1>12, <2>1 DEF ResumeManifest, MemoryTypes
<1>13. CASE ScanEpisode
  <2>1. \A s \in {"complete", "failed"} : [rec EXCEPT ![First(todo)] = s] \in [Episode -> Status]
    BY <1>0, <1>2 DEF MemoryTypes, Status
  <2>2. \/ Leave
        \/ /\ rec' \in [Episode -> Status]
           /\ todo' \subseteq todo
           /\ UNCHANGED <<phase, job, plan, ready, temp, rows, late, errors>>
    BY <1>0, <1>13, <2>1 DEF ScanEpisode, MemoryTypes
  <2> QED  BY <1>0, <1>1, <2>2 DEF MemoryTypes
<1>14. CASE FinishScan
  BY <1>0, <1>14 DEF FinishScan, MemoryTypes, Job
<1>15. CASE PlanReady
  <2>1. Head(ready) \in Episode
    BY <1>0, <1>15 DEF PlanReady, MemoryTypes
  <2>2. plan' \in [Episode -> Lineage] /\ rec' \in [Episode -> Status]
    BY <1>0, <1>15, <2>1 DEF PlanReady, MemoryTypes, Status
  <2> QED  BY <1>0, <1>15, <2>1, <2>2, Constants DEF PlanReady, MemoryTypes
<1>16. CASE BeginRender
  <2>1. temp' \in [step : {"idle", "planned", "rendering", "rendered", "staging"},
                   episode : Episode, read : Lineage]
    BY <1>0, <1>2, <1>16 DEF BeginRender, MemoryTypes
  <2> QED  BY <1>0, <1>16, <2>1 DEF BeginRender, MemoryTypes
<1>17. CASE FinishRender
  <2>1. rec' \in [Episode -> Status]
    BY <1>0, <1>17 DEF FinishRender, MemoryTypes, Status
  <2>2. temp' = InHandAt("rendered")
    BY <1>17 DEF FinishRender
  <2> QED  BY <1>0, <1>17, <2>1, <2>2, HandTypes DEF FinishRender, MemoryTypes
<1>18. CASE SaveRecord
  <2>1. ready' \in Seq(Episode)
    <3>1. ready \in Seq(Episode) /\ (ready # <<>> => Tail(ready) \in Seq(Episode))
      BY <1>0 DEF MemoryTypes
    <3>2. phase = "source" => ready # <<>>
      BY <1>18 DEF SaveRecord, StreamInOrder
    <3> QED  BY <1>18, <3>1, <3>2 DEF SaveRecord
  <2> QED  BY <1>0, <1>18, <2>1, HandTypes DEF SaveRecord, Hold, MemoryTypes
<1>19. CASE FinishBackend
  BY <1>0, <1>19 DEF FinishBackend, CloseManifest, MemoryTypes, Job
<1>20. CASE FinishWorker
  <2>1. rec' \in [Episode -> Status]
    BY <1>0, <1>20 DEF FinishWorker, MemoryTypes, Status
  <2> QED  BY <1>0, <1>20, <2>1 DEF FinishWorker, CloseManifest, MemoryTypes
<1>21. CASE PreparePublish
  <2>1. temp' \in [step : {"idle", "planned", "rendering", "rendered", "staging"},
                   episode : Episode, read : Lineage]
    BY <1>0, <1>2, <1>21 DEF PreparePublish
  <2> QED  BY <1>0, <1>21, <2>1 DEF PreparePublish, MemoryTypes
<1>22. ASSUME NEW e \in Episode, NEW status \in Row, Recorded(e, status), Hold,
              UNCHANGED <<phase, job, plan, rec, ready, late, errors>>
       PROVE  MemoryTypes'
  <2>1. rows' \in [Episode -> Row] /\ todo' \subseteq Episode
    BY <1>0, <1>22 DEF Recorded, MemoryTypes
  <2> QED  BY <1>0, <1>22, <2>1, HandTypes DEF Hold, MemoryTypes
<1>23. CASE FailPublish
  BY <1>2, <1>22, <1>23 DEF FailPublish, Row
<1>24. CASE PublishTree
  <2>1. temp.episode \in Episode
    BY <1>0 DEF MemoryTypes
  <2> QED  BY <1>22, <1>24, <2>1 DEF PublishTree, Row
<1>25. CASE SkipTree
  <2>1. temp.episode \in Episode
    BY <1>0 DEF MemoryTypes
  <2> QED  BY <1>22, <1>25, <2>1 DEF SkipTree, Row
<1>26. CASE FinishPublish
  <2>1. Published \subseteq Episode
    BY <1>0 DEF Published, MemoryTypes, Job
  <2> QED  BY <1>0, <1>26, <2>1 DEF FinishPublish, MemoryTypes
<1>27. CASE ValidateEpisode
  BY <1>0, <1>2, <1>27 DEF ValidateEpisode, MemoryTypes
<1>28. CASE RenderReview
  BY <1>0, <1>28 DEF RenderReview, MemoryTypes
<1>29. CASE WriteSummary \/ Crash
  BY <1>1, <1>29 DEF WriteSummary, Crash
<1>30. CASE UNCHANGED memory
  BY <1>0, <1>30 DEF memory, MemoryTypes
<1> QED
  BY <1>3, <1>4, <1>5, <1>6, <1>7, <1>8, <1>9, <1>10, <1>11, <1>12, <1>13, <1>14, <1>15, <1>16,
     <1>17, <1>18, <1>19, <1>20, <1>21, <1>23, <1>24, <1>25, <1>26, <1>27, <1>28, <1>29, <1>30
     DEF Next, ChangeSource, vars

LEMMA NextTypeOK == ASSUME IInv, [Next]_vars PROVE TypeOK' /\ SourceVersions'
<1>1. BoundTypes'
  <2>1. BoundTypes
    BY TypeParts DEF IInv
  <2>2. /\ runs' = runs \/ (runs < MaxRuns /\ runs' = runs + 1)
        /\ crashes' = crashes \/ (crashes < MaxCrashes /\ crashes' = crashes + 1)
        /\ changes' = changes \/ (changes < MaxChanges /\ changes' = changes + 1)
    BY DEF Next, Start, StartLive, OpenSource, SourceEpisode, CloseSource, SelectLive, PlanEpisode,
       MakeRun, FirstManifest, ResumeManifest, ScanEpisode, FinishScan, PlanReady, BeginRender,
       FinishRender, SaveRecord, FinishBackend, FinishWorker, PreparePublish, FailPublish,
       PublishTree, SkipTree, FinishPublish, ValidateEpisode, RenderReview, WriteSummary, Crash,
       ChangeSource, vars, bounds
  <2> QED  BY <2>1, <2>2, UrdfRunAssumption DEF BoundTypes
<1>2. DiskTypes' /\ MemoryTypes' /\ SourceTypes' /\ SourceVersions'
  BY DiskStepTypes, MemoryStepTypes, SourceStepTypes DEF IInv
<1>3. (TypeOK <=> SourceTypes /\ DiskTypes /\ MemoryTypes /\ BoundTypes)'
  BY TypeParts, PTL
<1> QED  BY <1>1, <1>2, <1>3

-----------------------------------------------------------------------------
(* The invariant holds at the start *)

LEMMA InitIInv == Init => IInv
<1> SUFFICES ASSUME Init PROVE IInv
  OBVIOUS
<1>1. src.made \in BOOLEAN /\ TypeOK /\ SourceVersions
  <2>1. PICK done \in SUBSET Episode :
          src = [made |-> kind = "frozen",
                 masks |-> [e \in Episode |-> IF e \in done THEN 1 ELSE 0],
                 other |-> [e \in Episode |-> IF e \in done THEN 1 ELSE 0],
                 receipt |-> [e \in Episode |-> <<0, 0>>],
                 summary |-> IF kind = "live" THEN 0 ELSE 1,
                 listed |-> done]
          /\ loose = [e \in Episode |-> IF e \in done THEN 1 ELSE 0]
    BY DEF Init
  <2>2. SourceTypes
    BY <2>1, Constants DEF Init, SourceTypes
  <2>3. SourceVersions
    <3>1. changes = 0 /\ kind \in {"frozen", "live"}
      BY DEF Init
    <3>2. \A e \in Episode : /\ src.masks[e] \in {0, 1} /\ src.other[e] \in {0, 1}
                             /\ loose[e] \in {0, 1}
      BY <2>1
    <3>3. src.summary = IF kind = "live" THEN 0 ELSE 1
      BY <2>1
    <3>4. kind = "frozen" => src.made
      BY <2>1
    <3> QED  BY <3>1, <3>2, <3>3, <3>4 DEF SourceVersions
  <2>4. DiskTypes
    BY Constants, Nothing DEF Init, DiskTypes
  <2>5. MemoryTypes /\ BoundTypes
    BY RestTypes, UrdfRunAssumption DEF Init, BoundTypes
  <2> QED  BY <2>2, <2>3, <2>4, <2>5, TypeParts DEF SourceTypes
<1>2. /\ phase = "idle" /\ job = NoJob /\ ready = <<>> /\ temp = Idle /\ plan = Nobody
      /\ \A e \in Episode : rows[e] = "none" /\ late[e] = "none"
  BY DEF Init, AtRest
<1>3. DirectoryInOrder
  BY DEF Init, DirectoryInOrder, NoManifest, Nobody
<1>4. JobInOrder /\ PlansInOrder
  BY <1>2 DEF Init, JobInOrder, PlansInOrder, NoJob
<1>5. ManifestIsOurs /\ ~Running
  BY <1>2 DEF ManifestIsOurs, Running, Backend
<1>6. RecordsStand
  BY <1>5 DEF Init, RecordsStand, NoManifest, NoRecords
<1>7. StreamInOrder /\ HandInOrder
  BY <1>2 DEF StreamInOrder, HandInOrder, Idle
<1>8. TreesStand /\ LinksAreShared /\ RowsInOrder /\ PassedMeansPublished
  BY <1>2 DEF Init, TreesStand, LinksAreShared, NoFiles, NoFile, RowsInOrder, PassedMeansPublished,
     NoSummary, Ok
<1> QED  BY <1>1, <1>3, <1>4, <1>5, <1>6, <1>7, <1>8 DEF IInv

-----------------------------------------------------------------------------
(* What a step may do to the files of the run *)

LEMMA CheckpointWrites ==
    ASSUME NEW p, NEW r, NEW s, Checkpoint(p, r, s)
    PROVE  /\ man'.config = man.config /\ man'.sel = man.sel
           /\ man'.plan = p /\ man'.rec = r /\ man'.status = s
BY DEF Checkpoint

LEMMA ValidHasLineage == ASSUME NEW e \in Episode, SourceValid(e) PROVE LineageOf(e) # None
<1>1. LineageOf(e).masks > 0
  BY DEF SourceValid, MasksReadable, LineageOf
<1> QED  BY <1>1 DEF None

\* The backend at work writes into the manifest of the run it belongs to.
LEMMA AtWork ==
    ASSUME IInv,
           \/ phase \in {"scan", "render"}
           \/ phase = "source" /\ (ready # <<>> \/ job.mode = "streaming")
           \/ temp.step \in {"planned", "rendering", "rendered"}
    PROVE  /\ phase # "idle" /\ Backend /\ Running
           /\ man.config = job.config /\ man.config # NoConfig
           /\ man.plan = plan /\ man.status = "running"
           /\ phase = "source" => man.sel = Episode /\ job.mode = "streaming"
<1>1. phase \in {"scan", "render", "source"}
  BY DEF IInv, HandInOrder
<1>2. phase = "source" => job.mode = "streaming"
  BY DEF IInv, HandInOrder, StreamInOrder
<1> QED  BY <1>1, <1>2 DEF IInv, Backend, Running, ManifestIsOurs, JobInOrder

LEMMA NextInStream ==
    ASSUME IInv, PlanReady
    PROVE  /\ ready # <<>> /\ Head(ready) = ready[1] /\ Head(ready) \in Episode
           /\ 1 \in DOMAIN ready /\ Untouched(Head(ready)) /\ phase = "source"
<1>1. ready \in Seq(Episode) /\ ready # <<>> /\ phase = "source" /\ temp.step = "idle"
  BY DEF IInv, TypeOK, PlanReady
<1>2. Head(ready) = ready[1] /\ Head(ready) \in Episode /\ 1 \in DOMAIN ready
  BY <1>1
<1> QED  BY <1>1, <1>2 DEF IInv, StreamInOrder

LEMMA ManifestGrows ==
    ASSUME IInv, [Next]_vars, ~FirstManifest
    PROVE  /\ man'.config = man.config /\ man'.sel = man.sel
           /\ \A e \in Episode : man.plan[e] # None => man'.plan[e] = man.plan[e]
           /\ \A e \in Episode : man'.plan[e] # None => e \in man.sel
           /\ man' # man => man.config # NoConfig
<1>0. \A e \in Episode : man.plan[e] # None => e \in man.sel
  BY DEF IInv, DirectoryInOrder
<1>1. CASE ResumeManifest
  <2>1. CASE Leave
    BY <1>0, <1>1, <2>1 DEF ResumeManifest, Leave, Planned
  <2>2. CASE ~Leave
    <3>1. /\ Reconciled /\ Checkpoint(plan, man.rec, "running")
          /\ phase = "plan" /\ todo = {} /\ job.resume
      BY <1>1, <2>2 DEF ResumeManifest, Planned
    <3>2. man.config # NoConfig /\ job.mode # "streaming"
      BY <3>1 DEF IInv, JobInOrder
    <3>3. \A e \in Episode : plan[e] # None => e \in man.sel
      BY <3>1, <3>2 DEF IInv, PlansInOrder, Reconciled
    <3>4. \A e \in Episode : man.plan[e] # None => plan[e] = man.plan[e]
      BY <1>0, <3>1 DEF Reconciled
    <3> QED  BY <3>1, <3>2, <3>3, <3>4, CheckpointWrites
  <2> QED  BY <2>1, <2>2
<1>2. CASE PlanReady
  <2>1. /\ man.plan = plan /\ man.config # NoConfig /\ man.sel = Episode
        /\ Head(ready) \in Episode /\ plan[Head(ready)] = None
    BY <1>2, AtWork, NextInStream DEF Untouched
  <2>2. plan \in [Episode -> Lineage]
    BY DEF IInv, TypeOK
  <2>3. \/ UNCHANGED man
        \/ /\ plan' = [plan EXCEPT ![Head(ready)] = LineageOf(Head(ready))]
           /\ Checkpoint(plan', man.rec, man.status)
    BY <1>2 DEF PlanReady
  <2>4. \A e \in Episode :
          plan' = [plan EXCEPT ![Head(ready)] = LineageOf(Head(ready))] /\ plan[e] # None
              => plan'[e] = plan[e]
    BY <2>1, <2>2
  <2>5. CASE UNCHANGED man
    BY <1>0, <2>5
  <2>6. CASE ~UNCHANGED man
    BY <2>1, <2>3, <2>4, <2>6, CheckpointWrites
  <2> QED  BY <2>5, <2>6
<1>3. ASSUME NEW r, NEW s, Checkpoint(man.plan, r, s), man.config # NoConfig
      PROVE  /\ man'.config = man.config /\ man'.sel = man.sel
             /\ \A e \in Episode : man.plan[e] # None => man'.plan[e] = man.plan[e]
             /\ \A e \in Episode : man'.plan[e] # None => e \in man.sel
             /\ man' # man => man.config # NoConfig
  BY <1>0, <1>3, CheckpointWrites
<1>4. CASE ScanEpisode
  <2>1. man.config # NoConfig
    BY <1>4, AtWork DEF ScanEpisode
  <2>2. UNCHANGED man \/ \E r, s : Checkpoint(man.plan, r, s)
    BY <1>4 DEF ScanEpisode
  <2> QED  BY <1>0, <1>3, <2>1, <2>2
<1>5. CASE SaveRecord
  <2>1. man.config # NoConfig
    BY <1>5, AtWork DEF SaveRecord
  <2> QED  BY <1>3, <1>5, <2>1 DEF SaveRecord
<1>6. CASE FinishBackend \/ FinishWorker
  <2>1. man.config # NoConfig
    BY <1>6, AtWork DEF FinishBackend, FinishWorker
  <2>2. \E r, s : Checkpoint(man.plan, r, s)
    BY <1>6 DEF FinishBackend, FinishWorker, CloseManifest
  <2> QED  BY <1>3, <2>1, <2>2
<1>7. CASE UNCHANGED man
  BY <1>0, <1>7
<1>8. \/ UNCHANGED man
      \/ ResumeManifest \/ ScanEpisode \/ PlanReady \/ SaveRecord \/ FinishBackend \/ FinishWorker
  BY DEF Next, Start, StartLive, OpenSource, SourceEpisode, CloseSource, SelectLive, PlanEpisode,
     MakeRun, FinishScan, BeginRender, FinishRender, PreparePublish, FailPublish, PublishTree,
     SkipTree, FinishPublish, ValidateEpisode, RenderReview, WriteSummary, Crash, ChangeSource,
     vars, disk
<1> QED  BY <1>1, <1>2, <1>4, <1>5, <1>6, <1>7, <1>8

LEMMA FirstManifestIsNew ==
    ASSUME IInv, FirstManifest
    PROVE  /\ man = NoManifest
           /\ \A e \in Episode : bdir[e] = NoDir /\ cdir[e] = NoTree /\ man.plan[e] = None
           /\ job.config # NoConfig /\ phase = "contract" /\ todo = {}
<1>1. man = NoManifest /\ man.config = NoConfig
  BY DEF IInv, JobInOrder, FirstManifest, DirectoryInOrder
<1>2. \A e \in Episode : man.plan[e] = None
  BY <1>1 DEF NoManifest, Nobody
<1> QED  BY <1>1, <1>2 DEF IInv, JobInOrder, FirstManifest, DirectoryInOrder

\* A directory of the backend changes only where there was none, and so does a tree.
LEMMA DirectoriesGrow ==
    ASSUME IInv, [Next]_vars, NEW e \in Episode
    PROVE  /\ bdir[e] # NoDir => bdir'[e] = bdir[e]
           /\ cdir[e] # NoTree => cdir'[e] = cdir[e]
           /\ bdir'[e] # bdir[e] => FinishRender /\ e = temp.episode /\ bdir'[e] = Rendering(e)
           /\ cdir'[e] # cdir[e] => PublishTree /\ e = temp.episode
           /\ bdir'[e] # bdir[e] \/ cdir'[e] # cdir[e] => man.config # NoConfig
<1>0. bdir \in [Episode -> Rendered] /\ cdir \in [Episode -> Tree]
  BY DEF IInv, TypeOK
<1>1. CASE FinishRender
  <2>1. bdir[temp.episode] = NoDir /\ man.config # NoConfig
    BY <1>1, AtWork DEF FinishRender, IInv, HandInOrder
  <2>2. UNCHANGED cdir /\ (bdir' = [bdir EXCEPT ![temp.episode] = Rendering(temp.episode)]
                           \/ UNCHANGED bdir)
    BY <1>1 DEF FinishRender
  <2> QED  BY <1>0, <1>1, <2>1, <2>2
<1>2. CASE PublishTree
  <2>1. man.config # NoConfig
    BY <1>2 DEF PublishTree, InHand, IInv, ManifestIsOurs, JobInOrder, Running
  <2>2. cdir[temp.episode] = NoTree /\ UNCHANGED bdir
    BY <1>2 DEF PublishTree
  <2>3. e # temp.episode => cdir'[e] = cdir[e]
    BY <1>0, <1>2 DEF PublishTree
  <2> QED  BY <1>2, <2>1, <2>2, <2>3
<1>3. CASE UNCHANGED <<bdir, cdir>>
  BY <1>3
<1>4. UNCHANGED <<bdir, cdir>> \/ FinishRender \/ PublishTree
  BY DEF Next, Start, StartLive, OpenSource, SourceEpisode, CloseSource, SelectLive, PlanEpisode,
     MakeRun, FirstManifest, ResumeManifest, ScanEpisode, FinishScan, PlanReady, BeginRender,
     SaveRecord, FinishBackend, FinishWorker, PreparePublish, FailPublish, SkipTree, FinishPublish,
     ValidateEpisode, RenderReview, WriteSummary, Crash, ChangeSource, vars, disk
<1> QED  BY <1>1, <1>2, <1>3, <1>4

LEMMA DirectoryStep == ASSUME IInv, [Next]_vars PROVE DirectoryInOrder'
<1>1. CASE FirstManifest
  <2>1. /\ man'.config = job.config /\ man'.sel = job.sel /\ man'.plan = plan
        /\ UNCHANGED <<made, bdir, cdir>>
    BY <1>1 DEF FirstManifest
  <2>2. \A e \in Episode : plan[e] # None => e \in job.sel
    BY <1>1, FirstManifestIsNew DEF IInv, PlansInOrder, Nobody
  <2>3. made
    BY <1>1 DEF IInv, JobInOrder, FirstManifest
  <2> QED  BY <1>1, <2>1, <2>2, <2>3, FirstManifestIsNew DEF DirectoryInOrder
<1>2. CASE ~FirstManifest
  <2>1. made => made'
    BY DEF Next, Start, StartLive, OpenSource, SourceEpisode, CloseSource, SelectLive, PlanEpisode,
       MakeRun, FirstManifest, ResumeManifest, ScanEpisode, FinishScan, PlanReady, BeginRender,
       FinishRender, SaveRecord, FinishBackend, FinishWorker, PreparePublish, FailPublish,
       PublishTree, SkipTree, FinishPublish, ValidateEpisode, RenderReview, WriteSummary, Crash,
       ChangeSource, vars, disk
  <2>2. \A e \in Episode : man.config = NoConfig => bdir'[e] = bdir[e] /\ cdir'[e] = cdir[e]
    BY DirectoriesGrow
  <2> QED  BY <1>2, <2>1, <2>2, ManifestGrows DEF IInv, DirectoryInOrder
<1> QED  BY <1>1, <1>2

LEMMA RestIsInOrder ==
    AtRest => /\ JobInOrder /\ PlansInOrder /\ ManifestIsOurs /\ ~Running
              /\ StreamInOrder /\ HandInOrder /\ RowsInOrder
<1> SUFFICES ASSUME AtRest
             PROVE  /\ JobInOrder /\ PlansInOrder /\ ManifestIsOurs /\ ~Running
                    /\ StreamInOrder /\ HandInOrder /\ RowsInOrder
  OBVIOUS
<1>1. /\ phase = "idle" /\ job = NoJob /\ ready = <<>> /\ temp = Idle /\ plan = Nobody
      /\ \A e \in Episode : rows[e] = "none" /\ late[e] = "none"
  BY DEF AtRest
<1>2. JobInOrder /\ PlansInOrder
  BY <1>1 DEF JobInOrder, PlansInOrder, NoJob
<1>3. ManifestIsOurs /\ ~Running
  BY <1>1 DEF ManifestIsOurs, Running, Backend
<1>4. StreamInOrder /\ HandInOrder
  BY <1>1 DEF StreamInOrder, HandInOrder, Idle
<1>5. RowsInOrder
  BY <1>1 DEF RowsInOrder, Ok
<1> QED  BY <1>2, <1>3, <1>4, <1>5

LEMMA LeaveIsInOrder ==
    Leave => /\ JobInOrder' /\ PlansInOrder' /\ ManifestIsOurs' /\ ~Running'
             /\ StreamInOrder' /\ HandInOrder' /\ RowsInOrder'
BY RestIsInOrder, LeaveRests, PTL

LEMMA JobStep == ASSUME IInv, [Next]_vars PROVE JobInOrder'
<1>0. /\ JobInOrder /\ TypeOK /\ job.config \in Config
      /\ ~made => man.config = NoConfig
      /\ man.config = NoConfig => man = NoManifest
      /\ man' # man => man'.config # NoConfig
      /\ \A e \in Episode : man.plan[e] # None => e \in man.sel
  BY ManifestGrows, FirstManifestIsNew DEF IInv, FirstManifest, TypeOK, Job, DirectoryInOrder
<1>1. CASE Leave
  BY <1>1, LeaveIsInOrder
<1>2. CASE Start \/ StartLive
  <2>1. /\ phase' \in {"plan", "source"} /\ job'.config # NoConfig
        /\ job'.mode = "streaming" => ~job'.resume /\ job'.sel = Episode
        /\ phase' = "source" => ~job'.resume
        /\ phase' = "plan" /\ job'.mode = "streaming" => todo' = {}
        /\ phase' = "plan" => todo' \subseteq job'.sel
        /\ job'.resume => man # NoManifest
        /\ UNCHANGED man
    BY <1>0, <1>2 DEF Start, StartLive, Owned, JobInOrder, AtRest, disk
  <2> QED  BY <1>0, <2>1 DEF JobInOrder
<1>3. CASE SelectLive /\ ~Leave
  <2>1. /\ phase' \in {"plan", "publish"} /\ todo' = job'.sel /\ UNCHANGED man
        /\ job'.config = job.config /\ job'.resume = job.resume /\ job'.mode = job.mode
        /\ phase' = "plan" => job.mode # "streaming"
        /\ phase = "select"
    BY <1>3 DEF SelectLive, Take, disk
  <2> QED  BY <1>0, <2>1 DEF JobInOrder
<1>4. CASE OpenSource \/ CloseSource \/ \E e \in Episode : SourceEpisode(e)
  BY <1>0, <1>4 DEF OpenSource, CloseSource, SourceEpisode, JobInOrder, disk
<1>5. CASE PlanEpisode /\ ~Leave
  BY <1>0, <1>5 DEF PlanEpisode, JobInOrder, disk
<1>6. CASE MakeRun
  BY <1>0, <1>6 DEF MakeRun, Planned, JobInOrder
<1>7. CASE FirstManifest
  BY <1>0, <1>7, FirstManifestIsNew DEF FirstManifest, JobInOrder
<1>8. CASE (ResumeManifest \/ ScanEpisode) /\ ~Leave
  BY <1>0, <1>8 DEF ResumeManifest, ScanEpisode, Planned, JobInOrder
<1>9. CASE FinishScan \/ PlanReady \/ BeginRender \/ FinishRender \/ SaveRecord
  <2>1. /\ phase # "idle" /\ phase' \in {"source", "render"} /\ UNCHANGED job
        /\ phase' = "source" => phase = "source"
        /\ phase' = "render" => todo' \subseteq job.sel /\ job.mode # "streaming"
    <3>1. CASE FinishScan
      BY <1>0, <3>1 DEF FinishScan, JobInOrder
    <3>2. CASE PlanReady \/ BeginRender
      BY <1>0, <3>2 DEF PlanReady, BeginRender, JobInOrder
    <3>3. CASE FinishRender \/ SaveRecord
      BY <1>0, <3>3 DEF FinishRender, SaveRecord, IInv, HandInOrder, JobInOrder
    <3> QED  BY <1>9, <3>1, <3>2, <3>3
  <2> QED  BY <1>0, <2>1 DEF JobInOrder
<1>10. CASE FinishBackend \/ FinishWorker \/ PreparePublish \/ FailPublish \/ PublishTree \/ SkipTree
            \/ FinishPublish \/ ValidateEpisode \/ RenderReview
  BY <1>0, <1>10 DEF FinishBackend, FinishWorker, PreparePublish, FailPublish, PublishTree, SkipTree,
     FinishPublish, ValidateEpisode, RenderReview, InHand, JobInOrder, disk
<1>11. CASE ChangeSource \/ UNCHANGED vars
  BY <1>0, <1>11 DEF ChangeSource, vars, memory, disk, JobInOrder, AtRest
<1> QED
  BY <1>1, <1>2, <1>3, <1>4, <1>5, <1>6, <1>7, <1>8, <1>9, <1>10, <1>11 DEF Next, WriteSummary, Crash

LEMMA PlansStep == ASSUME IInv, [Next]_vars PROVE PlansInOrder'
<1>0. /\ JobInOrder /\ PlansInOrder /\ plan \in [Episode -> Lineage] /\ todo \subseteq Episode
      /\ job.sel \subseteq Episode
  BY DEF IInv, TypeOK, Job
<1>1. CASE Leave
  BY <1>1, LeaveIsInOrder
<1>2. CASE Start \/ StartLive
  <2>1. /\ UNCHANGED plan /\ plan = Nobody
        /\ phase' = "plan" \/ (phase' = "source" /\ job'.mode # "streaming")
        /\ job'.mode # "streaming" /\ phase' = "plan" => job'.sel = todo'
    <3>1. plan = Nobody
      BY <1>0, <1>2 DEF Start, StartLive, JobInOrder, AtRest
    <3>2. CASE Start
      BY <3>1, <3>2 DEF Start
    <3>3. CASE StartLive
      BY <3>1, <3>3 DEF StartLive
    <3> QED  BY <1>2, <3>2, <3>3
  <2> QED  BY <2>1 DEF PlansInOrder, Nobody
<1>3. CASE SelectLive /\ ~Leave
  <2>1. /\ phase' \in {"plan", "publish"} /\ todo' = job'.sel /\ job'.mode = job.mode
        /\ phase' = "plan" => job.mode # "streaming"
        /\ phase = "select" /\ UNCHANGED plan
    BY <1>3 DEF SelectLive, Take
  <2> QED  BY <1>0, <2>1 DEF PlansInOrder, Nobody
<1>4. CASE OpenSource \/ CloseSource \/ \E e \in Episode : SourceEpisode(e)
  BY <1>0, <1>4 DEF OpenSource, CloseSource, SourceEpisode, PlansInOrder
<1>5. CASE PlanEpisode /\ ~Leave
  <2> DEFINE e == First(todo)
  <2>1. /\ todo # {} /\ phase = "plan" /\ UNCHANGED <<phase, job>> /\ todo' = todo \ {e}
        /\ plan' = [plan EXCEPT ![e] = LineageOf(e)] /\ SourceValid(e)
    BY <1>5 DEF PlanEpisode
  <2>2. e \in todo /\ e \in Episode
    BY <1>0, <2>1, FirstIsIn
  <2> HIDE DEF e
  <2>3. plan'[e] # None /\ \A f \in Episode : f # e => plan'[f] = plan[f]
    BY <1>0, <2>1, <2>2, ValidHasLineage
  <2>4. job.mode # "streaming" /\ e \in job.sel
    BY <1>0, <2>1, <2>2 DEF JobInOrder
  <2> QED  BY <1>0, <2>1, <2>2, <2>3, <2>4 DEF PlansInOrder
<1>6. CASE MakeRun
  BY <1>0, <1>6 DEF MakeRun, Planned, PlansInOrder
<1>7. CASE FirstManifest
  <2>1. phase = "contract" /\ todo = {} /\ UNCHANGED <<job, plan>>
        /\ phase' = (IF job.mode = "streaming" THEN "source" ELSE "scan")
    BY <1>0, <1>7 DEF FirstManifest, JobInOrder
  <2> QED  BY <1>0, <2>1 DEF PlansInOrder
<1>8. CASE (ResumeManifest \/ ScanEpisode) /\ ~Leave
  <2>1. /\ UNCHANGED <<job, plan>> /\ phase' = "scan" /\ phase \in {"plan", "scan"}
        /\ phase = "plan" => todo = {} /\ job.mode # "streaming"
    BY <1>0, <1>8 DEF ResumeManifest, ScanEpisode, Planned, JobInOrder
  <2> QED  BY <1>0, <2>1 DEF PlansInOrder
<1>9. CASE PlanReady
  <2>1. phase' = "source" /\ UNCHANGED job /\ job.mode = "streaming"
    BY <1>9, NextInStream, AtWork DEF PlanReady
  <2> QED  BY <2>1 DEF PlansInOrder
<1>10. CASE FinishScan \/ BeginRender \/ FinishRender \/ SaveRecord
  <2>1. /\ UNCHANGED <<job, plan>> /\ phase' \in {"source", "render"}
        /\ phase' = phase \/ (phase' = "render" /\ phase = "scan")
    BY <1>10 DEF FinishScan, BeginRender, FinishRender, SaveRecord, IInv, HandInOrder
  <2> QED  BY <1>0, <2>1 DEF PlansInOrder
<1>11. CASE FinishWorker
  BY <1>11 DEF FinishWorker, PlansInOrder
<1>12. CASE FinishBackend \/ PreparePublish \/ FailPublish \/ PublishTree \/ SkipTree
            \/ FinishPublish \/ ValidateEpisode \/ RenderReview
  BY <1>0, <1>12 DEF FinishBackend, PreparePublish, FailPublish, PublishTree, SkipTree,
     FinishPublish, ValidateEpisode, RenderReview, InHand, PlansInOrder
<1>13. CASE ChangeSource \/ UNCHANGED vars
  BY <1>0, <1>13 DEF ChangeSource, vars, memory, PlansInOrder
<1> QED
  BY <1>1, <1>2, <1>3, <1>4, <1>5, <1>6, <1>7, <1>8, <1>9, <1>10, <1>11, <1>12, <1>13
     DEF Next, WriteSummary, Crash

LEMMA ManifestStep == ASSUME IInv, [Next]_vars PROVE ManifestIsOurs'
<1>0. /\ JobInOrder /\ ManifestIsOurs
      /\ ~FirstManifest => man'.config = man.config /\ man'.sel = man.sel
  BY ManifestGrows DEF IInv
<1>1. CASE Leave
  BY <1>1, LeaveIsInOrder
<1>2. CASE \/ Start \/ StartLive \/ MakeRun \/ OpenSource \/ CloseSource
           \/ (\E e \in Episode : SourceEpisode(e)) \/ (PlanEpisode /\ ~Leave)
  <2>1. UNCHANGED man
    BY <1>2 DEF Start, StartLive, MakeRun, OpenSource, CloseSource, SourceEpisode, PlanEpisode, disk
  <2>2. CASE Start \/ StartLive
    <3>1. Start => phase' = "plan"
      BY DEF Start
    <3>2. StartLive => phase' = "plan" \/ (phase' = "source" /\ job'.mode = "serial")
      BY DEF StartLive
    <3> QED  BY <2>2, <3>1, <3>2 DEF ManifestIsOurs, Backend, Running
  <2>3. CASE MakeRun \/ (PlanEpisode /\ ~Leave)
    <3>1. phase' \in {"plan", "contract"}
      BY <2>3 DEF MakeRun, PlanEpisode
    <3> QED  BY <3>1 DEF ManifestIsOurs, Backend, Running
  <2>4. CASE OpenSource \/ CloseSource \/ \E e \in Episode : SourceEpisode(e)
    <3>1. /\ UNCHANGED <<plan, job>> /\ phase = "source"
          /\ phase' = "source" \/ (phase' = "select" /\ job.mode # "streaming")
      BY <2>4 DEF OpenSource, CloseSource, SourceEpisode
    <3> QED  BY <1>0, <2>1, <3>1 DEF ManifestIsOurs, Backend, Running
  <2> QED  BY <1>2, <2>2, <2>3, <2>4
<1>3. CASE SelectLive /\ ~Leave
  <2>1. /\ UNCHANGED <<man, plan>> /\ job'.config = job.config /\ job'.mode = job.mode
        /\ phase = "select" /\ phase' \in {"plan", "publish"}
        /\ phase' = "publish" => job.mode = "streaming"
    BY <1>3 DEF SelectLive, Take, disk
  <2> QED  BY <1>0, <2>1 DEF ManifestIsOurs, Running, Backend
<1>4. CASE FirstManifest
  <2>1. /\ man'.config = job.config /\ man'.plan = plan /\ man'.status = "running"
        /\ man'.sel = job.sel /\ phase = "contract" /\ UNCHANGED <<job, plan>>
        /\ phase' = "source" => job.mode = "streaming"
    BY <1>4 DEF FirstManifest
  <2> QED  BY <1>0, <2>1 DEF ManifestIsOurs, JobInOrder
<1>5. CASE ResumeManifest /\ ~Leave
  <2>1. /\ Checkpoint(plan, man.rec, "running") /\ Reconciled /\ phase' = "scan"
        /\ UNCHANGED <<job, plan>>
    BY <1>5 DEF ResumeManifest
  <2> QED  BY <1>0, <2>1, CheckpointWrites DEF ManifestIsOurs, Reconciled
<1>6. CASE PlanReady
  <2>1. /\ phase' = "source" /\ phase = "source" /\ UNCHANGED job /\ man.status = "running"
        /\ man.plan = plan /\ man.config = job.config /\ man.sel = Episode
    BY <1>6, NextInStream, AtWork DEF PlanReady
  <2>2. UNCHANGED <<man, plan>> \/ Checkpoint(plan', man.rec, man.status)
    BY <1>6 DEF PlanReady
  <2>3. man'.plan = plan' /\ man'.config = job.config /\ man'.sel = Episode /\ man'.status = "running"
    BY <2>1, <2>2, CheckpointWrites
  <2> QED  BY <2>1, <2>3 DEF ManifestIsOurs
<1>7. CASE (ScanEpisode /\ ~Leave) \/ SaveRecord
  <2>1. /\ UNCHANGED <<phase, job, plan>> /\ Backend /\ Running /\ man.status = "running"
        /\ man.config = job.config /\ man.plan = plan
    BY <1>7, AtWork DEF ScanEpisode, SaveRecord
  <2>2. UNCHANGED man \/ \E r : Checkpoint(man.plan, r, man.status)
    BY <1>7 DEF ScanEpisode, SaveRecord
  <2>3. man'.plan = man.plan /\ man'.status = man.status
    BY <2>2, CheckpointWrites
  <2> QED  BY <1>0, <1>7, <2>1, <2>3 DEF ManifestIsOurs, FirstManifest, ScanEpisode, SaveRecord
<1>8. CASE FinishBackend \/ FinishWorker
  <2>1. /\ phase' \in {"publish", "select"} /\ UNCHANGED <<job, plan>>
        /\ man.config = job.config /\ man.plan = plan
    BY <1>8, AtWork DEF FinishBackend, FinishWorker
  <2>2. \E r, s : Checkpoint(man.plan, r, s)
    BY <1>8 DEF FinishBackend, FinishWorker, CloseManifest
  <2>3. man'.plan = man.plan /\ man'.config = man.config
    BY <2>2, CheckpointWrites
  <2> QED  BY <2>1, <2>3 DEF ManifestIsOurs, Backend
<1>9. CASE FinishScan \/ BeginRender \/ FinishRender
  <2>1. /\ UNCHANGED <<man, job, plan>> /\ Backend /\ Running
        /\ phase' = "source" => phase = "source"
    BY <1>9, AtWork DEF FinishScan, BeginRender, FinishRender, disk
  <2> QED  BY <1>0, <2>1 DEF ManifestIsOurs
<1>10. CASE PreparePublish \/ FailPublish \/ PublishTree \/ SkipTree
            \/ FinishPublish \/ ValidateEpisode \/ RenderReview
  <2>1. /\ UNCHANGED <<man, job, plan>> /\ phase \in {"publish", "validate", "close"}
        /\ phase' \in {"publish", "validate", "close"}
    BY <1>10 DEF PreparePublish, FailPublish, PublishTree, SkipTree,
       FinishPublish, ValidateEpisode, RenderReview, InHand, disk
  <2> QED  BY <1>0, <2>1 DEF ManifestIsOurs, Backend, Running
<1>11. CASE ChangeSource \/ UNCHANGED vars
  BY <1>0, <1>11 DEF ChangeSource, vars, memory, disk, ManifestIsOurs, Backend, Running
<1> QED
  BY <1>1, <1>2, <1>3, <1>4, <1>5, <1>6, <1>7, <1>8, <1>9, <1>10, <1>11 DEF Next, WriteSummary, Crash

LEMMA StandsStays == ASSUME IInv, [Next]_vars, NEW e \in Episode, Stands(e) PROVE Stands(e)'
<1>1. ~FirstManifest
  BY FirstManifestIsNew DEF Stands
<1> QED  BY <1>1, ManifestGrows, DirectoriesGrow DEF Stands

LEMMA RecordsStep == ASSUME IInv, [Next]_vars PROVE RecordsStand'
<1>0. /\ RecordsStand /\ JobInOrder /\ todo \subseteq Episode /\ temp.episode \in Episode
      /\ rec \in [Episode -> Status]
      /\ \A e \in Episode : Stands(e) => Stands(e)'
  BY StandsStays DEF IInv, TypeOK
<1>1. ASSUME UNCHANGED man,
             Running' => \A e \in Episode : rec'[e] = "complete" => rec[e] = "complete" /\ Running
      PROVE  RecordsStand'
  BY <1>0, <1>1 DEF RecordsStand
<1>2. CASE Leave /\ UNCHANGED man
  BY <1>1, <1>2, LeaveIsInOrder
<1>3. CASE FirstManifest
  <2>1. /\ \A e \in Episode : rec'[e] \in {"pending", "none"}
        /\ man'.rec = rec' /\ man'.status = "running"
    BY <1>3 DEF FirstManifest
  <2> QED  BY <2>1 DEF RecordsStand
<1>4. CASE ResumeManifest /\ ~Leave
  <2>1. Checkpoint(plan, man.rec, "running") /\ rec' = man.rec
    BY <1>4 DEF ResumeManifest
  <2>2. man'.rec = man.rec /\ man'.status = "running"
    BY <2>1, CheckpointWrites
  <2> QED  BY <1>0, <2>1, <2>2 DEF RecordsStand
<1>5. CASE ScanEpisode /\ ~Leave
  <2> DEFINE e == First(todo)
  <2>1. todo # {} /\ e \in Episode
    BY <1>0, <1>5, FirstIsIn DEF ScanEpisode
  <2>2. /\ Running /\ man.config = job.config /\ man.config # NoConfig /\ man.plan = plan
        /\ man.status = "running" /\ phase = "scan"
    BY <1>5, AtWork DEF ScanEpisode
  <2>3. plan[e] # None
    BY <1>0, <2>1, <2>2, FirstIsIn DEF IInv, JobInOrder, PlansInOrder
  <2>4. bdir[e] = Rendering(e) => Stands(e)
    BY <2>2, <2>3 DEF Rendering, Stands, NoDir
  <2>5. \/ UNCHANGED <<man, rec, phase, job>>
        \/ /\ Checkpoint(man.plan, rec', man.status)
           /\ rec' = [rec EXCEPT ![e] = "complete"] /\ bdir[e] = Rendering(e)
        \/ /\ Checkpoint(man.plan, rec', man.status)
           /\ rec' = [rec EXCEPT ![e] = "failed"]
    BY <1>5 DEF ScanEpisode
  <2> HIDE DEF e
  <2>6. CASE UNCHANGED <<man, rec, phase, job>>
    BY <1>1, <2>2, <2>6
  <2>7. CASE Checkpoint(man.plan, rec', man.status)
    <3>1. man'.rec = rec' /\ man'.status = "running"
      BY <2>2, <2>7, CheckpointWrites
    <3>2. \A f \in Episode : rec'[f] = "complete" => Stands(f)
      BY <1>0, <2>1, <2>2, <2>4, <2>5 DEF RecordsStand
    <3> QED  BY <1>0, <3>1, <3>2 DEF RecordsStand
  <2> QED  BY <2>5, <2>6, <2>7
<1>6. CASE PlanReady
  <2>1. Running /\ man.status = "running" /\ Head(ready) \in Episode
    BY <1>6, AtWork, NextInStream
  <2>2. /\ UNCHANGED rec \/ rec' = [rec EXCEPT ![Head(ready)] = "failed"]
        /\ UNCHANGED man \/ Checkpoint(plan', man.rec, man.status)
    BY <1>6 DEF PlanReady
  <2>3. man'.rec = man.rec /\ man'.status = "running"
    BY <2>1, <2>2, CheckpointWrites
  <2>4. \A e \in Episode : rec'[e] = "complete" => rec[e] = "complete"
    BY <1>0, <2>1, <2>2
  <2> QED  BY <1>0, <2>1, <2>3, <2>4 DEF RecordsStand
<1>7. CASE FinishRender
  <2>0. PICK e \in Episode : e = temp.episode
    BY <1>0
  <2>1. /\ Running /\ man.config = job.config /\ man.config # NoConfig /\ man.plan = plan
        /\ plan[e] # None /\ UNCHANGED man
    BY <1>7, <2>0, AtWork DEF FinishRender, IInv, HandInOrder
  <2>2. bdir \in [Episode -> Rendered]
    BY DEF IInv, TypeOK
  <2>3. \/ rec' = [rec EXCEPT ![e] = "failed"]
        \/ /\ bdir' = [bdir EXCEPT ![e] = Rendering(e)]
           /\ \/ rec' = [rec EXCEPT ![e] = "failed"]
              \/ rec' = [rec EXCEPT ![e] = "complete"]
    BY <1>7, <2>0 DEF FinishRender
  <2>4. rec'[e] = "complete" => Stands(e)'
    BY <1>0, <2>1, <2>2, <2>3 DEF Rendering, Stands, NoDir
  <2>5. \A f \in Episode : f # e => rec'[f] = rec[f]
    BY <1>0, <2>3
  <2> QED  BY <1>0, <2>1, <2>4, <2>5 DEF RecordsStand
<1>8. CASE SaveRecord
  <2>1. Running /\ man.status = "running" /\ UNCHANGED rec /\ Checkpoint(man.plan, rec, man.status)
    BY <1>8, AtWork DEF SaveRecord
  <2>2. man'.rec = rec /\ man'.status = "running"
    BY <2>1, CheckpointWrites
  <2> QED  BY <1>0, <2>1, <2>2 DEF RecordsStand
<1>9. CASE FinishBackend \/ FinishWorker
  <2>1. Running
    BY <1>9, AtWork DEF FinishBackend, FinishWorker
  <2>2. /\ CloseManifest(rec')
        /\ \A e \in Episode : rec'[e] = "complete" => rec[e] = "complete"
    BY <1>9 DEF FinishBackend, FinishWorker
  <2>3. /\ man'.rec = rec' /\ man'.sel = man.sel
        /\ man'.status = "complete" => \A e \in man.sel : rec'[e] = "complete"
    BY <2>2, CheckpointWrites DEF CloseManifest
  <2> QED  BY <1>0, <2>1, <2>2, <2>3 DEF RecordsStand
<1>10. CASE Start \/ StartLive \/ MakeRun \/ (PlanEpisode /\ ~Leave)
  <2>1. /\ UNCHANGED man
        /\ phase' \in {"plan", "contract"} \/ (phase' = "source" /\ job'.mode = "serial")
    <3>1. Start => phase' = "plan" /\ UNCHANGED man
      BY DEF Start, disk
    <3>2. StartLive => phase' = "plan" \/ (phase' = "source" /\ job'.mode = "serial")
      BY DEF StartLive
    <3>3. StartLive => UNCHANGED man
      BY DEF StartLive, disk
    <3>4. MakeRun \/ (PlanEpisode /\ ~Leave) => phase' \in {"plan", "contract"} /\ UNCHANGED man
      BY DEF MakeRun, PlanEpisode, disk
    <3> QED  BY <1>10, <3>1, <3>2, <3>3, <3>4
  <2> QED  BY <1>1, <2>1 DEF Running, Backend
<1>11. CASE \/ OpenSource \/ CloseSource \/ (SelectLive /\ ~Leave)
            \/ \E e \in Episode : SourceEpisode(e)
  <2>1. /\ UNCHANGED <<man, rec>> /\ job'.mode = job.mode /\ phase \in {"source", "select"}
        /\ phase' \in {"source", "select", "plan"} \/ (phase' = "publish" /\ job.mode = "streaming")
    <3>1. CASE OpenSource \/ CloseSource
      BY <3>1 DEF OpenSource, CloseSource, disk
    <3>2. CASE SelectLive /\ ~Leave
      BY <3>2 DEF SelectLive, Take, disk
    <3>3. CASE \E e \in Episode : SourceEpisode(e)
      BY <3>3 DEF SourceEpisode, disk
    <3> QED  BY <1>11, <3>1, <3>2, <3>3
  <2> QED  BY <1>1, <2>1 DEF Running, Backend
<1>12. CASE \/ FinishScan \/ BeginRender \/ PreparePublish \/ FailPublish \/ PublishTree \/ SkipTree
            \/ FinishPublish \/ ValidateEpisode \/ RenderReview
  <2>1. UNCHANGED <<man, rec, job>> /\ Running
    <3>1. CASE FinishScan \/ BeginRender
      BY <3>1, AtWork DEF FinishScan, BeginRender, disk
    <3>2. CASE PreparePublish \/ FailPublish \/ PublishTree \/ SkipTree \/ FinishPublish
               \/ ValidateEpisode \/ RenderReview
      BY <3>2 DEF PreparePublish, FailPublish, PublishTree, SkipTree, FinishPublish,
         ValidateEpisode, RenderReview, InHand, Running, disk
    <3> QED  BY <1>12, <3>1, <3>2
  <2> QED  BY <1>1, <2>1
<1>13. CASE ChangeSource \/ UNCHANGED vars
  BY <1>1, <1>13 DEF ChangeSource, vars, memory, disk, Running, Backend
<1>14. WriteSummary \/ Crash => Leave /\ UNCHANGED man
  BY DEF WriteSummary, Crash, disk
<1>15. ResumeManifest \/ ScanEpisode \/ PlanEpisode \/ SelectLive => (Leave => UNCHANGED man)
  BY DEF ResumeManifest, ScanEpisode, PlanEpisode, SelectLive, disk, Leave, Planned
<1> QED
  BY <1>2, <1>3, <1>4, <1>5, <1>6, <1>7, <1>8, <1>9, <1>10, <1>11, <1>12, <1>13, <1>14, <1>15
     DEF Next

\* Everything the stream and the hand say of the episodes before a live source is
\* opened, or as long as the run has no manifest.
LEMMA NothingYet ==
    ASSUME IInv, phase \in {"idle", "plan", "contract", "scan", "select"}
    PROVE  /\ temp.step = "idle" /\ ready = <<>>
           /\ phase = "idle" => plan = Nobody /\ todo = {}
           /\ man.config = NoConfig => \A e \in Episode : bdir[e] = NoDir
           /\ ~made => man.config = NoConfig
BY DEF IInv, HandInOrder, StreamInOrder, JobInOrder, AtRest, DirectoryInOrder

LEMMA StreamStep == ASSUME IInv, [Next]_vars PROVE StreamInOrder'
<1>0. /\ StreamInOrder /\ ready \in Seq(Episode) /\ todo \subseteq Episode
      /\ plan \in [Episode -> Lineage] /\ bdir \in [Episode -> Rendered]
      /\ ~src.made => src.summary = 0
  BY DEF IInv, TypeOK, SourceVersions
<1>1. ASSUME phase # "source", phase' # "source", UNCHANGED ready
      PROVE  StreamInOrder'
  BY <1>0, <1>1 DEF StreamInOrder
<1>2. CASE Leave
  BY <1>2, LeaveIsInOrder
<1>3. CASE Start \/ StartLive
  <2>1. /\ ready = <<>> /\ temp.step = "idle" /\ todo = {} /\ plan = Nobody /\ UNCHANGED ready
        /\ phase = "idle"
    BY <1>3, NothingYet DEF Start, StartLive
  <2>2. CASE Start
    BY <1>1, <2>1, <2>2 DEF Start
  <2>3. CASE StartLive
    <3>1. \A e \in Episode : Untouched(e) /\ Untouched(e)'
      BY <2>1, <2>3, NothingYet DEF StartLive, Owned, Untouched, Nobody, disk
    <3>2. UNCHANGED <<todo, temp>>
      BY <2>3 DEF StartLive
    <3> QED  BY <2>1, <3>1, <3>2 DEF StreamInOrder
  <2> QED  BY <1>3, <2>2, <2>3
<1>4. CASE OpenSource
  <2>1. /\ phase = "source" /\ ~src.made /\ UNCHANGED <<phase, ready, plan, bdir, temp, job>>
        /\ src'.made
    BY <1>4 DEF OpenSource, Source, disk
  <2>2. /\ ready = <<>> /\ temp.step = "idle" /\ \A e \in Episode : Untouched(e)
    BY <1>0, <2>1 DEF StreamInOrder
  <2>3. \A e \in Episode : Untouched(e)'
    BY <2>1, <2>2 DEF Untouched
  <2>4. todo' \subseteq Episode
    BY <1>4 DEF OpenSource
  <2> QED  BY <2>1, <2>2, <2>3, <2>4 DEF StreamInOrder
<1>5. ASSUME NEW e \in Episode, SourceEpisode(e) PROVE StreamInOrder'
  <2>1. /\ phase = "source" /\ src.made /\ src'.made /\ e \in todo /\ todo' = todo \ {e}
        /\ UNCHANGED <<phase, job, plan, bdir, temp>>
        /\ ready' = ready \/ (ready' = Append(ready, e) /\ job.mode = "streaming")
    BY <1>5 DEF SourceEpisode, Source, disk
  <2>2. \A f \in Episode : Untouched(f)' <=> Untouched(f)
    BY <2>1 DEF Untouched
  <2>3. Untouched(e) /\ \A i \in DOMAIN ready : ready[i] # e /\ ready[i] \in Episode
    BY <1>0, <2>1 DEF StreamInOrder
  <2>4. CASE ready' = ready
    BY <1>0, <2>1, <2>2, <2>4 DEF StreamInOrder
  <2>5. CASE ready' = Append(ready, e) /\ job.mode = "streaming"
    <3>1. /\ DOMAIN ready = 1..Len(ready) /\ Len(ready) \in Nat
          /\ DOMAIN ready' = 1..(Len(ready) + 1)
          /\ ready'[Len(ready) + 1] = e
          /\ \A i \in DOMAIN ready : ready'[i] = ready[i]
      BY <1>0, <2>5
    <3>2. \A i \in DOMAIN ready' : i \in DOMAIN ready \/ i = Len(ready) + 1
      BY <3>1
    <3>3. \A i, k \in DOMAIN ready' : ready'[i] = ready'[k] => i = k
      BY <1>0, <2>3, <3>1, <3>2 DEF StreamInOrder
    <3>4. \A f \in todo' : Untouched(f)' /\ \A i \in DOMAIN ready' : ready'[i] # f
      BY <1>0, <2>1, <2>2, <3>1, <3>2 DEF StreamInOrder
    <3>5. \A i \in DOMAIN ready' :
            i > 1 \/ temp.step = "idle" => plan'[ready'[i]] = None /\ bdir'[ready'[i]] = NoDir
      BY <1>0, <2>1, <2>3, <3>1, <3>2 DEF StreamInOrder, Untouched
    <3>6. temp.step # "idle" => ready # <<>> /\ temp.episode = ready[1]
      BY <1>0, <2>1 DEF StreamInOrder
    <3>7. temp.step # "idle" => ready' # <<>> /\ temp.episode = ready'[1]
      BY <1>0, <3>1, <3>6
    <3> QED  BY <2>1, <2>5, <3>3, <3>4, <3>5, <3>7 DEF StreamInOrder, Untouched
  <2> QED  BY <2>1, <2>4, <2>5
<1>6. CASE CloseSource
  <2>1. /\ phase = "source" /\ src'.made /\ UNCHANGED <<job, ready, plan, bdir, temp, todo>>
        /\ phase' = "source" \/ (phase' = "select" /\ job.mode # "streaming")
    BY <1>6 DEF CloseSource, Source, disk
  <2>2. \A f \in Episode : Untouched(f)' <=> Untouched(f)
    BY <2>1 DEF Untouched
  <2>3. \A i \in DOMAIN ready : ready[i] \in Episode
    BY <1>0
  <2> QED  BY <1>0, <2>1, <2>2, <2>3 DEF StreamInOrder
<1>7. CASE FirstManifest
  <2>1. /\ phase = "contract" /\ temp.step = "idle" /\ ready = <<>>
        /\ UNCHANGED <<temp, ready, plan, bdir, job>>
        /\ \A e \in Episode : bdir[e] = NoDir
        /\ phase' = "scan" \/ (phase' = "source" /\ job.mode = "streaming" /\ todo' = {})
    BY <1>7, NothingYet, FirstManifestIsNew DEF FirstManifest
  <2>2. phase' = "source" => \A e \in Episode : Untouched(e)'
    BY <2>1 DEF IInv, PlansInOrder, Nobody, Untouched
  <2> QED  BY <2>1, <2>2 DEF StreamInOrder
<1>8. CASE PlanReady
  <2>0. PICK e \in Episode : e = Head(ready)
    BY <1>8, NextInStream
  <2>1. /\ phase = "source" /\ ready # <<>> /\ e = ready[1] /\ temp.step = "idle"
        /\ temp'.episode = e /\ UNCHANGED <<phase, job, ready, todo, bdir, src>>
    BY <1>8, <2>0, NextInStream DEF PlanReady, disk
  <2>2. \A f \in Episode : f # e => plan'[f] = plan[f]
    BY <1>0, <1>8, <2>0 DEF PlanReady
  <2>3. \A f \in Episode : f # e /\ Untouched(f) => Untouched(f)'
    BY <2>1, <2>2 DEF Untouched
  <2>4. 1 \in DOMAIN ready /\ \A i \in DOMAIN ready : ready[i] \in Episode /\ i \in Nat \ {0}
    BY <1>0, <2>1
  <2>5. src.made
    BY <1>0, <2>1 DEF StreamInOrder
  <2>6. \A i \in DOMAIN ready : i > 1 => ready[i] # e /\ Untouched(ready[i])
    BY <1>0, <2>1, <2>4 DEF StreamInOrder
  <2>7. \A f \in todo : f # e /\ Untouched(f)
    BY <1>0, <2>1, <2>4 DEF StreamInOrder
  <2>8. temp'.step # "idle"
    BY <1>8 DEF PlanReady
  <2> QED  BY <1>0, <2>1, <2>3, <2>4, <2>5, <2>6, <2>7, <2>8 DEF StreamInOrder
<1>9. CASE (BeginRender \/ FinishRender) /\ phase = "source"
  <2>1. /\ UNCHANGED <<phase, job, ready, todo, plan, src>> /\ temp.step # "idle"
        /\ temp'.step # "idle" /\ temp'.episode = temp.episode
    BY <1>9 DEF BeginRender, FinishRender, InHandAt
  <2>2. ready # <<>> /\ temp.episode = ready[1] /\ src.made
    BY <1>0, <1>9, <2>1 DEF StreamInOrder
  <2>3. 1 \in DOMAIN ready /\ \A i \in DOMAIN ready : ready[i] \in Episode /\ i \in Nat \ {0}
    BY <1>0, <2>2
  <2>4. \A f \in Episode : f # ready[1] => bdir'[f] = bdir[f]
    BY <1>0, <1>9, <2>2 DEF BeginRender, FinishRender, disk
  <2>5. \A f \in Episode : f # ready[1] /\ Untouched(f) => Untouched(f)'
    BY <2>1, <2>4 DEF Untouched
  <2>6. \A i \in DOMAIN ready : i > 1 => ready[i] # ready[1] /\ Untouched(ready[i])
    BY <1>0, <1>9, <2>3 DEF StreamInOrder
  <2>7. \A f \in todo : f # ready[1] /\ Untouched(f)
    BY <1>0, <1>9, <2>3 DEF StreamInOrder
  <2> QED  BY <1>0, <1>9, <2>1, <2>2, <2>3, <2>5, <2>6, <2>7 DEF StreamInOrder
<1>10. CASE SaveRecord /\ phase = "source"
  <2>1. /\ UNCHANGED <<phase, job, todo, plan, src, bdir>> /\ temp.step # "idle"
        /\ temp'.step = "idle" /\ ready' = Tail(ready)
    BY <1>10 DEF SaveRecord, Hold, InHandAt
  <2>2. ready # <<>> /\ src.made
    BY <1>0, <1>10, <2>1 DEF StreamInOrder
  <2>3. /\ DOMAIN ready = 1..Len(ready) /\ Len(ready) \in Nat
        /\ \A i \in DOMAIN ready : ready[i] \in Episode
        /\ DOMAIN ready' = 1..(Len(ready) - 1)
        /\ \A i \in DOMAIN ready' : ready'[i] = ready[i + 1]
    BY <1>0, <2>1, <2>2
  <2>4. \A i \in DOMAIN ready' : i + 1 \in DOMAIN ready /\ i + 1 > 1 /\ i \in Nat
    BY <2>3
  <2>5. \A f \in Episode : Untouched(f)' <=> Untouched(f)
    BY <2>1 DEF Untouched
  <2>6. \A i, k \in DOMAIN ready' : ready'[i] = ready'[k] => i = k
    <3>1. \A i, k \in DOMAIN ready' : ready'[i] = ready'[k] => i + 1 = k + 1
      BY <1>0, <2>3, <2>4 DEF StreamInOrder
    <3> QED  BY <2>4, <3>1
  <2>7. \A i \in DOMAIN ready' : plan'[ready'[i]] = None /\ bdir'[ready'[i]] = NoDir
    BY <1>0, <1>10, <2>1, <2>3, <2>4 DEF StreamInOrder, Untouched
  <2>8. \A f \in todo : Untouched(f)' /\ \A i \in DOMAIN ready' : ready'[i] # f
    BY <1>0, <1>10, <2>3, <2>4, <2>5 DEF StreamInOrder
  <2>9. job.mode = "streaming"
    BY <1>0, <2>2 DEF StreamInOrder
  <2> QED  BY <1>10, <2>1, <2>2, <2>6, <2>7, <2>8, <2>9 DEF StreamInOrder, Untouched
<1>11. CASE (BeginRender \/ FinishRender \/ SaveRecord) /\ phase # "source"
  <2>1. phase' # "source" /\ UNCHANGED ready
    BY <1>11 DEF BeginRender, FinishRender, SaveRecord
  <2> QED  BY <1>1, <1>11, <2>1
<1>12. CASE FinishWorker
  BY <1>0, <1>12 DEF FinishWorker, StreamInOrder
<1>13. CASE \/ MakeRun \/ ((SelectLive \/ PlanEpisode \/ ResumeManifest \/ ScanEpisode) /\ ~Leave)
            \/ FinishScan \/ FinishBackend
  BY <1>1, <1>13 DEF MakeRun, Planned, PlanEpisode, SelectLive, Take, ResumeManifest, ScanEpisode,
     FinishScan, FinishBackend
<1>14. CASE \/ PreparePublish \/ FailPublish \/ PublishTree \/ SkipTree
            \/ FinishPublish \/ ValidateEpisode \/ RenderReview
  BY <1>1, <1>14 DEF PreparePublish, FailPublish, PublishTree, SkipTree, FinishPublish,
     ValidateEpisode, RenderReview, InHand
<1>15. CASE ChangeSource \/ UNCHANGED vars
  <2>1. /\ UNCHANGED <<phase, job, ready, todo, temp, plan, bdir>>
        /\ src.made => src'.made
        /\ src'.made \/ ~src.made
    BY <1>15 DEF ChangeSource, ChangeMasks, ChangeOther, ChangeLoose, ChangeSummary, Source, vars,
       memory, disk
  <2>2. ChangeSource => src.made
    BY <1>0, <1>15 DEF ChangeSource
  <2>3. \A f \in Episode : Untouched(f)' <=> Untouched(f)
    BY <2>1 DEF Untouched
  <2>4. \A i \in DOMAIN ready : ready[i] \in Episode
    BY <1>0
  <2> QED  BY <1>0, <1>15, <2>1, <2>2, <2>3, <2>4 DEF StreamInOrder, vars
<1> QED
  BY <1>2, <1>3, <1>4, <1>5, <1>6, <1>7, <1>8, <1>9, <1>10, <1>11, <1>12, <1>13, <1>14, <1>15
     DEF Next, WriteSummary, Crash

LEMMA HandStep == ASSUME IInv, [Next]_vars PROVE HandInOrder'
<1>0. /\ HandInOrder /\ ready \in Seq(Episode) /\ todo \subseteq Episode
      /\ plan \in [Episode -> Lineage] /\ bdir \in [Episode -> Rendered] /\ rec \in [Episode -> Status]
      /\ temp.episode \in Episode
  BY DEF IInv, TypeOK
<1>1. ASSUME temp'.step = "idle", phase' = "render" => \A e \in todo' : bdir'[e] = NoDir
      PROVE  HandInOrder'
  BY <1>1 DEF HandInOrder
<1>2. CASE Leave
  BY <1>2, LeaveIsInOrder
<1>3. CASE \/ Start \/ StartLive \/ MakeRun \/ FirstManifest
           \/ ((SelectLive \/ PlanEpisode \/ ResumeManifest \/ ScanEpisode) /\ ~Leave)
  <2>1. phase \in {"idle", "plan", "contract", "scan", "select"}
    BY <1>3 DEF Start, StartLive, MakeRun, Planned, FirstManifest, SelectLive, PlanEpisode,
       ResumeManifest, ScanEpisode
  <2>2. UNCHANGED temp /\ phase' # "render"
    <3>1. CASE Start
      BY <3>1 DEF Start
    <3>2. CASE StartLive
      BY <3>2 DEF StartLive
    <3>3. CASE MakeRun \/ FirstManifest
      BY <3>3 DEF MakeRun, FirstManifest
    <3>4. CASE (SelectLive \/ PlanEpisode \/ ResumeManifest \/ ScanEpisode) /\ ~Leave
      BY <3>4 DEF SelectLive, Take, PlanEpisode, ResumeManifest, ScanEpisode
    <3> QED  BY <1>3, <3>1, <3>2, <3>3, <3>4
  <2> QED  BY <1>1, <2>1, <2>2, NothingYet
<1>4. CASE OpenSource \/ \E e \in Episode : SourceEpisode(e)
  BY <1>0, <1>4 DEF OpenSource, SourceEpisode, disk, HandInOrder
<1>5. CASE CloseSource
  <2>1. /\ phase = "source" /\ UNCHANGED <<temp, plan, bdir, job>>
        /\ phase' = "source" \/ (phase' = "select" /\ job.mode # "streaming")
    BY <1>5 DEF CloseSource, disk
  <2>2. job.mode # "streaming" => temp.step = "idle"
    BY <2>1 DEF IInv, StreamInOrder
  <2> QED  BY <1>0, <1>1, <2>1, <2>2 DEF HandInOrder
<1>6. CASE FinishScan
  BY <1>1, <1>6, NothingYet DEF FinishScan, disk
<1>7. CASE PlanReady
  <2>0. PICK e \in Episode : e = Head(ready)
    BY <1>7, NextInStream
  <2>1. /\ phase = "source" /\ UNCHANGED <<phase, bdir>> /\ bdir[e] = NoDir /\ temp'.episode = e
        /\ \/ /\ temp'.step = "planned" /\ SourceValid(e) /\ plan' = [plan EXCEPT ![e] = LineageOf(e)]
           \/ temp'.step = "rendered"
    BY <1>7, <2>0, NextInStream DEF PlanReady, Untouched
  <2>2. temp'.step = "planned" => plan'[e] # None
    BY <1>0, <2>1, ValidHasLineage
  <2> QED  BY <2>1, <2>2 DEF HandInOrder
<1>8. CASE BeginRender
  <2>0. PICK e : e = (IF phase = "source" THEN temp.episode ELSE First(todo))
    OBVIOUS
  <2>1. /\ UNCHANGED <<phase, plan, bdir, todo>> /\ temp'.episode = e /\ temp'.step = "rendering"
        /\ \/ phase = "source" /\ temp.step = "planned"
           \/ phase = "render" /\ temp.step = "idle" /\ todo # {}
    BY <1>8, <2>0 DEF BeginRender, disk
  <2>2. phase = "render" => e \in todo
    BY <1>0, <2>0, <2>1, FirstIsIn
  <2>3. plan[e] # None /\ bdir[e] = NoDir
    BY <1>0, <2>0, <2>1, <2>2 DEF HandInOrder, IInv, JobInOrder, PlansInOrder
  <2> QED  BY <1>0, <2>1, <2>2, <2>3 DEF HandInOrder
<1>9. CASE FinishRender
  <2>0. PICK e \in Episode : e = temp.episode
    BY <1>0
  <2>1. /\ temp.step = "rendering" /\ temp'.step = "rendered" /\ temp'.episode = e
        /\ UNCHANGED <<phase, todo>>
        /\ \A f \in Episode : f # e => bdir'[f] = bdir[f]
    BY <1>0, <1>9, <2>0 DEF FinishRender, InHandAt
  <2> QED  BY <1>0, <2>0, <2>1 DEF HandInOrder
<1>10. CASE SaveRecord
  <2>1. /\ temp.step = "rendered" /\ temp'.step = "idle" /\ UNCHANGED <<phase, bdir>>
        /\ phase = "source" \/ todo' = todo \ {temp.episode}
    BY <1>10 DEF SaveRecord, Hold, InHandAt
  <2> QED  BY <1>0, <1>1, <2>1 DEF HandInOrder
<1>11. CASE FinishBackend \/ FinishWorker
  BY <1>1, <1>11 DEF FinishBackend, FinishWorker
<1>12. CASE PreparePublish
  <2>0. PICK e \in Episode : e = First(todo)
    BY <1>0, <1>12, FirstIsIn DEF PreparePublish
  <2>1. /\ phase = "publish" /\ UNCHANGED <<phase, plan, bdir, job, src>> /\ Publishable(e)
        /\ temp' = [step |-> "staging", episode |-> e, read |-> LineageOf(e)]
    BY <1>12, <2>0 DEF PreparePublish, disk
  <2>2. /\ SourceValid(e) /\ LineageOf(e) = plan[e] /\ plan[e] = job.frozen[e]
        /\ bdir[e] = [masks |-> src.masks[e], config |-> job.config]
    BY <2>1 DEF Publishable, ProductHolds, Rendering
  <2>3. LineageOf(e) # None /\ LineageOf(e).masks = src.masks[e]
    BY <2>2, ValidHasLineage DEF LineageOf
  <2> QED  BY <2>1, <2>2, <2>3 DEF HandInOrder
<1>13. CASE FailPublish \/ PublishTree \/ SkipTree
  <2>1. temp'.step = "idle" /\ phase' = "publish"
    BY <1>13 DEF FailPublish, PublishTree, SkipTree, InHand, Hold, InHandAt
  <2> QED  BY <1>1, <2>1
<1>14. CASE FinishPublish \/ ValidateEpisode \/ RenderReview
  <2>1. temp.step = "idle" /\ UNCHANGED temp /\ phase' # "render"
    BY <1>0, <1>14 DEF FinishPublish, ValidateEpisode, RenderReview, HandInOrder
  <2> QED  BY <1>1, <2>1
<1>15. CASE ChangeSource \/ UNCHANGED vars
  BY <1>0, <1>15 DEF ChangeSource, vars, memory, disk, HandInOrder
<1> QED
  BY <1>2, <1>3, <1>4, <1>5, <1>6, <1>7, <1>8, <1>9, <1>10, <1>11, <1>12, <1>13, <1>14, <1>15
     DEF Next, WriteSummary, Crash

-----------------------------------------------------------------------------
(* Trees, rows and the summary *)

LEMMA TreesStep == ASSUME IInv, [Next]_vars PROVE TreesStand'
<1> SUFFICES ASSUME NEW e \in Episode, cdir'[e] # NoTree
             PROVE  /\ cdir'[e].lineage = man'.plan[e]
                    /\ cdir'[e].masks = cdir'[e].lineage.masks
                    /\ bdir'[e] = [masks |-> cdir'[e].masks, config |-> man'.config]
                    /\ cdir'[e].config = man'.config
                    /\ cdir'[e].lineage # None
  BY DEF TreesStand
<1>1. CASE cdir'[e] = cdir[e]
  <2>1. man.config # NoConfig /\ ~FirstManifest
    BY <1>1, FirstManifestIsNew DEF IInv, DirectoryInOrder
  <2>2. /\ cdir[e].lineage = man.plan[e] /\ cdir[e].masks = cdir[e].lineage.masks
        /\ bdir[e] = [masks |-> cdir[e].masks, config |-> man.config]
        /\ cdir[e].config = man.config /\ cdir[e].lineage # None
    BY <1>1 DEF IInv, TreesStand
  <2>3. bdir[e] # NoDir
    BY <2>1, <2>2 DEF NoDir
  <2>4. bdir'[e] = bdir[e] /\ man'.plan[e] = man.plan[e] /\ man'.config = man.config
    BY <2>1, <2>2, <2>3, ManifestGrows, DirectoriesGrow
  <2> QED  BY <1>1, <2>2, <2>4
<1>2. CASE cdir'[e] # cdir[e]
  <2>1. PublishTree /\ e = temp.episode
    BY <1>2, DirectoriesGrow
  <2>2. /\ temp.step = "staging" /\ phase = "publish" /\ UNCHANGED <<man, bdir>>
        /\ cdir' = [cdir EXCEPT ![e] = [lineage |-> temp.read, masks |-> temp.read.masks,
                                        config |-> job.config]]
    BY <2>1 DEF PublishTree, InHand
  <2>3. cdir'[e] = [lineage |-> temp.read, masks |-> temp.read.masks, config |-> job.config]
    BY <2>2 DEF IInv, TypeOK
  <2>4. /\ temp.read # None /\ temp.read = plan[e]
        /\ bdir[e] = [masks |-> temp.read.masks, config |-> job.config]
    BY <2>1, <2>2 DEF IInv, HandInOrder
  <2>5. man.plan = plan /\ man.config = job.config
    BY <2>2 DEF IInv, ManifestIsOurs, Running
  <2> QED  BY <2>2, <2>3, <2>4, <2>5
<1> QED  BY <1>1, <1>2

\* The files of a tree that is there change only with the source they are linked
\* to, and that is written down.
LEMMA FilesAreKept ==
    ASSUME IInv, [Next]_vars, NEW e \in Episode, cdir[e] # NoTree
    PROVE  /\ KeptOrShared(beside[e].other, beside'[e].other, src.other[e], src'.other[e])
           /\ KeptOrShared(beside[e].loose, beside'[e].loose, loose[e], loose'[e])
           /\ beside[e].other.edited => beside'[e].other.edited
           /\ beside'[e].other.version # beside[e].other.version => beside'[e].other.edited
<1>0. /\ beside \in [Episode -> Beside] /\ src.other \in [Episode -> Version]
      /\ loose \in [Episode -> Version] /\ TypeOK /\ SourceVersions
      /\ beside[e].other \in File /\ beside[e].loose \in File
  BY DEF IInv, TypeOK, Beside
<1>1. /\ beside[e].other.linked => beside[e].other.version = src.other[e]
      /\ beside[e].loose.linked => beside[e].loose.version = loose[e]
  BY DEF IInv, LinksAreShared
<1>2. CASE beside'[e] = beside[e]
  BY <1>2 DEF KeptOrShared
<1>3. CASE ChangeSource
  <2>1. CASE UNCHANGED beside
    BY <1>2, <2>1
  <2>2. ASSUME NEW g \in Episode, NEW v \in Version, NEW f \in File,
               src'.other = [src.other EXCEPT ![g] = v],
               f \in Afterwards(beside[g].other, v),
               beside' = [beside EXCEPT ![g] = [other |-> f, loose |-> beside[g].loose]]
        PROVE  beside'[e] # beside[e] =>
                   /\ beside'[e].loose = beside[e].loose
                   /\ beside'[e].other \in Afterwards(beside[e].other, v)
                   /\ src'.other[e] = v
    BY <1>0, <2>2
  <2>3. ASSUME NEW g \in Episode, NEW v \in Version, NEW f \in File,
               loose' = [loose EXCEPT ![g] = v],
               f \in Afterwards(beside[g].loose, v),
               beside' = [beside EXCEPT ![g] = [other |-> beside[g].other, loose |-> f]]
        PROVE  beside'[e] # beside[e] =>
                   /\ beside'[e].other = beside[e].other
                   /\ beside'[e].loose \in Afterwards(beside[e].loose, v)
                   /\ loose'[e] = v
    BY <1>0, <2>3
  <2>4. ASSUME NEW v \in Version, beside'[e].loose = beside[e].loose,
               beside'[e].other \in Afterwards(beside[e].other, v), src'.other[e] = v
        PROVE  /\ KeptOrShared(beside[e].other, beside'[e].other, src.other[e], src'.other[e])
               /\ KeptOrShared(beside[e].loose, beside'[e].loose, loose[e], loose'[e])
               /\ beside[e].other.edited => beside'[e].other.edited
               /\ beside'[e].other.version # beside[e].other.version => beside'[e].other.edited
    BY <1>0, <1>1, <2>4, AfterwardsFile DEF KeptOrShared
  <2>5. ASSUME NEW v \in Version, beside'[e].other = beside[e].other,
               beside'[e].loose \in Afterwards(beside[e].loose, v), loose'[e] = v
        PROVE  /\ KeptOrShared(beside[e].other, beside'[e].other, src.other[e], src'.other[e])
               /\ KeptOrShared(beside[e].loose, beside'[e].loose, loose[e], loose'[e])
               /\ beside[e].other.edited => beside'[e].other.edited
               /\ beside'[e].other.version # beside[e].other.version => beside'[e].other.edited
    BY <1>0, <1>1, <2>5, AfterwardsFile DEF KeptOrShared
  <2>6. CASE \E g \in Episode, v \in Version, f \in File :
                 /\ src'.other = [src.other EXCEPT ![g] = v]
                 /\ f \in Afterwards(beside[g].other, v)
                 /\ beside' = [beside EXCEPT ![g] = [other |-> f, loose |-> beside[g].loose]]
    BY <1>2, <2>2, <2>4, <2>6
  <2>7. CASE \E g \in Episode, v \in Version, f \in File :
                 /\ loose' = [loose EXCEPT ![g] = v]
                 /\ f \in Afterwards(beside[g].loose, v)
                 /\ beside' = [beside EXCEPT ![g] = [other |-> beside[g].other, loose |-> f]]
    BY <1>2, <2>3, <2>5, <2>7
  <2> QED  BY <1>0, <1>3, <2>1, <2>6, <2>7, ChangeOfFiles
<1>4. CASE PublishTree
  <2>1. e # temp.episode /\ temp.episode \in Episode
    BY <1>4 DEF PublishTree, IInv, TypeOK
  <2> QED  BY <1>0, <1>2, <1>4, <2>1 DEF PublishTree
<1>5. UNCHANGED beside \/ PublishTree \/ ChangeSource
  BY DEF Next, Start, StartLive, OpenSource, SourceEpisode, CloseSource, SelectLive, PlanEpisode,
     MakeRun, FirstManifest, ResumeManifest, ScanEpisode, FinishScan, PlanReady, BeginRender,
     FinishRender, SaveRecord, FinishBackend, FinishWorker, PreparePublish, FailPublish, SkipTree,
     FinishPublish, ValidateEpisode, RenderReview, WriteSummary, Crash, vars, disk
<1> QED  BY <1>2, <1>3, <1>4, <1>5

LEMMA LinksStep == ASSUME IInv, [Next]_vars PROVE LinksAreShared'
<1>0. /\ beside \in [Episode -> Beside] /\ src.other \in [Episode -> Version]
      /\ loose \in [Episode -> Version] /\ TypeOK /\ SourceVersions /\ LinksAreShared
      /\ \A e \in Episode : beside[e].other \in File /\ beside[e].loose \in File
  BY DEF IInv, TypeOK, Beside
<1>1. ASSUME UNCHANGED <<cdir, beside, loose>>, src'.other = src.other
      PROVE  LinksAreShared'
  BY <1>0, <1>1 DEF LinksAreShared
<1>2. CASE PublishTree
  <2>1. PICK g \in Episode : g = temp.episode
    BY <1>0 DEF TypeOK
  <2>2. /\ UNCHANGED <<src, loose>>
        /\ \E l \in BOOLEAN : beside' = [beside EXCEPT ![g] = [other |-> Materialized(src.other[g], l),
                                                             loose |-> Materialized(loose[g], l)]]
    BY <1>2, <2>1 DEF PublishTree
  <2>3. PICK l \in BOOLEAN : beside'[g] = [other |-> Materialized(src.other[g], l),
                                           loose |-> Materialized(loose[g], l)]
    BY <1>0, <2>2
  <2>4. beside'[g].other.version = src.other[g] /\ beside'[g].loose.version = loose[g]
    BY <2>3 DEF Materialized
  <2>5. \A e \in Episode : e # g => beside'[e] = beside[e] /\ cdir'[e] = cdir[e]
    <3>1. \A e \in Episode : cdir'[e] # cdir[e] => e = g
      BY <2>1, DirectoriesGrow
    <3> QED  BY <1>0, <2>2, <3>1
  <2>6. cdir'[g] # NoTree
    <3>1. /\ job.config # NoConfig
          /\ cdir' = [cdir EXCEPT ![g] = [lineage |-> temp.read, masks |-> temp.read.masks,
                                          config |-> job.config]]
      BY <1>2, <2>1 DEF PublishTree, InHand, IInv, JobInOrder
    <3>2. cdir'[g] = [lineage |-> temp.read, masks |-> temp.read.masks, config |-> job.config]
      BY <3>1 DEF IInv, TypeOK
    <3> QED  BY <3>1, <3>2 DEF NoTree
  <2> QED  BY <1>0, <2>2, <2>4, <2>5, <2>6 DEF LinksAreShared
<1>3. CASE ChangeSource
  <2>1. UNCHANGED cdir
    BY <1>3 DEF ChangeSource
  <2>2. \A v \in Version : Afterwards(NoFile, v) = {NoFile}
    BY DEF Afterwards, NoFile
  <2>3. ASSUME NEW g \in Episode, NEW v \in Version, NEW f \in File,
               src'.other = [src.other EXCEPT ![g] = v],
               f \in Afterwards(beside[g].other, v),
               beside' = [beside EXCEPT ![g] = [other |-> f, loose |-> beside[g].loose]],
               UNCHANGED loose
        PROVE  LinksAreShared'
    <3>1. f.linked => f.version = v
      BY <1>0, <2>3, AfterwardsFile
    <3>2. /\ beside'[g].other = f /\ beside'[g].loose = beside[g].loose /\ src'.other[g] = v
          /\ \A e \in Episode : e # g => beside'[e] = beside[e] /\ src'.other[e] = src.other[e]
      BY <1>0, <2>3
    <3>3. cdir[g] = NoTree => beside'[g] = NoFiles
      <4>1. cdir[g] = NoTree => beside[g].other = NoFile /\ beside[g].loose = NoFile
        BY <1>0 DEF LinksAreShared, NoFiles
      <4>2. cdir[g] = NoTree => f = NoFile
        BY <2>2, <2>3, <4>1
      <4> QED  BY <1>0, <2>3, <4>1, <4>2 DEF NoFiles
    <3> QED  BY <1>0, <2>1, <2>3, <3>1, <3>2, <3>3 DEF LinksAreShared
  <2>4. ASSUME NEW g \in Episode, NEW v \in Version, NEW f \in File,
               loose' = [loose EXCEPT ![g] = v],
               f \in Afterwards(beside[g].loose, v),
               beside' = [beside EXCEPT ![g] = [other |-> beside[g].other, loose |-> f]],
               UNCHANGED src
        PROVE  LinksAreShared'
    <3>1. f.linked => f.version = v
      BY <1>0, <2>4, AfterwardsFile
    <3>2. /\ beside'[g].loose = f /\ beside'[g].other = beside[g].other /\ loose'[g] = v
          /\ \A e \in Episode : e # g => beside'[e] = beside[e] /\ loose'[e] = loose[e]
      BY <1>0, <2>4
    <3>3. cdir[g] = NoTree => beside'[g] = NoFiles
      <4>1. cdir[g] = NoTree => beside[g].other = NoFile /\ beside[g].loose = NoFile
        BY <1>0 DEF LinksAreShared, NoFiles
      <4>2. cdir[g] = NoTree => f = NoFile
        BY <2>2, <2>4, <4>1
      <4> QED  BY <1>0, <2>4, <4>1, <4>2 DEF NoFiles
    <3> QED  BY <1>0, <2>1, <2>4, <3>1, <3>2, <3>3 DEF LinksAreShared
  <2> QED  BY <1>0, <1>1, <1>3, <2>1, <2>3, <2>4, ChangeOfFiles
<1>4. ASSUME NEW g \in Episode, SourceEpisode(g)
      PROVE  LinksAreShared'
  <2>1. UNCHANGED <<cdir, beside, loose>> /\ phase = "source" /\ g \in todo
    BY <1>4 DEF SourceEpisode, disk
  <2>2. \A e \in Episode : e # g => src'.other[e] = src.other[e]
    BY <1>0, <1>4 DEF SourceEpisode, Source
  <2>3. cdir[g] = NoTree
    <3>1. bdir[g] = NoDir
      BY <2>1 DEF IInv, StreamInOrder, Untouched
    <3>2. cdir[g] # NoTree => man.config # NoConfig
      BY DEF IInv, DirectoryInOrder
    <3>3. cdir[g] # NoTree => bdir[g] = [masks |-> cdir[g].masks, config |-> man.config]
      BY DEF IInv, TreesStand
    <3>4. cdir[g] # NoTree => bdir[g].config # NoConfig
      BY <3>2, <3>3
    <3>5. NoDir.config = NoConfig
      BY DEF NoDir
    <3> QED  BY <3>1, <3>4, <3>5
  <2>4. beside[g].other.linked = FALSE
    BY <1>0, <2>3 DEF LinksAreShared, NoFiles, NoFile
  <2> QED  BY <1>0, <2>1, <2>2, <2>4 DEF LinksAreShared
<1>5. CASE OpenSource \/ CloseSource
  <2>1. UNCHANGED <<cdir, beside, loose>> /\ src'.other = src.other
    BY <1>5 DEF OpenSource, CloseSource, Source, disk
  <2> QED  BY <1>1, <2>1
<1>6. CASE UNCHANGED <<src, loose, cdir, beside>>
  BY <1>1, <1>6
<1>7. \/ UNCHANGED <<src, loose, cdir, beside>> \/ PublishTree \/ ChangeSource
      \/ OpenSource \/ CloseSource \/ \E g \in Episode : SourceEpisode(g)
  BY DEF Next, Start, StartLive, SelectLive, PlanEpisode,
     MakeRun, FirstManifest, ResumeManifest, ScanEpisode, FinishScan, PlanReady, BeginRender,
     FinishRender, SaveRecord, FinishBackend, FinishWorker, PreparePublish, FailPublish, SkipTree,
     FinishPublish, ValidateEpisode, RenderReview, WriteSummary, Crash, vars, disk
<1> QED  BY <1>2, <1>3, <1>4, <1>5, <1>6, <1>7

LEMMA RowsStep == ASSUME IInv, [Next]_vars PROVE RowsInOrder'
<1>0. /\ RowsInOrder /\ todo \subseteq Episode /\ job.sel \subseteq Episode
      /\ rows \in [Episode -> Row] /\ late \in [Episode -> Late] /\ cdir \in [Episode -> Tree]
      /\ \A e \in Episode : cdir[e] # NoTree => cdir'[e] = cdir[e]
  BY DirectoriesGrow DEF IInv, TypeOK, Job
<1>1. CASE Leave
  BY <1>1, LeaveIsInOrder
<1>2. ASSUME phase \notin {"publish", "validate", "close"},
             phase' \notin {"publish", "validate", "close"}, UNCHANGED <<rows, late>>
      PROVE  RowsInOrder'
  BY <1>0, <1>2 DEF RowsInOrder, Ok
<1>3. ASSUME phase \notin {"publish", "validate", "close"}, phase' = "publish", todo' = job'.sel,
             UNCHANGED <<rows, late>>
      PROVE  RowsInOrder'
  BY <1>0, <1>3 DEF RowsInOrder, Ok
<1>4. CASE SelectLive /\ ~Leave
  <2>1. /\ phase = "select" /\ phase' \in {"plan", "publish"} /\ todo' = job'.sel
        /\ UNCHANGED <<rows, late>>
    BY <1>4 DEF SelectLive, Take
  <2> QED  BY <1>2, <1>3, <2>1
<1>5. CASE FinishBackend
  BY <1>3, <1>5 DEF FinishBackend
<1>6. CASE Start \/ StartLive
  <2>1. phase = "idle" /\ UNCHANGED <<rows, late>>
    BY <1>6 DEF Start, StartLive
  <2>2. phase' \in {"plan", "source"}
    BY <1>6 DEF Start, StartLive
  <2> QED  BY <1>2, <2>1, <2>2
<1>7. CASE OpenSource \/ CloseSource \/ \E e \in Episode : SourceEpisode(e)
  <2>1. /\ phase = "source" /\ phase' \in {"source", "select"} /\ UNCHANGED <<rows, late>>
    BY <1>7 DEF OpenSource, CloseSource, SourceEpisode
  <2> QED  BY <1>2, <2>1
<1>8. CASE MakeRun \/ FirstManifest \/ ((PlanEpisode \/ ResumeManifest \/ ScanEpisode) /\ ~Leave)
  <2>1. /\ phase \in {"plan", "contract", "scan"} /\ UNCHANGED <<rows, late>>
        /\ phase' \in {"plan", "contract", "scan", "source"}
    BY <1>8 DEF MakeRun, Planned, FirstManifest, PlanEpisode, ResumeManifest, ScanEpisode
  <2> QED  BY <1>2, <2>1
<1>9. CASE FinishScan \/ PlanReady \/ BeginRender \/ FinishRender \/ SaveRecord \/ FinishWorker
  <2>1. /\ phase \in {"scan", "source", "render"} /\ UNCHANGED <<rows, late>>
        /\ phase' \in {"render", "source", "select"}
    BY <1>9 DEF FinishScan, PlanReady, BeginRender, FinishRender, SaveRecord, FinishWorker, IInv,
       HandInOrder
  <2> QED  BY <1>2, <2>1
<1>10. CASE PreparePublish
  <2>1. phase = "publish" /\ UNCHANGED <<phase, rows, late, job, todo, cdir, beside>>
    BY <1>10 DEF PreparePublish, disk
  <2> QED  BY <1>0, <2>1 DEF RowsInOrder
<1>11. ASSUME NEW e \in Episode, NEW status \in Row, Recorded(e, status), phase = "publish",
              UNCHANGED <<phase, late, job>>,
              status \in Ok => cdir'[e] # NoTree /\ cdir'[e].lineage = job.frozen[e],
              status # "none"
       PROVE  RowsInOrder'
  <2>1. /\ rows'[e] = status /\ \A f \in Episode : f # e => rows'[f] = rows[f]
        /\ todo' = todo \ {e}
    BY <1>0, <1>11 DEF Recorded
  <2> QED  BY <1>0, <1>11, <2>1 DEF RowsInOrder
<1>12. CASE FailPublish
  <2>1. First(todo) \in Episode /\ phase = "publish" /\ UNCHANGED <<phase, late, job>>
        /\ Recorded(First(todo), "failed")
    BY <1>0, <1>12, FirstIsIn DEF FailPublish
  <2> QED  BY <1>11, <2>1 DEF Row, Ok
<1>13. CASE PublishTree
  <2>0. PICK e \in Episode : e = temp.episode
    BY DEF IInv, TypeOK
  <2>1. /\ temp.step = "staging" /\ phase = "publish" /\ UNCHANGED <<phase, late, job>>
        /\ cdir' = [cdir EXCEPT ![e] = [lineage |-> temp.read, masks |-> temp.read.masks,
                                        config |-> job.config]]
    BY <1>13, <2>0 DEF PublishTree, InHand
  <2>2. PICK status \in {"completed", "failed"} : Recorded(e, status)
    BY <1>13, <2>0 DEF PublishTree
  <2>3. cdir'[e] = [lineage |-> temp.read, masks |-> temp.read.masks, config |-> job.config]
    BY <1>0, <2>1
  <2>4. temp.read = job.frozen[e] /\ job.config # NoConfig
    BY <2>0, <2>1 DEF IInv, HandInOrder, JobInOrder
  <2>5. cdir'[e] # NoTree /\ cdir'[e].lineage = job.frozen[e]
    BY <2>3, <2>4 DEF NoTree
  <2> QED  BY <1>11, <2>1, <2>2, <2>5 DEF Row
<1>14. CASE SkipTree
  <2>0. PICK e \in Episode : e = temp.episode
    BY DEF IInv, TypeOK
  <2>1. /\ temp.step = "staging" /\ phase = "publish" /\ UNCHANGED <<phase, late, job, cdir>>
        /\ cdir[e] # NoTree
        /\ Recorded(e, IF job.resume /\ TreeHolds(e, temp.read) THEN "skipped_complete" ELSE "failed")
    BY <1>14, <2>0 DEF SkipTree, InHand, disk
  <2>2. temp.read = job.frozen[e]
    BY <2>0, <2>1 DEF IInv, HandInOrder
  <2>3. TreeHolds(e, temp.read) => cdir[e].lineage = temp.read
    BY DEF TreeHolds
  <2>4. CASE job.resume /\ TreeHolds(e, temp.read)
    BY <1>11, <2>1, <2>2, <2>3, <2>4 DEF Row
  <2>5. CASE ~(job.resume /\ TreeHolds(e, temp.read))
    BY <1>11, <2>1, <2>5 DEF Row, Ok
  <2> QED  BY <2>4, <2>5
<1>15. CASE FinishPublish
  <2>1. /\ phase = "publish" /\ todo = {} /\ UNCHANGED <<rows, late, job, cdir, beside>>
        /\ \/ phase' = "close" /\ (job.skipRender \/ Published = {})
           \/ phase' = "validate" /\ todo' = Published
    BY <1>15 DEF FinishPublish, disk
  <2>2. \A e \in job.sel : rows[e] \in Ok <=> e \in Published
    BY DEF Published, Ok
  <2> QED  BY <1>0, <2>1, <2>2 DEF RowsInOrder
<1>16. CASE ValidateEpisode
  <2>0. PICK e \in Episode : e = First(todo) /\ e \in todo
    BY <1>0, <1>16, FirstIsIn DEF ValidateEpisode
  <2>1. /\ phase = "validate" /\ UNCHANGED <<phase, rows, job, cdir, beside>> /\ todo' = todo \ {e}
    BY <1>16, <2>0 DEF ValidateEpisode, disk
  <2>2. PICK found \in Late :
          /\ late' = [late EXCEPT ![e] = found]
          /\ found = "source_lineage_changed" <=> ~(SourceValid(e) /\ LineageOf(e) = job.frozen[e])
          /\ found = "none" => Publishable(e) /\ TreeHolds(e, plan[e])
    BY <1>16, <2>0 DEF ValidateEpisode
  <2>3. /\ late'[e] = found /\ \A f \in Episode : f # e => late'[f] = late[f]
    BY <1>0, <2>2
  <2>4. found = "none" => Kept(e, job.frozen[e])
    BY <2>2 DEF TreeHolds, LineageOf, Kept
  <2> QED  BY <1>0, <2>1, <2>3, <2>4 DEF RowsInOrder, Kept
<1>17. CASE RenderReview
  <2>1. phase = "validate" /\ todo = {} /\ phase' = "close"
        /\ UNCHANGED <<rows, late, job, cdir, beside>>
    BY <1>17 DEF RenderReview, disk
  <2> QED  BY <1>0, <2>1 DEF RowsInOrder, Kept
<1>18. CASE ChangeSource \/ UNCHANGED vars
  <2>1. UNCHANGED <<phase, job, rows, late, todo, cdir>>
    BY <1>18 DEF ChangeSource, vars, memory, disk
  <2>2. \A e \in Episode : cdir[e] # NoTree /\ Kept(e, job.frozen[e]) => Kept(e, job.frozen[e])'
    BY <2>1, FilesAreKept DEF Kept
  <2> QED  BY <1>0, <2>1, <2>2 DEF RowsInOrder
<1> QED
  BY <1>1, <1>4, <1>5, <1>6, <1>7, <1>8, <1>9, <1>10, <1>12, <1>13, <1>14, <1>15, <1>16, <1>17,
     <1>18 DEF Next, WriteSummary, Crash

LEMMA PassedStep == ASSUME IInv, [Next]_vars PROVE PassedMeansPublished'
<1>0. /\ PassedMeansPublished /\ summary.sel \subseteq Episode /\ job.sel \subseteq Episode
      /\ rows \in [Episode -> Row]
      /\ \A e \in Episode : cdir[e] # NoTree => cdir'[e] = cdir[e]
  BY DirectoriesGrow DEF IInv, TypeOK, Summary, Job
<1>1. CASE UNCHANGED summary
  <2>1. \A e \in Episode : cdir[e] # NoTree /\ Kept(e, summary.frozen[e])
                          => Kept(e, summary.frozen[e])'
    BY <1>1, FilesAreKept DEF Kept
  <2> QED  BY <1>0, <1>1, <2>1 DEF PassedMeansPublished, Kept
<1>2. CASE WriteSummary
  <2>1. /\ phase = "close" /\ UNCHANGED <<cdir, beside>>
        /\ summary' = [passed |-> Passed, skipRender |-> job.skipRender, sel |-> job.sel,
                       frozen |-> job.frozen]
    BY <1>2 DEF WriteSummary
  <2>2. ASSUME Passed, NEW e \in job.sel
        PROVE  /\ cdir[e] # NoTree /\ cdir[e].lineage = job.frozen[e]
               /\ ~job.skipRender => Kept(e, job.frozen[e])
    <3>1. rows[e] # "failed" /\ late[e] = "none"
      BY <2>2 DEF Passed
    <3>2. rows[e] \in Ok
      BY <1>0, <2>1, <3>1 DEF IInv, RowsInOrder, Row, Ok
    <3> QED  BY <1>0, <2>1, <3>1, <3>2 DEF IInv, RowsInOrder
  <2> HIDE DEF Passed
  <2> QED  BY <2>1, <2>2 DEF PassedMeansPublished, Kept
<1>3. WriteSummary \/ UNCHANGED summary
  BY DEF Next, Start, StartLive, OpenSource, SourceEpisode, CloseSource, SelectLive, PlanEpisode,
     MakeRun, FirstManifest, ResumeManifest, ScanEpisode, FinishScan, PlanReady, BeginRender,
     FinishRender, SaveRecord, FinishBackend, FinishWorker, PreparePublish, FailPublish, PublishTree,
     SkipTree, FinishPublish, ValidateEpisode, RenderReview, Crash, ChangeSource, vars, disk
<1> QED  BY <1>1, <1>2, <1>3

-----------------------------------------------------------------------------
(* The theorems *)

LEMMA NextIInv == IInv /\ [Next]_vars => IInv'
<1> SUFFICES ASSUME IInv, [Next]_vars PROVE IInv'
  OBVIOUS
<1> QED
  BY NextTypeOK, DirectoryStep, JobStep, PlansStep, ManifestStep, RecordsStep, StreamStep, HandStep,
     TreesStep, LinksStep, RowsStep, PassedStep DEF IInv

THEOREM UrdfInvariant == Spec => []IInv
BY InitIInv, NextIInv, PTL DEF Spec

\* Every file and every variable of a run keeps its type, for any number of
\* episodes, configurations, starts, kills and changes of the source.
THEOREM UrdfTypes == Spec => []TypeOK
<1>1. IInv => TypeOK
  BY DEF IInv
<1> QED  BY UrdfInvariant, <1>1, PTL

\* What the manifest calls complete is there, rendered by the settings of the run,
\* after a kill at any step.
THEOREM CompleteIsRendered == Spec => []CompleteRecordsStand
<1>1. IInv => CompleteRecordsStand
  BY DEF IInv, RecordsStand, Stands, CompleteRecordsStand
<1> QED  BY UrdfInvariant, <1>1, PTL

\* A canonical tree was rendered from the very masks its lineage names, wherever
\* between two readings the source was changed.
THEOREM TreesAreDerived == Spec => []PublicTreesAreDerived
<1>1. IInv => PublicTreesAreDerived
  BY DEF IInv, TreesStand, PublicTreesAreDerived
<1> QED  BY UrdfInvariant, <1>1, PTL

\* A summary that says passed stands for published trees of the lineages it lists;
\* of a run that was rendered the files those lineages name are in them, unless
\* they were since written through a link to the source.
THEOREM PassedIsPublished == Spec => []PassedMeansPublished
<1>1. IInv => PassedMeansPublished
  BY DEF IInv
<1> QED  BY UrdfInvariant, <1>1, PTL

\* No resume, kill or other source rewrites the settings of a run, a plan, a
\* backend directory, the masks or the manifest of a canonical tree; the other
\* files of a tree change only with the source file they are linked to.
THEOREM NothingIsRewritten == Spec => RecordsAreImmutable
<1> DEFINE Fixed ==
        /\ man # NoManifest => man'.config = man.config /\ man'.sel = man.sel
        /\ \A e \in Episode :
              /\ man.plan[e] # None => man'.plan[e] = man.plan[e]
              /\ bdir[e] # NoDir => bdir'[e] = bdir[e]
              /\ cdir[e] # NoTree =>
                    /\ cdir'[e] = cdir[e]
                    /\ KeptOrShared(beside[e].other, beside'[e].other, src.other[e], src'.other[e])
                    /\ KeptOrShared(beside[e].loose, beside'[e].loose, loose[e], loose'[e])
<1>1. IInv /\ [Next]_vars => [Fixed]_vars
  <2> SUFFICES ASSUME IInv, [Next]_vars PROVE Fixed
    OBVIOUS
  <2>1. CASE FirstManifest
    BY <2>1, FirstManifestIsNew, DirectoriesGrow
  <2>2. CASE ~FirstManifest
    BY <2>2, ManifestGrows, DirectoriesGrow, FilesAreKept
  <2> QED  BY <2>1, <2>2
<1> QED  BY UrdfInvariant, <1>1, PTL DEF Spec, RecordsAreImmutable
=============================================================================
