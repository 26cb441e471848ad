-------------------------- MODULE UmiBatchProofs ---------------------------
(***************************************************************************)
(* A UMI batch, for any episodes, groups, workers and bounds.  First its   *)
(* preparation: a conversion is given up only for a reason, and the plan   *)
(* is backed by what is on disk.  Then the driver that runs the plan.      *)
(***************************************************************************)
EXTENDS UmiBatch, TLAPS

\* What is missing or failed is told from every record of what was done.
LEMMA NoneIsNoRecord ==
    /\ None \notin ScreenRecord
    /\ None \notin Conversion
    /\ ScreenFailed \notin Judgement
    /\ None \notin [source : [Episode -> Version]]
    /\ \A r, n : [rows |-> r, made |-> n] # None
    /\ \A s : Inventory(s) # None
    /\ \A s, n : [selection |-> s, source |-> n] # None
BY DEF None, ScreenRecord, Conversion, ScreenFailed, Judgement, Inventory

-----------------------------------------------------------------------------
(* The invariant: what is kept of a clip belongs together. *)

\* What is being converted was selected, from a frozen inventory.
TodoSelected ==
    doing = "convert" => inventory # None /\ \A e \in todo : Selected(e)

\* Nothing is made from a version that is still to come.
VersionsGrow ==
    \A e \in Episode :
        /\ screening[e] \in Judgement => screening[e].evidence <= evidence[e]
        /\ conversion[e] # None => /\ conversion[e].selection.evidence <= evidence[e]
                                  /\ conversion[e].source <= source[e]

MadeFromInventory ==
    \A e \in Episode : conversion[e] # None =>
        /\ inventory # None
        /\ conversion[e].source = inventory.source[e]
        /\ conversion[e].selection.status = "selected"

\* As long as the evidence is the same and no screening failed, the judgement a
\* conversion was made from is still the one on record.
JudgementStands ==
    \A e \in Episode :
        /\ conversion[e] # None
        /\ evidence[e] = conversion[e].selection.evidence
        /\ e \notin overwritten
        => screening[e] = conversion[e].selection

RowsBacked == \A e \in Episode : rows[e] = "prepared" => conversion[e] # None

\* A group whose last member is in place is whole, and no plan is of it yet.
Assembled ==
    /\ plan # None => plan.made <= assemblies
    /\ doing = "assemble" =>
          /\ plan # None => plan.made < assemblies
          /\ todo \subseteq Prepared
          /\ \A e \in Prepared \ todo :
                /\ numbered[e] = After(Before(e, Prepared))
                /\ Members(groupOf[e], Prepared) \cap todo = {} =>
                       manifest[groupOf[e]] = Members(groupOf[e], Prepared)

PrepareInv ==
    /\ TypeOK /\ TodoSelected /\ VersionsGrow /\ MadeFromInventory /\ JudgementStands
    /\ RowsBacked /\ Assembled /\ ConversionKept /\ PlanIsBacked

-----------------------------------------------------------------------------
(* Types *)

LEMMA TypeInit == PrepareInit => TypeOK
BY PrepareAssumption DEF PrepareInit, TypeOK, Version, RowStatus

LEMMA TypeNext == TypeOK /\ TodoSelected /\ [PrepareNext]_prepareVars => TypeOK'
<1> SUFFICES ASSUME TypeOK, TodoSelected, [PrepareNext]_prepareVars PROVE TypeOK'
  OBVIOUS
<1> USE DEF TypeOK
<1>1. CASE StartScreening
  <2>1. \A n \in DOMAIN Episodes : {Episodes[i] : i \in 1..n} \subseteq Episode
    BY PrepareAssumption DEF Episode
  <2> QED
    BY <1>1, <2>1, PrepareAssumption DEF StartScreening, InitializeBatch, Inventory, world, Version
<1>2. CASE ScreeningEnds
  BY <1>2 DEF ScreeningEnds, world, batchDir
<1>3. ASSUME NEW e \in Episode, ReuseJudgement(e) \/ AskArm(e) \/ ScreenFails(e) PROVE TypeOK'
  <2>1. /\ \A a \in Answer : Screened(e, "selected", a) \in ScreenRecord
        /\ Screened(e, "set_aside", "none") \in ScreenRecord
        /\ ScreenFailed \in ScreenRecord
    BY DEF Screened, ScreenRecord, Judgement
  <2>2. screening' \in [Episode -> ScreenRecord \cup {None}] /\ faults' \in 0..MaxFaults
    BY <1>3, <2>1, PrepareAssumption DEF ReuseJudgement, AskArm, ScreenFails, MayFault
  <2>3. overwritten' \subseteq Episode
    BY <1>3 DEF ReuseJudgement, AskArm, ScreenFails
  <2> QED
    BY <1>3, <2>2, <2>3 DEF ReuseJudgement, AskArm, ScreenFails, Review, world
<1>4. CASE StartPreparing
  <2>1. rows' \in [Episode -> RowStatus]
    BY <1>4 DEF StartPreparing, RowStatus, ScreenRecord, ScreenFailed, Judgement, Selected
  <2> QED
    BY <1>4, <2>1, PrepareAssumption DEF StartPreparing, InitializeBatch, Inventory, world, Version
<1>5. ASSUME NEW e \in Episode, RefuseConversion(e) \/ ReuseConversion(e) PROVE TypeOK'
  BY <1>5 DEF RefuseConversion, ReuseConversion, Convert, world, RowStatus
<1>6. ASSUME NEW e \in Episode, MakeConversion(e) PROVE TypeOK'
  <2>1. [selection |-> screening[e], source |-> source[e]] \in Conversion
    BY <1>6 DEF MakeConversion, Convert, TodoSelected, Selected, Conversion
  <2>2. conversion' \in [Episode -> Conversion \cup {None}]
    BY <1>6, <2>1 DEF MakeConversion
  <2>3. rows' \in [Episode -> RowStatus]
    BY <1>6 DEF MakeConversion, RowStatus
  <2>4. faults' \in 0..MaxFaults
    BY <1>6, PrepareAssumption DEF MakeConversion, MayFault
  <2> QED
    BY <1>6, <2>2, <2>3, <2>4 DEF MakeConversion, Convert, world
<1>7. CASE StartAssembly
  BY <1>7 DEF StartAssembly, Prepared, world, batchDir
<1>8. ASSUME NEW e \in Episode, NumberFrames(e) PROVE TypeOK'
  <2>1. Before(e, Prepared) \subseteq Episode /\ Members(groupOf[e], Prepared) \subseteq Episode
    BY DEF Before, Members, Prepared
  <2>2. numbered' \in [Episode -> [after : SUBSET Episode] \cup {None, Torn}]
    BY <1>8, <2>1 DEF NumberFrames, After
  <2>3. manifest' \in [Group -> SUBSET Episode]
    BY <1>8, <2>1 DEF NumberFrames, ListGroup
  <2> QED
    BY <1>8, <2>2, <2>3 DEF NumberFrames, world
<1>9. CASE WritePlan
  BY <1>9 DEF WritePlan, world
<1>10. CASE PreparationDies
  <2>1. ASSUME NEW e \in Episode PROVE After(Before(e, Prepared)) \in [after : SUBSET Episode]
    BY DEF After, Before, Members, Prepared
  <2>2. numbered' \in [Episode -> [after : SUBSET Episode] \cup {None, Torn}]
    BY <1>10, <2>1 DEF PreparationDies
  <2>3. faults' \in 0..MaxFaults
    BY <1>10, PrepareAssumption DEF PreparationDies, MayFault
  <2> QED
    BY <1>10, <2>2, <2>3 DEF PreparationDies, world
<1>11. ASSUME NEW e \in Episode, SourceChanges(e) \/ EvidenceChanges(e) PROVE TypeOK'
  <2>1. source' \in [Episode -> Version] /\ evidence' \in [Episode -> Version]
    BY <1>11 DEF SourceChanges, EvidenceChanges, Version
  <2>2. faults' \in 0..MaxFaults
    BY <1>11, PrepareAssumption DEF SourceChanges, EvidenceChanges, MayFault
  <2> QED
    BY <1>11, <2>1, <2>2 DEF SourceChanges, EvidenceChanges, batchDir
<1>12. CASE UNCHANGED prepareVars
  BY <1>12 DEF prepareVars, world, batchDir
<1> QED
  BY <1>1, <1>2, <1>3, <1>4, <1>5, <1>6, <1>7, <1>8, <1>9, <1>10, <1>11, <1>12
  DEF PrepareNext, ScreenStep, PrepareStep

-----------------------------------------------------------------------------
(* The invariant *)

LEMMA InvInit == PrepareInit => PrepareInv
<1> SUFFICES ASSUME PrepareInit PROVE PrepareInv
  OBVIOUS
<1>1. \A e \in Episode : screening[e] = None /\ conversion[e] = None /\ rows[e] = "none"
  BY DEF PrepareInit
<1>2. plan = None /\ doing = "idle"
  BY DEF PrepareInit
<1> QED
  BY <1>1, <1>2, TypeInit, NoneIsNoRecord
  DEF PrepareInv, TodoSelected, VersionsGrow, MadeFromInventory, JudgementStands, RowsBacked,
      Assembled, ConversionKept, PlanIsBacked, PlannedSet, Planned, ScreenRecord

\* While clips are converted, no judgement changes.
LEMMA TodoSelectedNext == PrepareInv /\ [PrepareNext]_prepareVars => TodoSelected'
<1> SUFFICES ASSUME PrepareInv, [PrepareNext]_prepareVars PROVE TodoSelected'
  OBVIOUS
<1> USE DEF PrepareInv, TodoSelected, Selected
<1>1. CASE StartPreparing
  BY <1>1, NoneIsNoRecord DEF StartPreparing, InitializeBatch, Inventory, None
<1>2. ASSUME NEW e \in Episode, RefuseConversion(e) \/ ReuseConversion(e) \/ MakeConversion(e)
      PROVE TodoSelected'
  BY <1>2 DEF RefuseConversion, ReuseConversion, MakeConversion, Convert
<1>3. ASSUME NEW e \in Episode, SourceChanges(e) \/ EvidenceChanges(e) PROVE TodoSelected'
  BY <1>3 DEF SourceChanges, EvidenceChanges, batchDir
<1>4. ASSUME StartScreening \/ ScreeningEnds \/ StartAssembly \/ WritePlan \/ PreparationDies
      PROVE doing' # "convert"
  BY <1>4 DEF StartScreening, ScreeningEnds, StartAssembly, WritePlan, PreparationDies
<1>5. ASSUME NEW e \in Episode,
             ReuseJudgement(e) \/ AskArm(e) \/ ScreenFails(e) \/ NumberFrames(e)
      PROVE doing' # "convert"
  BY <1>5 DEF ReuseJudgement, AskArm, ScreenFails, NumberFrames, Review
<1>6. CASE UNCHANGED prepareVars
  BY <1>6 DEF prepareVars, world, batchDir
<1> QED
  BY <1>1, <1>2, <1>3, <1>4, <1>5, <1>6 DEF PrepareNext, ScreenStep, PrepareStep

\* What a recorded conversion is made of.
LEMMA ConversionParts ==
    ASSUME TypeOK, NEW e \in Episode
    PROVE  /\ source[e] \in Nat /\ evidence[e] \in Nat
           /\ screening[e] \in Judgement => screening[e].evidence \in Nat
           /\ conversion[e] # None =>
                 /\ conversion[e].selection \in Judgement
                 /\ conversion[e].selection.evidence \in Nat
                 /\ conversion[e].source \in Nat
BY DEF TypeOK, Conversion, Judgement, Version

Clips == VersionsGrow /\ MadeFromInventory /\ JudgementStands /\ RowsBacked /\ ConversionKept
clipVars == <<source, evidence, inventory, screening, conversion, rows, overwritten>>

\* A screening loses a judgement only by failing, which is remembered, or for
\* newer evidence.
LEMMA ClipsScreened ==
    ASSUME PrepareInv, NEW e \in Episode, AskArm(e) \/ ScreenFails(e)
    PROVE  Clips'
<1> USE DEF PrepareInv
<1>1. UNCHANGED <<source, evidence, inventory, conversion, rows>>
  BY DEF AskArm, ScreenFails, Review, world
<1>2. \A d \in Episode \ {e} : screening'[d] = screening[d]
  BY DEF AskArm, ScreenFails, TypeOK
<1>3. overwritten \subseteq overwritten' /\ \A d \in Episode \ {e} : d \in overwritten' <=> d \in overwritten
  BY DEF AskArm, ScreenFails
<1>4. screening'[e] \in Judgement => screening'[e].evidence = evidence[e]
  BY NoneIsNoRecord DEF AskArm, ScreenFails, Screened, TypeOK
<1>5. VersionsGrow'
  BY <1>1, <1>2, <1>4, ConversionParts DEF VersionsGrow
<1>6. MadeFromInventory' /\ RowsBacked'
  BY <1>1 DEF MadeFromInventory, RowsBacked
<1>7. ConversionKept'
  BY <1>1, <1>3 DEF ConversionKept
<1>8. ASSUME conversion[e] # None, evidence[e] = conversion[e].selection.evidence, e \notin overwritten'
      PROVE  FALSE
  <2>1. screening[e] = conversion[e].selection
    BY <1>3, <1>8 DEF JudgementStands
  <2>2. Reusable(e)
    BY <1>8, <2>1, ConversionParts DEF Reusable
  <2>3. screening[e] \in Judgement
    BY <2>2 DEF Reusable
  <2> QED
    BY <1>8, <2>2, <2>3 DEF AskArm, ScreenFails
<1>9. JudgementStands'
  BY <1>1, <1>2, <1>3, <1>8 DEF JudgementStands
<1> QED
  BY <1>5, <1>6, <1>7, <1>9 DEF Clips

\* The inventory is frozen by the first command and refuses any other.
LEMMA ClipsInitialized ==
    ASSUME PrepareInv, StartScreening \/ StartPreparing
    PROVE  Clips'
<1> USE DEF PrepareInv
<1>1. UNCHANGED <<source, evidence, screening, conversion, overwritten>>
  BY DEF StartScreening, StartPreparing, world
<1>2. inventory' = Inventory(source) /\ inventory' # None
  BY NoneIsNoRecord DEF StartScreening, StartPreparing, InitializeBatch
<1>3. inventory # None => inventory' = inventory
  BY <1>2 DEF StartScreening, StartPreparing, InitializeBatch
<1>4. VersionsGrow' /\ JudgementStands'
  BY <1>1 DEF VersionsGrow, JudgementStands
<1>5. MadeFromInventory'
  BY <1>1, <1>2, <1>3 DEF MadeFromInventory
<1>6. CASE StartScreening
  <2>1. rows' = rows
    BY <1>6 DEF StartScreening
  <2> QED
    BY <1>1, <1>4, <1>5, <2>1 DEF Clips, RowsBacked, ConversionKept
<1>7. CASE StartPreparing
  <2>1. \A d \in Episode : rows'[d] # "prepared" /\ rows'[d] # "prepare_failed"
    BY <1>7 DEF StartPreparing, TypeOK, ScreenRecord, Judgement, ScreenFailed, Selected
  <2> QED
    BY <1>4, <1>5, <2>1 DEF Clips, RowsBacked, ConversionKept
<1> QED
  BY <1>6, <1>7

\* A conversion is refused only when something it was made from has changed.
LEMMA ClipsConverted ==
    ASSUME PrepareInv, NEW e \in Episode,
           RefuseConversion(e) \/ ReuseConversion(e) \/ MakeConversion(e)
    PROVE  Clips'
<1> USE DEF PrepareInv
<1>1. UNCHANGED <<source, evidence, inventory, screening, overwritten>>
  BY DEF RefuseConversion, ReuseConversion, MakeConversion, Convert, world
<1>2. Selected(e) /\ inventory # None
  BY DEF RefuseConversion, ReuseConversion, MakeConversion, Convert, TodoSelected
<1>3. \A d \in Episode \ {e} : conversion'[d] = conversion[d] /\ rows'[d] = rows[d]
  BY DEF RefuseConversion, ReuseConversion, MakeConversion, TypeOK
<1>4. CASE RefuseConversion(e)
  <2>1. conversion' = conversion
    BY <1>4 DEF RefuseConversion
  <2>2. rows'[e] = "prepare_failed"
    BY <1>4 DEF RefuseConversion, TypeOK
  <2>3. ASSUME conversion[e] # None
        PROVE  source[e] # conversion[e].source \/ evidence[e] # conversion[e].selection.evidence
                   \/ e \in overwritten
    BY <1>4, <2>3 DEF RefuseConversion, MadeFromInventory, JudgementStands
  <2>4. ConversionKept'
    BY <1>1, <1>3, <2>1, <2>3 DEF ConversionKept
  <2> QED
    BY <1>1, <1>3, <2>1, <2>2, <2>4
    DEF Clips, VersionsGrow, MadeFromInventory, JudgementStands, RowsBacked
<1>5. CASE ReuseConversion(e)
  <2>1. conversion' = conversion /\ conversion[e] # None /\ rows'[e] = "prepared"
    BY <1>5 DEF ReuseConversion, TypeOK
  <2> QED
    BY <1>1, <1>3, <2>1
    DEF Clips, VersionsGrow, MadeFromInventory, JudgementStands, RowsBacked, ConversionKept
<1>6. CASE MakeConversion(e) /\ conversion' = conversion
  <2>1. conversion[e] = None /\ rows'[e] # "prepared"
    BY <1>6, NoneIsNoRecord DEF MakeConversion, TypeOK
  <2> QED
    BY <1>1, <1>3, <1>6, <2>1
    DEF Clips, VersionsGrow, MadeFromInventory, JudgementStands, RowsBacked, ConversionKept
<1>7. CASE MakeConversion(e) /\ conversion' # conversion
  <2>1. /\ conversion'[e] = [selection |-> screening[e], source |-> source[e]]
        /\ rows'[e] = "prepared"
        /\ source[e] = inventory.source[e]
    BY <1>7 DEF MakeConversion, TypeOK
  <2>2. /\ conversion'[e].selection = screening[e] /\ conversion'[e].source = source[e]
        /\ conversion'[e] # None
    BY <2>1, NoneIsNoRecord
  <2>3. screening[e] \in Judgement /\ screening[e].status = "selected"
    BY <1>2 DEF Selected
  <2>4. VersionsGrow'
    BY <1>1, <1>3, <2>2, <2>3, ConversionParts DEF VersionsGrow
  <2>5. MadeFromInventory' /\ JudgementStands'
    BY <1>1, <1>2, <1>3, <2>1, <2>2, <2>3 DEF MadeFromInventory, JudgementStands
  <2>6. RowsBacked' /\ ConversionKept'
    BY <1>1, <1>3, <2>1, <2>2 DEF RowsBacked, ConversionKept
  <2> QED
    BY <2>4, <2>5, <2>6 DEF Clips
<1> QED
  BY <1>4, <1>5, <1>6, <1>7

\* A new version is one that nothing was made from yet.
LEMMA ClipsAge ==
    ASSUME PrepareInv, NEW e \in Episode, SourceChanges(e) \/ EvidenceChanges(e)
    PROVE  Clips'
<1> USE DEF PrepareInv
<1>1. UNCHANGED <<inventory, screening, conversion, rows, overwritten>>
  BY DEF SourceChanges, EvidenceChanges, batchDir
<1>2. \A d \in Episode :
         /\ source'[d] \in {source[d], source[d] + 1}
         /\ evidence'[d] \in {evidence[d], evidence[d] + 1}
  BY DEF SourceChanges, EvidenceChanges, TypeOK
<1>3. \A d \in Episode :
         /\ screening[d] \in Judgement =>
               screening[d].evidence \in Nat /\ screening[d].evidence <= evidence[d]
         /\ conversion[d] # None =>
               /\ conversion[d].selection.evidence \in Nat /\ conversion[d].source \in Nat
               /\ conversion[d].selection.evidence <= evidence[d]
               /\ conversion[d].source <= source[d]
         /\ source[d] \in Nat /\ evidence[d] \in Nat
  BY ConversionParts DEF VersionsGrow
<1>4. VersionsGrow'
  BY <1>1, <1>2, <1>3 DEF VersionsGrow
<1>5. JudgementStands'
  BY <1>1, <1>2, <1>3 DEF JudgementStands
<1>6. ConversionKept'
  BY <1>1, <1>2, <1>3 DEF ConversionKept
<1> QED
  BY <1>1, <1>4, <1>5, <1>6 DEF Clips, MadeFromInventory, RowsBacked

LEMMA ClipsNext == PrepareInv /\ [PrepareNext]_prepareVars => Clips'
<1> SUFFICES ASSUME PrepareInv, [PrepareNext]_prepareVars PROVE Clips'
  OBVIOUS
<1>1. ASSUME UNCHANGED clipVars PROVE Clips'
  BY <1>1 DEF clipVars, PrepareInv, Clips, VersionsGrow, MadeFromInventory, JudgementStands,
              RowsBacked, ConversionKept
<1>2. ASSUME ScreeningEnds \/ StartAssembly \/ WritePlan \/ PreparationDies
                 \/ UNCHANGED prepareVars
      PROVE  UNCHANGED clipVars
  BY <1>2 DEF ScreeningEnds, StartAssembly, WritePlan, PreparationDies, clipVars, prepareVars,
              world, batchDir
<1>3. ASSUME NEW e \in Episode, ReuseJudgement(e) \/ NumberFrames(e) PROVE UNCHANGED clipVars
  BY <1>3 DEF ReuseJudgement, NumberFrames, Review, clipVars, world
<1> QED
  BY <1>1, <1>2, <1>3, ClipsScreened, ClipsInitialized, ClipsConverted, ClipsAge
  DEF PrepareNext, ScreenStep, PrepareStep

-----------------------------------------------------------------------------
(* The groups and the plan *)

\* What the plan and the groups are read from.
groupVars == <<groupOf, numbered, manifest, plan, assemblies>>

LEMMA GroupsNumbered ==
    ASSUME PrepareInv, NEW e \in Episode, NumberFrames(e)
    PROVE  Assembled'
<1> USE DEF PrepareInv
<1>1. /\ UNCHANGED <<groupOf, plan, doing, rows, assemblies>>
      /\ doing = "assemble" /\ e \in todo /\ todo' = todo \ {e}
  BY DEF NumberFrames, world
<1>2. Prepared' = Prepared
  BY <1>1 DEF Prepared
<1>3. \A d \in Episode : /\ After(Before(d, Prepared))' = After(Before(d, Prepared))
                       /\ Members(groupOf[d], Prepared)' = Members(groupOf[d], Prepared)
  BY <1>1, <1>2 DEF Before, Members, After
<1>4. ASSUME NEW d \in Prepared \ todo' PROVE numbered'[d] = After(Before(d, Prepared))
  <2>1. d \in Episode /\ (d = e \/ d \in Prepared \ todo)
    BY <1>1, <1>4 DEF Prepared
  <2> QED
    BY <1>1, <2>1 DEF NumberFrames, TypeOK, Assembled
<1>5. ASSUME NEW d \in Prepared \ todo', Members(groupOf[d], Prepared) \cap todo' = {}
      PROVE  manifest'[groupOf[d]] = Members(groupOf[d], Prepared)
  <2>1. d \in Episode /\ groupOf[d] \in Group /\ groupOf[e] \in Group
    BY DEF Prepared, TypeOK
  <2>2. CASE groupOf[d] = groupOf[e]
    <3>1. \A c \in todo \ {e} : c \in Prepared => groupOf[c] # groupOf[e]
      BY <1>1, <1>5, <2>2 DEF Members
    <3>2. todo \subseteq Prepared
      BY <1>1 DEF Assembled
    <3>3. manifest' = [manifest EXCEPT ![groupOf[e]] = Members(groupOf[e], Prepared)]
      BY <3>1, <3>2 DEF NumberFrames, ListGroup
    <3> QED
      BY <2>1, <2>2, <3>3 DEF TypeOK
  <2>3. CASE groupOf[d] # groupOf[e]
    <3>1. d # e /\ d \in Prepared \ todo
      BY <1>1, <1>5, <2>3
    <3>2. e \notin Members(groupOf[d], Prepared)
      BY <2>3 DEF Members
    <3>3. Members(groupOf[d], Prepared) \cap todo = {}
      BY <1>1, <1>5, <3>2
    <3>4. manifest'[groupOf[d]] = manifest[groupOf[d]]
      BY <2>1, <2>3 DEF NumberFrames, ListGroup, TypeOK
    <3> QED
      BY <1>1, <3>1, <3>3, <3>4 DEF Assembled
  <2> QED
    BY <2>2, <2>3
<1>6. todo' \subseteq Prepared
  BY <1>1 DEF Assembled
<1>7. Prepared \subseteq Episode
  BY DEF Prepared
<1>8. ASSUME NEW d \in (Prepared \ todo)'
      PROVE  /\ numbered'[d] = After(Before(d, Prepared))'
             /\ (Members(groupOf[d], Prepared) \cap todo)' = {} =>
                    (manifest[groupOf[d]] = Members(groupOf[d], Prepared))'
  <2>1. d \in Prepared \ todo' /\ d \in Episode
    BY <1>2, <1>7
  <2>2. numbered'[d] = After(Before(d, Prepared))'
    BY <1>3, <1>4, <2>1
  <2>3. ASSUME (Members(groupOf[d], Prepared) \cap todo)' = {}
        PROVE  (manifest[groupOf[d]] = Members(groupOf[d], Prepared))'
    <3>1. Members(groupOf[d], Prepared) \cap todo' = {}
      BY <1>3, <2>1, <2>3
    <3>2. manifest'[groupOf[d]] = Members(groupOf[d], Prepared)
      BY <1>5, <2>1, <3>1
    <3> QED
      BY <1>1, <1>3, <2>1, <3>2
  <2> QED
    BY <2>2, <2>3
<1> QED
  BY <1>1, <1>2, <1>6, <1>8 DEF Assembled

\* Outside an assembly the groups stay as they are, and so does what the plan says.
LEMMA AssembledNext == PrepareInv /\ [PrepareNext]_prepareVars => Assembled'
<1> SUFFICES ASSUME PrepareInv, [PrepareNext]_prepareVars PROVE Assembled'
  OBVIOUS
<1> USE DEF PrepareInv
<1>1. CASE StartAssembly
  <2>1. plan' = plan /\ assemblies' = assemblies + 1 /\ assemblies \in Nat
    BY <1>1 DEF StartAssembly, batchDir, TypeOK
  <2>2. todo' = Prepared'
    BY <1>1 DEF StartAssembly, Prepared
  <2>3. plan # None => plan.made \in Nat
    BY DEF TypeOK
  <2> QED
    BY <2>1, <2>2, <2>3 DEF Assembled
<1>2. CASE WritePlan
  <2>1. doing' = "idle" /\ assemblies' = assemblies /\ plan'.made = assemblies /\ assemblies \in Nat
    BY <1>2 DEF WritePlan, TypeOK
  <2> QED
    BY <2>1 DEF Assembled
<1>3. ASSUME NEW e \in Episode, NumberFrames(e) PROVE Assembled'
  BY <1>3, GroupsNumbered
<1>4. ASSUME UNCHANGED <<groupOf, numbered, manifest, plan, assemblies, rows, doing, todo>>
      PROVE  Assembled'
  BY <1>4 DEF Assembled, Prepared, Members, Before
<1>5. ASSUME UNCHANGED <<plan, assemblies>>, doing' # "assemble" PROVE Assembled'
  BY <1>5 DEF Assembled
<1>6. ASSUME StartScreening \/ ScreeningEnds \/ StartPreparing \/ PreparationDies
      PROVE  UNCHANGED <<plan, assemblies>> /\ doing' # "assemble"
  BY <1>6 DEF StartScreening, ScreeningEnds, StartPreparing, PreparationDies, batchDir
<1>7. ASSUME NEW e \in Episode,
             ReuseJudgement(e) \/ AskArm(e) \/ ScreenFails(e)
                 \/ RefuseConversion(e) \/ ReuseConversion(e) \/ MakeConversion(e)
      PROVE  UNCHANGED <<plan, assemblies>> /\ doing' # "assemble"
  BY <1>7 DEF ReuseJudgement, AskArm, ScreenFails, Review, RefuseConversion, ReuseConversion,
              MakeConversion, Convert
<1>8. ASSUME \/ UNCHANGED prepareVars
             \/ \E e \in Episode : SourceChanges(e) \/ EvidenceChanges(e)
      PROVE  UNCHANGED <<groupOf, numbered, manifest, plan, assemblies, rows, doing, todo>>
  BY <1>8 DEF prepareVars, world, batchDir, SourceChanges, EvidenceChanges
<1> QED
  BY <1>1, <1>2, <1>3, <1>4, <1>5, <1>6, <1>7, <1>8 DEF PrepareNext, ScreenStep, PrepareStep

\* A conversion, once made, is never another one.
LEMMA ConversionsStay ==
    ASSUME PrepareInv, [PrepareNext]_prepareVars, NEW d \in Episode, conversion[d] # None
    PROVE  conversion'[d] = conversion[d]
<1> USE DEF PrepareInv
<1>1. ASSUME NEW e \in Episode, MakeConversion(e) PROVE conversion'[d] = conversion[d]
  BY <1>1 DEF MakeConversion, TypeOK
<1>2. ASSUME NEW e \in Episode,
             RefuseConversion(e) \/ ReuseConversion(e) \/ ReuseJudgement(e) \/ AskArm(e)
                 \/ ScreenFails(e) \/ NumberFrames(e) \/ SourceChanges(e) \/ EvidenceChanges(e)
      PROVE  conversion' = conversion
  BY <1>2 DEF RefuseConversion, ReuseConversion, ReuseJudgement, AskArm, ScreenFails, Review,
              NumberFrames, SourceChanges, EvidenceChanges, batchDir
<1>3. ASSUME StartScreening \/ ScreeningEnds \/ StartPreparing \/ StartAssembly \/ WritePlan
                 \/ PreparationDies \/ UNCHANGED prepareVars
      PROVE  conversion' = conversion
  BY <1>3 DEF StartScreening, ScreeningEnds, StartPreparing, StartAssembly, WritePlan,
              PreparationDies, prepareVars, batchDir
<1> QED
  BY <1>1, <1>2, <1>3 DEF PrepareNext, ScreenStep, PrepareStep

\* Only an assembly touches the groups, and it is newer than the plan.
LEMMA PlanNext == PrepareInv /\ [PrepareNext]_prepareVars => PlanIsBacked'
<1> SUFFICES ASSUME PrepareInv, [PrepareNext]_prepareVars, NEW d \in PlannedSet'
             PROVE  /\ (conversion[d] # None)'
                    /\ (conversion[d].selection.status = "selected")'
                    /\ (conversion[d].source = inventory.source[d])'
                    /\ (plan.made = assemblies =>
                          /\ manifest[groupOf[d]] = Members(groupOf[d], PlannedSet)
                          /\ numbered[d] = After(Before(d, PlannedSet)))'
  BY DEF PlanIsBacked
<1> USE DEF PrepareInv
<1>1. d \in Episode
  BY DEF PlannedSet
<1>2. conversion[d] # None
  <2>1. CASE plan' = plan
    BY <1>1, <2>1 DEF PlanIsBacked, PlannedSet, Planned
  <2>2. CASE WritePlan
    BY <1>1, <2>2 DEF WritePlan, RowsBacked, PlannedSet, Planned
  <2>3. ASSUME NEW e \in Episode,
               RefuseConversion(e) \/ ReuseConversion(e) \/ MakeConversion(e) \/ ReuseJudgement(e)
                   \/ AskArm(e) \/ ScreenFails(e) \/ NumberFrames(e) \/ SourceChanges(e)
                   \/ EvidenceChanges(e)
        PROVE  plan' = plan
    BY <2>3 DEF RefuseConversion, ReuseConversion, MakeConversion, Convert, ReuseJudgement, AskArm,
                ScreenFails, Review, NumberFrames, SourceChanges, EvidenceChanges, batchDir
  <2>4. ASSUME StartScreening \/ ScreeningEnds \/ StartPreparing \/ StartAssembly
                   \/ PreparationDies \/ UNCHANGED prepareVars
        PROVE  plan' = plan
    BY <2>4 DEF StartScreening, ScreeningEnds, StartPreparing, StartAssembly, PreparationDies,
                prepareVars, batchDir
  <2> QED
    BY <2>1, <2>2, <2>3, <2>4 DEF PrepareNext, ScreenStep, PrepareStep
<1>3. conversion'[d] # None
  BY <1>1, <1>2, ConversionsStay
<1>4. conversion'[d].selection.status = "selected" /\ conversion'[d].source = inventory'.source[d]
  BY <1>1, <1>3, ClipsNext DEF Clips, MadeFromInventory
<1>5. ASSUME plan'.made = assemblies'
      PROVE  (/\ manifest[groupOf[d]] = Members(groupOf[d], PlannedSet)
              /\ numbered[d] = After(Before(d, PlannedSet)))'
  <2>1. CASE WritePlan
    <3>1. /\ UNCHANGED <<groupOf, numbered, manifest, rows>>
          /\ doing = "assemble" /\ todo = {} /\ plan' # None /\ plan'.rows = rows
      BY <2>1, NoneIsNoRecord DEF WritePlan, world
    <3>2. PlannedSet' = Prepared
      BY <3>1 DEF PlannedSet, Planned, Prepared
    <3>3. /\ manifest[groupOf[d]] = Members(groupOf[d], Prepared)
          /\ numbered[d] = After(Before(d, Prepared))
      BY <3>1, <3>2 DEF Assembled
    <3> QED
      BY <3>1, <3>2, <3>3 DEF Members, Before
  <2>2. CASE UNCHANGED groupVars
    BY <1>5, <2>2 DEF groupVars, PlanIsBacked, PlannedSet, Planned, Members, Before
  <2>3. ASSUME plan' = plan, assemblies' = assemblies, doing = "assemble" PROVE FALSE
    <3>1. plan # None /\ plan.made \in Nat /\ assemblies \in Nat
      BY <1>1, <2>3 DEF PlannedSet, Planned, TypeOK
    <3> QED
      BY <1>5, <2>3, <3>1 DEF Assembled
  <2>4. CASE StartAssembly
    <3>1. plan # None /\ plan' = plan /\ assemblies' = assemblies + 1
      BY <1>1, <2>4 DEF StartAssembly, batchDir, PlannedSet, Planned
    <3>2. plan.made \in Nat /\ assemblies \in Nat
      BY <3>1 DEF TypeOK
    <3> QED
      BY <1>5, <3>1, <3>2 DEF Assembled
  <2>5. ASSUME NEW e \in Episode, NumberFrames(e)
        PROVE  plan' = plan /\ assemblies' = assemblies /\ doing = "assemble"
    BY <2>5 DEF NumberFrames
  <2>6. CASE PreparationDies
    <3>1. plan' = plan /\ assemblies' = assemblies /\ (doing = "assemble" \/ UNCHANGED groupVars)
      BY <2>6 DEF PreparationDies, groupVars, world
    <3> QED
      BY <2>2, <2>3, <3>1
  <2>7. ASSUME NEW e \in Episode,
               RefuseConversion(e) \/ ReuseConversion(e) \/ MakeConversion(e) \/ ReuseJudgement(e)
                   \/ AskArm(e) \/ ScreenFails(e) \/ SourceChanges(e) \/ EvidenceChanges(e)
        PROVE  UNCHANGED groupVars
    BY <2>7 DEF RefuseConversion, ReuseConversion, MakeConversion, Convert, ReuseJudgement, AskArm,
                ScreenFails, Review, SourceChanges, EvidenceChanges, groupVars, world, batchDir
  <2>8. ASSUME StartScreening \/ ScreeningEnds \/ StartPreparing \/ UNCHANGED prepareVars
        PROVE  UNCHANGED groupVars
    BY <2>8 DEF StartScreening, ScreeningEnds, StartPreparing, prepareVars, groupVars, world, batchDir
  <2> QED
    BY <2>1, <2>2, <2>3, <2>4, <2>5, <2>6, <2>7, <2>8 DEF PrepareNext, ScreenStep, PrepareStep
<1> QED
  BY <1>3, <1>4, <1>5

-----------------------------------------------------------------------------
LEMMA InvNext == PrepareInv /\ [PrepareNext]_prepareVars => PrepareInv'
BY TypeNext, TodoSelectedNext, ClipsNext, AssembledNext, PlanNext DEF PrepareInv, Clips

\* Types and the frozen inventory, for any episodes and groups.
THEOREM PreparationIsTyped == PrepareSpec => []TypeOK
<1>1. PrepareInv => TypeOK
  BY DEF PrepareInv
<1> QED
  BY <1>1, InvInit, InvNext, PTL DEF PrepareSpec

\* Over any number of commands, kills and changes, a finished conversion is
\* refused only for a new recording, new evidence, or a screening that failed.
THEOREM ConversionsAreKept == PrepareSpec => []ConversionKept
<1>1. PrepareInv => ConversionKept
  BY DEF PrepareInv
<1> QED
  BY <1>1, InvInit, InvNext, PTL DEF PrepareSpec

\* Whatever was killed before or fails later, what the plan calls prepared is
\* converted from the frozen recording, and its groups are whole unless they are
\* being put together anew.
THEOREM PlansAreBacked == PrepareSpec => []PlanIsBacked
<1>1. PrepareInv => PlanIsBacked
  BY DEF PrepareInv
<1> QED
  BY <1>1, InvInit, InvNext, PTL DEF PrepareSpec

-----------------------------------------------------------------------------
(* The driver: types *)

LEMMA SelectionIsSome == \A a, b, c : [jobs |-> a, lists |-> b, shard |-> c] # None
BY DEF None

LEMMA RowsAreSome == \A f : Rows(f) # None /\ Rows(f).rows = f
BY DEF None, Rows

Worked(r, w) ==
    \/ WorkerValidates(r, w) \/ WorkerIdentifies(r, w) \/ WorkerScans(r, w)
    \/ WorkerStarts(r, w) \/ WorkerStartFails(r, w) \/ WorkerEnds(r, w)
    \/ WorkerFails(r, w) \/ WorkerDies(r, w)
    \/ \E e \in Episode : \/ SamPublishes(r, w, e) \/ SamEnds(r, w, e)
                           \/ RenderShows(r, w, e) \/ CollectReview(r, w, e)

LEMMA WorkerStepIsWork == WorkerStep <=> \E r \in Start, w \in Worker : Worked(r, w)
BY DEF WorkerStep, Worked

\* What a worker's step leaves alone, and what it may do to the processes.
LEMMA WorkFrame ==
    ASSUME NEW r \in Start, NEW w \in Worker, Worked(r, w)
    PROVE  /\ UNCHANGED <<prepareVars, stateDir, selection, results, status, driverVars, orphaned,
                         refused>>
           /\ Alive(r, w)
<1> USE DEF workerFrame, driverVars, resultVars, historyVars, Alive, At, Idle
<1>1. WorkerValidates(r, w) => Alive(r, w) /\ UNCHANGED <<workerFrame, resultVars, historyVars>>
  BY DEF WorkerValidates
<1>2. WorkerIdentifies(r, w) => Alive(r, w) /\ UNCHANGED <<workerFrame, resultVars, historyVars>>
  BY DEF WorkerIdentifies
<1>3. WorkerScans(r, w) => Alive(r, w) /\ UNCHANGED <<workerFrame, results, status, historyVars>>
  BY DEF WorkerScans
<1>4. WorkerStarts(r, w) => Alive(r, w) /\ UNCHANGED <<workerFrame, resultVars, historyVars>>
  BY DEF WorkerStarts
<1>5. WorkerStartFails(r, w) => Alive(r, w) /\ UNCHANGED <<workerFrame, results, status, historyVars>>
  BY DEF WorkerStartFails
<1>6. WorkerEnds(r, w) => Alive(r, w) /\ UNCHANGED <<workerFrame, resultVars, historyVars>>
  BY DEF WorkerEnds
<1>7. WorkerFails(r, w) => Alive(r, w) /\ UNCHANGED <<workerFrame, results, status, historyVars>>
  BY DEF WorkerFails
<1>8. WorkerDies(r, w) => /\ Alive(r, w)
                          /\ UNCHANGED <<workerFrame, resultVars, orphaned, refused>>
  BY DEF WorkerDies
<1>9. ASSUME NEW e \in Episode, SamPublishes(r, w, e) \/ RenderShows(r, w, e)
      PROVE  Alive(r, w) /\ UNCHANGED <<workerFrame, resultVars, historyVars>>
  BY <1>9 DEF SamPublishes, RenderShows
<1>10. ASSUME NEW e \in Episode, SamEnds(r, w, e) \/ CollectReview(r, w, e)
       PROVE  Alive(r, w) /\ UNCHANGED <<workerFrame, results, status, historyVars>>
  BY <1>10 DEF SamEnds, CollectReview
<1> QED
  BY <1>1, <1>2, <1>3, <1>4, <1>5, <1>6, <1>7, <1>8, <1>9, <1>10 DEF Worked

\* One cell of the processes or of the steps, and one ledger.
LEMMA CellFacts ==
    ASSUME NEW A, NEW B, NEW C, NEW f \in [A -> [B -> C]], NEW a \in A, NEW b \in B, NEW c \in C
    PROVE  /\ [f EXCEPT ![a][b] = c] \in [A -> [B -> C]]
           /\ [f EXCEPT ![a][b] = c][a][b] = c
           /\ \A p \in A, q \in B : p # a \/ q # b => [f EXCEPT ![a][b] = c][p][q] = f[p][q]
OBVIOUS

LEMMA RowAtTypes == \A s : RowAt(s) \in WorkerRow
BY DEF RowAt, WorkerRow

LEMMA PersistTypes ==
    ASSUME BatchTypeOK, NEW w \in Worker, NEW steps, Persist(w, steps)
    PROVE  workerLedger' \in [Worker -> [Episode -> WorkerRow]]
<1>1. [e \in Episode |-> IF e \in Share(w) THEN RowAt(steps[e]) ELSE "none"]
          \in [Episode -> WorkerRow]
  BY RowAtTypes DEF WorkerRow
<1> QED  BY <1>1 DEF Persist, BatchTypeOK

LEMMA ExitsTypes ==
    ASSUME BatchTypeOK, NEW r \in Start, NEW W, Exits(r, W)
    PROVE  step' \in [Start -> [Episode -> Step]]
<1>1. [e \in Episode |-> IF \E w \in W : e \in Share(w) THEN "todo" ELSE step[r][e]]
          \in [Episode -> Step]
  BY DEF BatchTypeOK, Step
<1> QED  BY <1>1 DEF Exits, BatchTypeOK

LEMMA MergedTypes ==
    ASSUME BatchTypeOK, NEW f \in [Episode -> BatchRow]
    PROVE  Merged(f) \in [Episode -> BatchRow]
BY DEF Merged, BatchRow

ProcTypes == proc \in [Start -> [Worker -> Idle \cup {"validate", "identify", "scan", "run"}]]
StepTypes == step \in [Start -> [Episode -> Step]]
LedgerTypes == workerLedger \in [Worker -> [Episode -> WorkerRow]]
OutputTypes ==
    /\ folder \in [Episode -> BOOLEAN] /\ identity \in [Episode -> BOOLEAN]
    /\ masks \in [Episode -> 0..MaxStarts] /\ video \in [Episode -> 0..MaxStarts]

LEMMA GoesTypes ==
    ASSUME BatchTypeOK, NEW r \in Start, NEW w \in Worker,
           NEW s \in Idle \cup {"validate", "identify", "scan", "run"}, Goes(r, w, s)
    PROVE  /\ ProcTypes'
           /\ proc'[r][w] = s
           /\ \A q \in Start, v \in Worker : q # r \/ v # w => proc'[q][v] = proc[q][v]
BY CellFacts DEF Goes, ProcTypes, BatchTypeOK

LEMMA StepToTypes ==
    ASSUME BatchTypeOK, NEW r \in Start, NEW e \in Episode, NEW s \in Step, StepTo(r, e, s)
    PROVE  /\ StepTypes'
           /\ step'[r][e] = s
           /\ \A q \in Start, d \in Episode : q # r \/ d # e => step'[q][d] = step[q][d]
BY CellFacts DEF StepTo, StepTypes, BatchTypeOK

\* The processes that end with a worker that dies.
Doomed(r, w) == IF driver # "off" /\ r = start THEN {v \in Worker : Alive(r, v)} ELSE {w}
Killed(r, W) ==
    proc' = [proc EXCEPT ![r] = [v \in Worker |-> IF v \in W THEN "dead" ELSE proc[r][v]]]

LEMMA KilledTypes ==
    ASSUME BatchTypeOK, NEW r \in Start, NEW W, Killed(r, W)
    PROVE  /\ ProcTypes'
           /\ \A v \in Worker : proc'[r][v] = IF v \in W THEN "dead" ELSE proc[r][v]
           /\ \A q \in Start : q # r => proc'[q] = proc[q]
<1> DEFINE f == [v \in Worker |-> IF v \in W THEN "dead" ELSE proc[r][v]]
<1>1. f \in [Worker -> Idle \cup {"validate", "identify", "scan", "run"}]
  BY DEF BatchTypeOK, Idle
<1>2. proc' = [proc EXCEPT ![r] = f]
  BY DEF Killed
<1>3. \A v \in Worker : f[v] = IF v \in W THEN "dead" ELSE proc[r][v]
  OBVIOUS
<1> HIDE DEF f
<1> QED  BY <1>1, <1>2, <1>3 DEF ProcTypes, BatchTypeOK

LEMMA WorkTypes ==
    ASSUME BatchTypeOK, NEW r \in Start, NEW w \in Worker, Worked(r, w)
    PROVE  ProcTypes' /\ StepTypes' /\ LedgerTypes' /\ OutputTypes' /\ setupBroken' \in BOOLEAN
           /\ kills' \in 0..MaxKills
<1> USE DEF BatchTypeOK, ProcTypes, StepTypes, LedgerTypes, OutputTypes, workerFrame, resultVars,
            historyVars, Idle, Step
<1>1. CASE WorkerValidates(r, w)
  <2>1. Goes(r, w, "failed") \/ Goes(r, w, "identify")
    BY <1>1 DEF WorkerValidates
  <2>2. ProcTypes'
    BY <2>1, GoesTypes
  <2> QED  BY <1>1, <2>2 DEF WorkerValidates
<1>2. CASE WorkerIdentifies(r, w)
  BY <1>2 DEF WorkerIdentifies
<1>3. CASE WorkerScans(r, w)
  BY <1>3, PersistTypes DEF WorkerScans, Goes
<1>4. CASE WorkerStarts(r, w)
  <2>1. [e \in Episode |-> IF e \in Share(w) /\ Complete(r, e) THEN "pending" ELSE step[r][e]]
            \in [Episode -> Step]
    OBVIOUS
  <2> QED  BY <1>4, <2>1 DEF WorkerStarts, Goes
<1>5. CASE WorkerStartFails(r, w)
  BY <1>5, PersistTypes DEF WorkerStartFails, Goes
<1>6. CASE WorkerEnds(r, w)
  BY <1>6, ExitsTypes DEF WorkerEnds, Goes
<1>7. CASE WorkerFails(r, w)
  BY <1>7, PersistTypes, ExitsTypes DEF WorkerFails, Goes
<1>8. CASE WorkerDies(r, w)
  <2>1. kills' \in 0..MaxKills
    BY <1>8, BatchAssumption DEF WorkerDies
  <2>2. setupBroken' \in BOOLEAN
    BY <1>8 DEF WorkerDies
  <2>4. ProcTypes'
    <3>1. \/ Killed(r, Doomed(r, w))
          \/ Goes(r, w, "failed")
      BY <1>8 DEF WorkerDies, Killed, Doomed
    <3> QED  BY <3>1, GoesTypes, KilledTypes
  <2>5. StepTypes'
    BY <1>8, ExitsTypes DEF WorkerDies
  <2> QED  BY <1>8, <2>1, <2>2, <2>4, <2>5 DEF WorkerDies
<1>9. ASSUME NEW e \in Episode, SamPublishes(r, w, e) PROVE masks' \in [Episode -> 0..MaxStarts]
                                                            /\ StepTypes'
  <2>1. r \in 0..MaxStarts
    BY BatchAssumption DEF Start
  <2> QED  BY <1>9, <2>1 DEF SamPublishes, StepTo
<1>10. ASSUME NEW e \in Episode, SamPublishes(r, w, e)
       PROVE  ProcTypes' /\ LedgerTypes' /\ OutputTypes' /\ kills' \in 0..MaxKills
  BY <1>9, <1>10 DEF SamPublishes
<1>11. ASSUME NEW e \in Episode, SamEnds(r, w, e)
       PROVE  ProcTypes' /\ StepTypes' /\ LedgerTypes' /\ OutputTypes' /\ kills' \in 0..MaxKills
  BY <1>11, PersistTypes DEF SamEnds, StepTo
<1>12. ASSUME NEW e \in Episode, RenderShows(r, w, e)
       PROVE  ProcTypes' /\ StepTypes' /\ LedgerTypes' /\ OutputTypes' /\ kills' \in 0..MaxKills
  <2>1. StepTo(r, e, "shown") \/ StepTo(r, e, "unshown")
    BY <1>12 DEF RenderShows
  <2>2. StepTypes'
    BY <2>1, StepToTypes
  <2>3. OutputTypes'
    BY <1>12 DEF RenderShows
  <2> QED  BY <1>12, <2>2, <2>3 DEF RenderShows
<1>13. ASSUME NEW e \in Episode, CollectReview(r, w, e)
       PROVE  ProcTypes' /\ StepTypes' /\ LedgerTypes' /\ OutputTypes' /\ kills' \in 0..MaxKills
  BY <1>13, PersistTypes DEF CollectReview, StepTo
<1>14. ASSUME NEW e \in Episode, SamPublishes(r, w, e) \/ SamEnds(r, w, e)
                                  \/ RenderShows(r, w, e) \/ CollectReview(r, w, e)
       PROVE  setupBroken' \in BOOLEAN
  BY <1>14 DEF SamPublishes, SamEnds, RenderShows, CollectReview
<1> QED
  BY <1>1, <1>2, <1>3, <1>4, <1>5, <1>6, <1>7, <1>8, <1>9, <1>10, <1>11, <1>12, <1>13, <1>14
     DEF Worked

\* The driver only reads what was prepared.
LEMMA BatchPrepares == [Next]_vars => [PrepareNext]_prepareVars
<1>1. WorkerStep => UNCHANGED prepareVars
  BY WorkerStepIsWork, WorkFrame
<1>2. DriverStep => UNCHANGED prepareVars
  BY DEF DriverStep, StartBatch, WriteSelection, SelectionFails, SaveFirst, Launch, RoundSave,
         AllDone, BatchFails, Unwind, Finish, DriverDies
<1> QED  BY <1>1, <1>2 DEF Next, Prepares, vars

\* The driver and its workers leave what was prepared as it is: whatever they do,
\* the preparation goes the way it goes without them.
THEOREM BatchLeavesPreparation == Spec => PrepareSpec
<1>1. Init => PrepareInit
  BY DEF Init
<1> QED  BY <1>1, BatchPrepares, PTL DEF Spec, PrepareSpec

LEMMA BatchTypeInit == Init => BatchTypeOK
<1> SUFFICES ASSUME Init PROVE BatchTypeOK
  OBVIOUS
<1>1. start \in 0..MaxStarts /\ kills \in 0..MaxKills
  BY BatchAssumption DEF Init
<1>2. TypeOK
  BY TypeInit DEF Init
<1>3. /\ proc \in [Start -> [Worker -> Idle \cup {"validate", "identify", "scan", "run"}]]
      /\ step \in [Start -> [Episode -> Step]]
      /\ resume \in [Start -> BOOLEAN]
  BY DEF Init, Idle, Step
<1>4. /\ workerLedger \in [Worker -> [Episode -> WorkerRow]]
      /\ ledger \in [Episode -> BatchRow]
  BY DEF Init, WorkerRow, BatchRow, RowStatus
<1>5. /\ masks \in [Episode -> 0..MaxStarts] /\ video \in [Episode -> 0..MaxStarts]
      /\ folder \in [Episode -> BOOLEAN] /\ identity \in [Episode -> BOOLEAN]
  BY BatchAssumption DEF Init
<1>6. /\ selection = None /\ results = None /\ status = "none" /\ driver = "off"
      /\ stateDir = FALSE /\ orphaned = FALSE /\ setupBroken = FALSE /\ refused = FALSE
  BY DEF Init
<1> QED  BY <1>1, <1>2, <1>3, <1>4, <1>5, <1>6 DEF BatchTypeOK

LEMMA DriverTypes ==
    ASSUME BatchTypeOK, DriverStep
    PROVE  BatchTypeOK'
<1> USE DEF outputVars, resultVars, driverVars, workVars, historyVars
<1>0. UNCHANGED prepareVars /\ TypeOK'
  <2>1. UNCHANGED prepareVars
    BY DEF DriverStep, StartBatch, WriteSelection, SelectionFails, SaveFirst, Launch, RoundSave,
           AllDone, BatchFails, Unwind, Finish, DriverDies
  <2> QED  BY <2>1 DEF prepareVars, world, batchDir, BatchTypeOK, TypeOK
<1>1. CASE StartBatch
  <2>1. [e \in Episode |-> IF e \in Jobs THEN "queued" ELSE plan.rows[e]]
            \in [Episode -> BatchRow]
    <3>1. plan.rows \in [Episode -> RowStatus]
      BY <1>1 DEF StartBatch, BatchTypeOK, TypeOK
    <3> QED  BY <3>1 DEF BatchRow
  <2>2. start + 1 \in 0..MaxStarts
    BY <1>1, BatchAssumption DEF StartBatch, BatchTypeOK
  <2>3. Refusal \in BOOLEAN /\ (selection # None) \in BOOLEAN
    BY DEF Refusal
  <2>4. ledger' \in [Episode -> BatchRow] /\ start' \in 0..MaxStarts
    BY <1>1, <2>1, <2>2 DEF StartBatch
  <2>5. resume' \in [Start -> BOOLEAN] /\ refused' \in BOOLEAN
    BY <1>1, <2>3 DEF StartBatch, BatchTypeOK
  <2>6. driver' \in {"off", "select", "save"}
    BY <1>1 DEF StartBatch
  <2> QED  BY <1>0, <1>1, <2>4, <2>5, <2>6 DEF StartBatch, BatchTypeOK
<1>2. CASE WriteSelection
  <2>1. PICK f \in Shards(Jobs) : selection' = [jobs |-> Jobs, lists |-> Lists, shard |-> f]
    BY <1>2 DEF WriteSelection
  <2>2. Jobs \subseteq Episode /\ f \in [Jobs -> Worker]
    BY DEF Shards, PlannedSet, Jobs
  <2>3. Lists \in [Jobs -> SUBSET Episode]
    BY <2>2 DEF Lists, BatchTypeOK, TypeOK
  <2>4. /\ selection'.jobs = Jobs /\ selection'.lists = Lists /\ selection'.shard = f
    BY <2>1
  <2> QED  BY <1>0, <1>2, <2>2, <2>3, <2>4 DEF WriteSelection, BatchTypeOK
<1>3. CASE SelectionFails
  <2>1. kills' \in 0..MaxKills
    BY <1>3, BatchAssumption DEF SelectionFails, BatchTypeOK
  <2> QED  BY <1>0, <1>3, <2>1 DEF SelectionFails, BatchTypeOK
<1>4. CASE SaveFirst
  <2>1. ledger' \in [Episode -> BatchRow]
    BY <1>4, MergedTypes DEF SaveFirst, BatchTypeOK
  <2>2. results' = results \/ results' = Rows(ledger')
    BY <1>4 DEF SaveFirst
  <2>3. results' \in {Rows(f) : f \in [Episode -> BatchRow]} \cup {None}
    BY <2>1, <2>2 DEF BatchTypeOK
  <2> QED  BY <1>0, <1>4, <2>1, <2>3 DEF SaveFirst, BatchTypeOK
<1>5. CASE Launch
  <2>1. [w \in Worker |-> IF w \in Launched THEN "validate" ELSE "none"]
            \in [Worker -> Idle \cup {"validate", "identify", "scan", "run"}]
    BY DEF Idle
  <2>2. proc' \in [Start -> [Worker -> Idle \cup {"validate", "identify", "scan", "run"}]]
    BY <1>5, <2>1 DEF Launch, BatchTypeOK
  <2> QED  BY <1>0, <1>5, <2>2 DEF Launch, BatchTypeOK
<1>6. ASSUME NEW s \in {"running", "rendering_groups", "finished", "interrupted_or_failed"},
             NEW f \in [Episode -> BatchRow], Save(s, f)
      PROVE  /\ ledger' \in [Episode -> BatchRow]
             /\ results' \in {Rows(g) : g \in [Episode -> BatchRow]} \cup {None}
             /\ status' \in {"none", "running", "rendering_groups", "finished",
                             "interrupted_or_failed"}
  BY <1>6 DEF Save
<1>7. ledger \in [Episode -> BatchRow] /\ Merged(ledger) \in [Episode -> BatchRow]
  BY MergedTypes DEF BatchTypeOK
<1>8. CASE RoundSave
  <2>1. Save("running", Merged(ledger))
    BY <1>8 DEF RoundSave
  <2> QED  BY <1>0, <1>6, <1>7, <1>8, <2>1 DEF RoundSave, BatchTypeOK
<1>9. CASE AllDone
  <2>1. Save("rendering_groups", Merged(ledger))
    BY <1>9 DEF AllDone
  <2> QED  BY <1>0, <1>6, <1>7, <1>9, <2>1 DEF AllDone, BatchTypeOK
<1>10. CASE Finish
  <2>1. Save("finished", Merged(ledger))
    BY <1>10 DEF Finish
  <2> QED  BY <1>0, <1>6, <1>7, <1>10, <2>1 DEF Finish, BatchTypeOK
<1>11. CASE Unwind
  <2> DEFINE last == Merged(ledger)
             f == [e \in Episode |-> IF last[e] = "queued" THEN "failed" ELSE last[e]]
  <2>1. f \in [Episode -> BatchRow]
    BY <1>7 DEF BatchRow
  <2>2. Save("interrupted_or_failed", f)
    BY <1>11 DEF Unwind
  <2> HIDE DEF f
  <2> QED  BY <1>0, <1>6, <1>11, <2>1, <2>2 DEF Unwind, BatchTypeOK
<1>12. CASE BatchFails
  BY <1>0, <1>12 DEF BatchFails, BatchTypeOK
<1>13. CASE DriverDies
  <2>1. kills' \in 0..MaxKills
    BY <1>13, BatchAssumption DEF DriverDies, BatchTypeOK
  <2> QED  BY <1>0, <1>13, <2>1 DEF DriverDies, BatchTypeOK
<1> QED
  BY <1>1, <1>2, <1>3, <1>4, <1>5, <1>8, <1>9, <1>10, <1>11, <1>12, <1>13 DEF DriverStep

LEMMA BatchTypeNext == PrepareInv /\ BatchTypeOK /\ [Next]_vars => PrepareInv' /\ BatchTypeOK'
<1> SUFFICES ASSUME PrepareInv, BatchTypeOK, [Next]_vars PROVE PrepareInv' /\ BatchTypeOK'
  OBVIOUS
<1>1. PrepareInv' /\ TypeOK'
  BY BatchPrepares, InvNext DEF PrepareInv
<1>2. CASE Prepares \/ UNCHANGED vars
  BY <1>1, <1>2 DEF Prepares, vars, outputVars, resultVars, driverVars, workVars, historyVars,
                    BatchTypeOK
<1>3. ASSUME NEW r \in Start, NEW w \in Worker, Worked(r, w) PROVE BatchTypeOK'
  BY <1>1, <1>3, WorkFrame, WorkTypes
     DEF ProcTypes, StepTypes, LedgerTypes, OutputTypes, driverVars, BatchTypeOK
<1> QED  BY <1>1, <1>2, <1>3, DriverTypes, WorkerStepIsWork DEF Next

-----------------------------------------------------------------------------
(* The driver and its processes *)

DriverInOrder ==
    /\ driver # "off" => start \in Start
    /\ driver = "select" => selection = None
    /\ driver \notin {"off", "select"} => selection # None
    /\ driver \in {"run", "group", "unwind"} => status # "finished"

\* Until the selection is saved nothing of a run is there.
NothingYet ==
    selection = None =>
        /\ \A r \in Start, w \in Worker : proc[r][w] = "none"
        /\ \A r \in Start, e \in Episode : step[r][e] = "todo"
        /\ \A e \in Episode : masks[e] = 0 /\ folder[e] = FALSE
        /\ status = "none"
        /\ stateDir => setupBroken

\* Workers that are alive are those of a driver that waits for them, unless one
\* was killed over them.
ProcsInOrder ==
    \A r \in Start, w \in Worker :
        /\ r > start => proc[r][w] = "none"
        /\ r = start /\ driver \in {"select", "save"} => proc[r][w] = "none"
        /\ Alive(r, w) /\ ~orphaned => r = start /\ driver \in {"run", "unwind"}

RunLaunched ==
    /\ driver \in {"run", "group"} =>
          \A e \in selection.jobs : proc[start][selection.shard[e]] # "none"
    /\ driver = "group" /\ ~orphaned =>
          \A e \in selection.jobs : At(start, selection.shard[e], "done")

Control == DriverInOrder /\ NothingYet /\ ProcsInOrder /\ RunLaunched

\* Only what is alive moves, and it never goes back to before its start.
LEMMA WorkProcs ==
    ASSUME BatchTypeOK, NEW r \in Start, NEW w \in Worker, Worked(r, w)
    PROVE  /\ \A q \in Start, v \in Worker :
                 /\ ~Alive(q, v) => proc'[q][v] = proc[q][v]
                 /\ proc'[q][v] = "none" => proc[q][v] = "none"
           /\ \A q \in Start, v \in Worker : q # r => proc'[q][v] = proc[q][v]
<1> DEFINE Good == /\ \A q \in Start, v \in Worker :
                         /\ ~Alive(q, v) => proc'[q][v] = proc[q][v]
                         /\ proc'[q][v] = "none" => proc[q][v] = "none"
                   /\ \A q \in Start, v \in Worker : q # r => proc'[q][v] = proc[q][v]
<1>0. Alive(r, w)
  BY WorkFrame
<1>1. ASSUME NEW s \in {"done", "failed", "identify", "scan", "run"}, Goes(r, w, s) PROVE Good
  <2>1. /\ proc'[r][w] = s
        /\ \A q \in Start, v \in Worker : q # r \/ v # w => proc'[q][v] = proc[q][v]
    BY <1>1, GoesTypes DEF Idle
  <2> QED  BY <1>0, <2>1
<1>2. CASE Killed(r, Doomed(r, w))
  <2>1. /\ \A v \in Worker : proc'[r][v] = IF v \in Doomed(r, w) THEN "dead" ELSE proc[r][v]
        /\ \A q \in Start : q # r => proc'[q] = proc[q]
    BY <1>2, KilledTypes
  <2>2. \A v \in Doomed(r, w) : Alive(r, v)
    BY <1>0 DEF Doomed
  <2> QED  BY <2>1, <2>2
<1>3. CASE UNCHANGED proc
  BY <1>3
<1>4. \/ \E s \in {"done", "failed", "identify", "scan", "run"} : Goes(r, w, s)
      \/ Killed(r, Doomed(r, w))
      \/ UNCHANGED proc
  <2>1. WorkerValidates(r, w) => Goes(r, w, "failed") \/ Goes(r, w, "identify")
    BY DEF WorkerValidates
  <2>2. WorkerScans(r, w) => Goes(r, w, "scan")
    BY DEF WorkerScans
  <2>3. WorkerStarts(r, w) => Goes(r, w, "run")
    BY DEF WorkerStarts
  <2>4. WorkerStartFails(r, w) \/ WorkerFails(r, w) => Goes(r, w, "failed")
    BY DEF WorkerStartFails, WorkerFails
  <2>5. WorkerEnds(r, w) => Goes(r, w, "done")
    BY DEF WorkerEnds
  <2>6. WorkerDies(r, w) => Killed(r, Doomed(r, w)) \/ Goes(r, w, "failed")
    BY DEF WorkerDies, Killed, Doomed
  <2>7. WorkerIdentifies(r, w) => UNCHANGED proc
    BY DEF WorkerIdentifies
  <2>8. \A e \in Episode : SamPublishes(r, w, e) \/ SamEnds(r, w, e) \/ RenderShows(r, w, e)
                               \/ CollectReview(r, w, e) => UNCHANGED proc
    BY DEF SamPublishes, SamEnds, RenderShows, CollectReview
  <2> QED  BY <2>1, <2>2, <2>3, <2>4, <2>5, <2>6, <2>7, <2>8 DEF Worked
<1> QED  BY <1>1, <1>2, <1>3, <1>4

LEMMA ControlInit == Init => Control
<1> SUFFICES ASSUME Init PROVE Control
  OBVIOUS
<1> QED
  BY DEF Init, Control, DriverInOrder, NothingYet, ProcsInOrder, RunLaunched, Alive, Idle

LEMMA SelectionTypes ==
    ASSUME BatchTypeOK, selection # None
    PROVE  /\ selection.jobs \subseteq Episode
           /\ selection.shard \in [selection.jobs -> Worker]
           /\ \A v \in Worker : Share(v) \subseteq selection.jobs
           /\ \A e \in selection.jobs : e \in Share(selection.shard[e])
BY DEF BatchTypeOK, Share

LEMMA ControlWorks ==
    ASSUME BatchTypeOK, Control, NEW r \in Start, NEW w \in Worker, Worked(r, w)
    PROVE  Control'
<1>1. /\ UNCHANGED <<prepareVars, stateDir, selection, results, status, driverVars, orphaned,
                    refused>>
      /\ Alive(r, w)
  BY WorkFrame
<1>2. /\ \A q \in Start, v \in Worker :
            /\ ~Alive(q, v) => proc'[q][v] = proc[q][v]
            /\ proc'[q][v] = "none" => proc[q][v] = "none"
  BY WorkProcs
<1>3. selection # None
  BY <1>1 DEF Control, NothingYet, Alive, Idle
<1>4. DriverInOrder' /\ NothingYet'
  BY <1>1, <1>3 DEF Control, DriverInOrder, NothingYet, driverVars
<1>5. \A q \in Start, v \in Worker : Alive(q, v)' => Alive(q, v)
  BY <1>2 DEF Alive
<1>6. \A q \in Start, v \in Worker : proc[q][v] = "none" => proc'[q][v] = "none"
  BY <1>2 DEF Alive, Idle
<1>7. ProcsInOrder'
  BY <1>1, <1>5, <1>6 DEF Control, ProcsInOrder, driverVars
<1>8. RunLaunched'
  <2>1. selection.shard \in [selection.jobs -> Worker]
    BY <1>3, SelectionTypes
  <2>2. driver \in {"run", "group"} => start \in Start
    BY DEF Control, DriverInOrder
  <2>3. driver = "group" => orphaned
    BY <1>1 DEF Control, ProcsInOrder
  <2> QED  BY <1>1, <1>2, <2>1, <2>2, <2>3 DEF Control, RunLaunched, driverVars
<1> QED  BY <1>4, <1>7, <1>8 DEF Control

LEMMA ControlDrives ==
    ASSUME BatchTypeOK, Control, DriverStep
    PROVE  Control'
<1> USE DEF outputVars, resultVars, driverVars, workVars, historyVars, Control
<1>0. start \in 0..MaxStarts /\ MaxStarts \in Nat /\ Start = 1..MaxStarts
  BY BatchAssumption DEF BatchTypeOK, Start
<1>1. CASE StartBatch
  <2>1. /\ driver = "off" /\ start' = start + 1 /\ start + 1 \in Start
        /\ UNCHANGED <<proc, step, selection, status, stateDir, masks, folder, setupBroken,
                       orphaned>>
    BY <1>0, <1>1 DEF StartBatch
  <2>2. /\ driver' \in {"off", "select", "save"}
        /\ driver' = "select" => selection = None
        /\ driver' = "save" => selection # None
    BY <1>1 DEF StartBatch
  <2>3. DriverInOrder' /\ NothingYet' /\ RunLaunched'
    BY <2>1, <2>2 DEF DriverInOrder, NothingYet, RunLaunched
  <2>4. ProcsInOrder'
    BY <1>0, <2>1, <2>2 DEF ProcsInOrder, Alive, Idle
  <2> QED  BY <2>3, <2>4
<1>2. CASE WriteSelection
  <2>1. /\ driver = "select" /\ driver' = "save" /\ selection' # None
        /\ UNCHANGED <<start, proc, orphaned>>
    BY <1>2, SelectionIsSome DEF WriteSelection
  <2> QED  BY <2>1 DEF DriverInOrder, NothingYet, ProcsInOrder, RunLaunched, Alive, Idle
<1>3. CASE SelectionFails
  BY <1>3 DEF SelectionFails, DriverInOrder, NothingYet, ProcsInOrder, RunLaunched, Alive, Idle
<1>4. CASE SaveFirst
  BY <1>4 DEF SaveFirst, DriverInOrder, NothingYet, ProcsInOrder, RunLaunched, Alive, Idle
<1>5. CASE Launch
  <2>1. /\ driver = "save" /\ driver' = "run" /\ start \in Start /\ selection # None
        /\ status = "running"
        /\ UNCHANGED <<start, selection, status, orphaned>>
    BY <1>5 DEF Launch, DriverInOrder
  <2>2. /\ \A v \in Worker : proc'[start][v] = IF v \in Launched THEN "validate" ELSE "none"
        /\ \A q \in Start, v \in Worker : q # start => proc'[q][v] = proc[q][v]
    BY <1>5, <2>1 DEF Launch, BatchTypeOK
  <2>3. selection.shard \in [selection.jobs -> Worker]
    BY <2>1, SelectionTypes
  <2>4. \A e \in selection.jobs : selection.shard[e] \in Launched /\ selection.shard[e] \in Worker
    BY <2>3 DEF Launched
  <2>5. ProcsInOrder'
    BY <1>0, <2>1, <2>2 DEF ProcsInOrder, Alive, Idle
  <2>6. DriverInOrder' /\ NothingYet'
    BY <2>1 DEF DriverInOrder, NothingYet
  <2>7. RunLaunched'
    BY <2>1, <2>2, <2>4 DEF RunLaunched
  <2> QED  BY <2>5, <2>6, <2>7
<1>6. CASE RoundSave
  BY <1>6 DEF RoundSave, Save, DriverInOrder, NothingYet, ProcsInOrder, RunLaunched, Alive, Idle
<1>7. CASE AllDone
  <2>1. /\ driver = "run" /\ driver' = "group" /\ status' = "rendering_groups"
        /\ start \in Start /\ selection # None
        /\ UNCHANGED <<start, proc, selection, orphaned>>
        /\ \A v \in Worker : ~Alive(start, v) /\ proc[start][v] \notin {"failed", "dead"}
    BY <1>7 DEF AllDone, Save, Ended, Lost, DriverInOrder
  <2>2. selection.shard \in [selection.jobs -> Worker]
    BY <2>1, SelectionTypes
  <2>3. \A e \in selection.jobs : At(start, selection.shard[e], "done")
    BY <2>1, <2>2 DEF RunLaunched, At, Alive, Idle
  <2>4. RunLaunched'
    BY <2>1, <2>3 DEF RunLaunched, At
  <2>5. ProcsInOrder'
    BY <2>1 DEF ProcsInOrder, Alive
  <2> QED  BY <2>1, <2>4, <2>5 DEF DriverInOrder, NothingYet
<1>8. CASE BatchFails
  BY <1>8 DEF BatchFails, DriverInOrder, NothingYet, ProcsInOrder, RunLaunched, Alive, Idle
<1>9. CASE Unwind
  BY <1>9 DEF Unwind, Save, Ended, DriverInOrder, NothingYet, ProcsInOrder, RunLaunched, Alive
<1>10. CASE Finish
  BY <1>10 DEF Finish, Save, DriverInOrder, NothingYet, ProcsInOrder, RunLaunched, Alive, Idle
<1>11. CASE DriverDies
  BY <1>11 DEF DriverDies, DriverInOrder, NothingYet, ProcsInOrder, RunLaunched, Alive, Idle
<1> QED
  BY <1>1, <1>2, <1>3, <1>4, <1>5, <1>6, <1>7, <1>8, <1>9, <1>10, <1>11 DEF DriverStep

LEMMA ControlNext == BatchTypeOK /\ Control /\ [Next]_vars => Control'
<1> SUFFICES ASSUME BatchTypeOK, Control, [Next]_vars PROVE Control'
  OBVIOUS
<1>1. CASE UNCHANGED <<outputVars, resultVars, driverVars, workVars, historyVars>>
  BY <1>1 DEF outputVars, resultVars, driverVars, workVars, historyVars, Control, DriverInOrder,
              NothingYet, ProcsInOrder, RunLaunched, Alive, At
<1> QED
  BY <1>1, ControlWorks, ControlDrives, WorkerStepIsWork DEF Next, Prepares, vars

-----------------------------------------------------------------------------
(* What the workers know of their jobs *)

Reviewed(e) == masks[e] # 0 /\ video[e] # 0 /\ (video[e] = masks[e] \/ orphaned)

\* A job in the hands of the worker of one start: a step says what was published
\* and shown; without orphans its masks are new until SAM publishes them, and the
\* last word on it is in the ledger.
Knows(r, w, e) ==
    /\ proc[r][w] # "run" => step[r][e] = "todo"
    /\ step[r][e] \in {"made", "pending"} => masks[e] # 0
    /\ step[r][e] \in {"shown", "ready"} => Reviewed(e)
Fresh(r, w, e) ==
    /\ proc[r][w] = "run" /\ step[r][e] = "todo" => masks[e] = 0
    /\ Alive(r, w) /\ proc[r][w] # "run" /\ ~resume[r] => masks[e] = 0
LastWord(r, w, e) ==
    \/ proc[r][w] = "run" /\ step[r][e] \in {"ready", "unready"}
    \/ r = start /\ proc[r][w] = "done"
    => workerLedger[w][e] # "none"

JobsInHand ==
    \A r \in Start, w \in Worker, e \in Episode :
        e \in Share(w) => /\ Knows(r, w, e)
                          /\ ~orphaned => Fresh(r, w, e) /\ LastWord(r, w, e)

\* The first run has everything before it.
FirstRun ==
    driver \in {"select", "save"} /\ ~resume[start] /\ ~orphaned => \A e \in Episode : masks[e] = 0

RowsReviewed ==
    \A e \in Episode :
        /\ \A w \in Worker : workerLedger[w][e] = "ready" => Reviewed(e)
        /\ ledger[e] = "ready" => Reviewed(e)
        /\ results # None /\ results.rows[e] = "ready" => Reviewed(e)

OwnRows ==
    \A w \in Worker, e \in Episode :
        workerLedger[w][e] # "none" => selection # None /\ e \in Share(w)

Jobwise == JobsInHand /\ FirstRun /\ RowsReviewed /\ OwnRows

LEMMA JobwiseInit == Init => Jobwise
<1> SUFFICES ASSUME Init PROVE Jobwise
  OBVIOUS
<1>1. \A e \in Episode, w \in Worker : workerLedger[w][e] = "none"
  BY DEF Init
<1>2. \A e \in Episode : ledger[e] = "none"
  BY DEF Init
<1>3. \A r \in Start, w \in Worker, e \in Episode : proc[r][w] = "none" /\ step[r][e] = "todo"
  BY DEF Init
<1>4. results = None /\ driver = "off"
  BY DEF Init
<1> QED
  BY <1>1, <1>2, <1>3, <1>4
     DEF Jobwise, JobsInHand, FirstRun, RowsReviewed, OwnRows, Knows, Fresh, LastWord, Alive, Idle

\* A review that was true stays true: masks are made again only of a job whose
\* masks are not there, or over an orphan.
LEMMA ReviewedStays ==
    ASSUME BatchTypeOK, Control, Jobwise, NEW r \in Start, NEW w \in Worker, Worked(r, w)
    PROVE  /\ \A e \in Episode : Reviewed(e) => Reviewed(e)'
           /\ \A e \in Episode : masks[e] # 0 => masks'[e] # 0
<1>0. UNCHANGED orphaned
  BY WorkFrame DEF historyVars
<1>1. CASE UNCHANGED <<masks, video>>
  BY <1>0, <1>1 DEF Reviewed
<1>2. ASSUME NEW d \in Episode, SamPublishes(r, w, d)
      PROVE  /\ \A e \in Episode : Reviewed(e) => Reviewed(e)'
             /\ \A e \in Episode : masks[e] # 0 => masks'[e] # 0
  <2>1. /\ d \in Share(w) /\ proc[r][w] = "run" /\ step[r][d] = "todo"
        /\ masks' = [masks EXCEPT ![d] = r] /\ video' = video
    BY <1>2 DEF SamPublishes, At
  <2>2. masks'[d] = r /\ r # 0 /\ \A e \in Episode : e # d => masks'[e] = masks[e]
    BY <2>1, BatchAssumption DEF BatchTypeOK, Start
  <2>3. orphaned \/ masks[d] = 0
    BY <2>1 DEF Jobwise, JobsInHand, Fresh
  <2> QED  BY <1>0, <2>1, <2>2, <2>3 DEF Reviewed
<1>3. ASSUME NEW d \in Episode, RenderShows(r, w, d)
      PROVE  /\ \A e \in Episode : Reviewed(e) => Reviewed(e)'
             /\ \A e \in Episode : masks[e] # 0 => masks'[e] # 0
  <2>1. /\ d \in Share(w) /\ step[r][d] = "pending" /\ masks' = masks
        /\ video' = video \/ video' = [video EXCEPT ![d] = masks[d]]
    BY <1>3 DEF RenderShows
  <2>2. masks[d] # 0
    BY <2>1 DEF Jobwise, JobsInHand, Knows
  <2> QED  BY <1>0, <2>1, <2>2 DEF Reviewed, BatchTypeOK
<1>4. \/ UNCHANGED <<masks, video>>
      \/ \E d \in Episode : SamPublishes(r, w, d) \/ RenderShows(r, w, d)
  BY DEF Worked, WorkerValidates, WorkerIdentifies, WorkerScans, WorkerStarts, WorkerStartFails,
         WorkerEnds, WorkerFails, WorkerDies, SamEnds, CollectReview
<1> QED  BY <1>1, <1>2, <1>3, <1>4

LEMMA PersistFacts ==
    ASSUME BatchTypeOK, NEW w \in Worker, NEW steps, Persist(w, steps)
    PROVE  /\ \A e \in Episode : workerLedger'[w][e] = IF e \in Share(w) THEN RowAt(steps[e])
                                                       ELSE "none"
           /\ \A v \in Worker : v # w => workerLedger'[v] = workerLedger[v]
<1> DEFINE f == [e \in Episode |-> IF e \in Share(w) THEN RowAt(steps[e]) ELSE "none"]
<1>1. workerLedger' = [workerLedger EXCEPT ![w] = f]
  BY DEF Persist
<1>2. \A e \in Episode : f[e] = IF e \in Share(w) THEN RowAt(steps[e]) ELSE "none"
  OBVIOUS
<1> HIDE DEF f
<1> QED  BY <1>1, <1>2 DEF BatchTypeOK

LEMMA ExitsFacts ==
    ASSUME BatchTypeOK, NEW r \in Start, NEW W \in SUBSET Worker, Exits(r, W)
    PROVE  /\ \A e \in Episode : step'[r][e] = IF \E w \in W : e \in Share(w) THEN "todo"
                                               ELSE step[r][e]
           /\ \A q \in Start : q # r => step'[q] = step[q]
<1> DEFINE f == [e \in Episode |-> IF \E w \in W : e \in Share(w) THEN "todo" ELSE step[r][e]]
<1>1. step' = [step EXCEPT ![r] = f]
  BY DEF Exits
<1>2. \A e \in Episode : f[e] = IF \E w \in W : e \in Share(w) THEN "todo" ELSE step[r][e]
  OBVIOUS
<1> HIDE DEF f
<1> QED  BY <1>1, <1>2 DEF BatchTypeOK

LEMMA StartsFacts ==
    ASSUME BatchTypeOK, NEW r \in Start, NEW w \in Worker, WorkerStarts(r, w)
    PROVE  /\ \A e \in Episode : step'[r][e] = IF e \in Share(w) /\ Complete(r, e) THEN "pending"
                                               ELSE step[r][e]
           /\ \A q \in Start : q # r => step'[q] = step[q]
<1> DEFINE f == [e \in Episode |-> IF e \in Share(w) /\ Complete(r, e) THEN "pending"
                                   ELSE step[r][e]]
<1>1. step' = [step EXCEPT ![r] = f]
  BY DEF WorkerStarts
<1>2. \A e \in Episode : f[e] = IF e \in Share(w) /\ Complete(r, e) THEN "pending" ELSE step[r][e]
  OBVIOUS
<1> HIDE DEF f
<1> QED  BY <1>1, <1>2 DEF BatchTypeOK

\* No two workers share a job.
LEMMA SharesDiffer ==
    ASSUME NEW v, NEW w, v # w PROVE \A e : e \in Share(v) => e \notin Share(w)
BY DEF Share

\* Other workers' jobs are left alone, or their worker dies with this one.
LEMMA WorkElsewhere ==
    ASSUME BatchTypeOK, NEW r \in Start, NEW w \in Worker, Worked(r, w)
    PROVE  /\ \A e \in Episode : e \notin Share(w) => masks'[e] = masks[e]
           /\ \A v \in Worker : v # w => workerLedger'[v] = workerLedger[v]
           /\ \A q \in Start, v \in Worker, e \in Episode :
                 e \in Share(v) /\ (q # r \/ v # w) =>
                     \/ proc'[q][v] = proc[q][v] /\ step'[q][e] = step[q][e]
                     \/ proc'[q][v] = "dead" /\ step'[q][e] = "todo"
<1> DEFINE Same == \A q \in Start, v \in Worker, e \in Episode :
                       e \in Share(v) /\ (q # r \/ v # w) => step'[q][e] = step[q][e]
           Still == \A q \in Start, v \in Worker : q # r \/ v # w => proc'[q][v] = proc[q][v]
           Die == \A q \in Start, v \in Worker, e \in Episode :
                      e \in Share(v) /\ (q # r \/ v # w) =>
                          \/ proc'[q][v] = proc[q][v] /\ step'[q][e] = step[q][e]
                          \/ proc'[q][v] = "dead" /\ step'[q][e] = "todo"
           Others == \A v \in Worker : v # w => workerLedger'[v] = workerLedger[v]
           Masks == \A e \in Episode : e \notin Share(w) => masks'[e] = masks[e]
<1>1. ASSUME NEW s \in Idle \cup {"validate", "identify", "scan", "run"}, Goes(r, w, s) PROVE Still
  BY <1>1, GoesTypes
<1>2. ASSUME NEW d \in Share(w), d \in Episode, NEW s \in Step, StepTo(r, d, s) PROVE Same
  BY <1>2, StepToTypes, SharesDiffer
<1>3. ASSUME NEW W \in SUBSET Worker, Exits(r, W)
      PROVE  \A q \in Start, e \in Episode :
                 step'[q][e] = IF q = r /\ (\E v \in W : e \in Share(v)) THEN "todo"
                               ELSE step[q][e]
  BY <1>3, ExitsFacts
<1>4. ASSUME NEW steps, Persist(w, steps) PROVE Others
  BY <1>4, PersistFacts
<1>5. CASE WorkerValidates(r, w)
  <2>1. Goes(r, w, "failed") \/ Goes(r, w, "identify")
    BY <1>5 DEF WorkerValidates
  <2>2. Still
    BY <1>1, <2>1 DEF Idle
  <2>3. UNCHANGED <<masks, step, workerLedger>>
    BY <1>5 DEF WorkerValidates, resultVars
  <2> QED  BY <2>2, <2>3
<1>6. CASE WorkerIdentifies(r, w)
  <2>1. UNCHANGED <<masks, step, workerLedger, proc>>
    BY <1>6 DEF WorkerIdentifies, resultVars
  <2> QED  BY <2>1
<1>7. CASE WorkerScans(r, w) \/ WorkerStartFails(r, w)
  <2>1. Still
    BY <1>1, <1>7 DEF WorkerScans, WorkerStartFails, Idle
  <2>2. Others
    BY <1>4, <1>7 DEF WorkerScans, WorkerStartFails
  <2>3. UNCHANGED <<masks, step>>
    BY <1>7 DEF WorkerScans, WorkerStartFails
  <2> QED  BY <2>1, <2>2, <2>3
<1>8. CASE WorkerStarts(r, w)
  <2>1. Still
    BY <1>1, <1>8 DEF WorkerStarts
  <2>2. UNCHANGED <<masks, workerLedger>>
    BY <1>8 DEF WorkerStarts, resultVars
  <2>3. Same
    BY <1>8, StartsFacts, SharesDiffer
  <2> QED  BY <2>1, <2>2, <2>3
<1>9. CASE WorkerEnds(r, w) \/ WorkerFails(r, w)
  <2>1. Still
    <3>1. Goes(r, w, "done") \/ Goes(r, w, "failed")
      BY <1>9 DEF WorkerEnds, WorkerFails
    <3> QED  BY <1>1, <3>1 DEF Idle
  <2>2. Others
    BY <1>4, <1>9 DEF WorkerEnds, WorkerFails, resultVars
  <2>3. UNCHANGED masks /\ Exits(r, {w})
    BY <1>9 DEF WorkerEnds, WorkerFails
  <2>4. Same
    BY <1>3, <2>3, SharesDiffer
  <2> QED  BY <2>1, <2>2, <2>3, <2>4
<1>10. CASE WorkerDies(r, w)
  <2>1. \/ Killed(r, Doomed(r, w)) /\ Exits(r, Doomed(r, w))
        \/ Goes(r, w, "failed") /\ UNCHANGED step
    BY <1>10 DEF WorkerDies, Killed, Doomed
  <2>2. UNCHANGED <<masks, workerLedger>>
    BY <1>10 DEF WorkerDies, resultVars
  <2>3. ASSUME Killed(r, Doomed(r, w)), Exits(r, Doomed(r, w)) PROVE Die
    <3>1. Doomed(r, w) \in SUBSET Worker
      BY DEF Doomed
    <3>2. /\ \A v \in Worker : proc'[r][v] = IF v \in Doomed(r, w) THEN "dead" ELSE proc[r][v]
          /\ \A q \in Start : q # r => proc'[q] = proc[q]
      BY <2>3, KilledTypes
    <3>3. \A q \in Start, e \in Episode :
              step'[q][e] = IF q = r /\ (\E v \in Doomed(r, w) : e \in Share(v)) THEN "todo"
                            ELSE step[q][e]
      BY <1>3, <2>3, <3>1
    <3> QED  BY <3>1, <3>2, <3>3, SharesDiffer
  <2>4. ASSUME Goes(r, w, "failed"), UNCHANGED step PROVE Die
    BY <1>1, <2>4 DEF Idle
  <2> QED  BY <2>1, <2>2, <2>3, <2>4
<1>11. ASSUME NEW d \in Episode, SamPublishes(r, w, d) PROVE Masks /\ Others /\ Same /\ Still
  <2>1. d \in Share(w) /\ StepTo(r, d, "made") /\ UNCHANGED <<proc, workerLedger>>
    BY <1>11 DEF SamPublishes, resultVars
  <2>2. Same
    BY <1>2, <2>1 DEF Step
  <2>3. Masks
    BY <1>11, <2>1 DEF SamPublishes, BatchTypeOK
  <2> QED  BY <2>1, <2>2, <2>3
<1>12. ASSUME NEW d \in Episode, SamEnds(r, w, d) PROVE Masks /\ Others /\ Same /\ Still
  <2>1. PICK s \in {"pending", "unshown"} : StepTo(r, d, s) /\ Persist(w, [step[r] EXCEPT ![d] = s])
    BY <1>12 DEF SamEnds
  <2>2. d \in Share(w) /\ UNCHANGED <<proc, masks>>
    BY <1>12 DEF SamEnds
  <2> QED  BY <1>2, <1>4, <2>1, <2>2 DEF Step
<1>13. ASSUME NEW d \in Episode, RenderShows(r, w, d) PROVE Masks /\ Others /\ Same /\ Still
  <2>1. StepTo(r, d, "shown") \/ StepTo(r, d, "unshown")
    BY <1>13 DEF RenderShows
  <2>2. d \in Share(w) /\ UNCHANGED <<proc, masks, workerLedger>>
    BY <1>13 DEF RenderShows, resultVars
  <2>3. Same
    BY <1>2, <2>1, <2>2 DEF Step
  <2> QED  BY <2>2, <2>3
<1>14. ASSUME NEW d \in Episode, CollectReview(r, w, d) PROVE Masks /\ Others /\ Same /\ Still
  <2>1. PICK s \in {"ready", "unready"} : StepTo(r, d, s) /\ Persist(w, [step[r] EXCEPT ![d] = s])
    BY <1>14 DEF CollectReview
  <2>2. d \in Share(w) /\ UNCHANGED <<proc, masks>>
    BY <1>14 DEF CollectReview
  <2> QED  BY <1>2, <1>4, <2>1, <2>2 DEF Step
<1> QED
  BY <1>5, <1>6, <1>7, <1>8, <1>9, <1>10, <1>11, <1>12, <1>13, <1>14 DEF Worked

InHandCell(r, w, e) ==
    Knows(r, w, e) /\ (~orphaned => Fresh(r, w, e) /\ LastWord(r, w, e))

\* The jobs of the worker that moves.
LEMMA OwnJobs ==
    ASSUME BatchTypeOK, Control, Jobwise, NEW r \in Start, NEW w \in Worker, Worked(r, w),
           NEW e \in Episode, e \in Share(w)
    PROVE  InHandCell(r, w, e)'
<1>0. UNCHANGED <<orphaned, resume, start>>
  BY WorkFrame DEF driverVars
<1>1. /\ Knows(r, w, e)
      /\ ~orphaned => Fresh(r, w, e) /\ LastWord(r, w, e)
  BY DEF Jobwise, JobsInHand
<1>2. Reviewed(e) => Reviewed(e)'
  BY ReviewedStays
<1> USE DEF InHandCell, Knows, Fresh, LastWord, Alive, Idle
<1>3. CASE WorkerValidates(r, w)
  <2>1. proc[r][w] = "validate" /\ UNCHANGED <<masks, step, workerLedger>>
    BY <1>3 DEF WorkerValidates, At, resultVars
  <2>2. Goes(r, w, "failed") \/ Goes(r, w, "identify")
    BY <1>3 DEF WorkerValidates
  <2>3. proc'[r][w] = "failed" \/ proc'[r][w] = "identify"
    BY <2>2, GoesTypes
  <2> QED  BY <1>0, <1>1, <2>1, <2>3
<1>4. CASE WorkerIdentifies(r, w)
  BY <1>0, <1>1, <1>2, <1>4 DEF WorkerIdentifies, resultVars
<1>5. CASE WorkerScans(r, w)
  <2>1. proc[r][w] = "identify" /\ proc'[r][w] = "scan" /\ UNCHANGED <<masks, step>>
    BY <1>5, GoesTypes DEF WorkerScans, At
  <2> QED  BY <1>0, <1>1, <2>1
<1>6. CASE WorkerStarts(r, w)
  <2>1. proc[r][w] = "scan" /\ proc'[r][w] = "run" /\ UNCHANGED <<masks, workerLedger>>
    BY <1>6, GoesTypes DEF WorkerStarts, At, resultVars
  <2>2. step[r][e] = "todo"
    BY <1>1, <2>1
  <2>3. step'[r][e] = IF Complete(r, e) THEN "pending" ELSE "todo"
    BY <1>6, <2>2, StartsFacts
  <2>4. resume[r] \in BOOLEAN
    BY DEF BatchTypeOK
  <2> QED  BY <1>0, <1>1, <2>1, <2>2, <2>3, <2>4 DEF Complete
<1>7. CASE WorkerStartFails(r, w)
  <2>1. proc[r][w] = "scan" /\ proc'[r][w] = "failed" /\ UNCHANGED <<masks, step>>
    BY <1>7, GoesTypes DEF WorkerStartFails, At
  <2> QED  BY <1>0, <1>1, <2>1
<1>8. CASE WorkerEnds(r, w)
  <2>1. /\ proc[r][w] = "run" /\ proc'[r][w] = "done" /\ Exits(r, {w})
        /\ UNCHANGED <<masks, workerLedger>>
        /\ step[r][e] \in {"ready", "unready"}
    BY <1>8, GoesTypes DEF WorkerEnds, At, resultVars
  <2>2. step'[r][e] = "todo"
    BY <2>1, ExitsFacts
  <2> QED  BY <1>0, <1>1, <2>1, <2>2
<1>9. CASE WorkerFails(r, w)
  <2>1. proc'[r][w] = "failed" /\ Exits(r, {w})
    BY <1>9, GoesTypes DEF WorkerFails
  <2>2. step'[r][e] = "todo"
    BY <2>1, ExitsFacts
  <2> QED  BY <2>1, <2>2
<1>10. CASE WorkerDies(r, w)
  <2>1. \/ Killed(r, Doomed(r, w)) /\ Exits(r, Doomed(r, w))
        \/ At(r, w, "identify") /\ Goes(r, w, "failed") /\ UNCHANGED step
    BY <1>10 DEF WorkerDies, Killed, Doomed
  <2>2. w \in Doomed(r, w) /\ Doomed(r, w) \in SUBSET Worker
    BY <1>10 DEF WorkerDies, Doomed
  <2>3. ASSUME Killed(r, Doomed(r, w)), Exits(r, Doomed(r, w))
        PROVE  proc'[r][w] = "dead" /\ step'[r][e] = "todo"
    BY <2>2, <2>3, KilledTypes, ExitsFacts
  <2>4. ASSUME At(r, w, "identify"), Goes(r, w, "failed"), UNCHANGED step
        PROVE  proc'[r][w] = "failed" /\ step'[r][e] = "todo"
    BY <1>1, <2>4, GoesTypes DEF At
  <2> QED  BY <2>1, <2>3, <2>4
<1>11. ASSUME NEW d \in Episode, SamPublishes(r, w, d) PROVE InHandCell(r, w, e)'
  <2>1. /\ proc[r][w] = "run" /\ d \in Share(w) /\ StepTo(r, d, "made")
        /\ masks' = [masks EXCEPT ![d] = r] /\ UNCHANGED <<proc, workerLedger>>
    BY <1>11 DEF SamPublishes, At, resultVars
  <2>2. step'[r][d] = "made" /\ \A c \in Episode : c # d => step'[r][c] = step[r][c]
    BY <2>1, StepToTypes DEF Step
  <2>3. /\ masks'[d] # 0 /\ \A c \in Episode : c # d => masks'[c] = masks[c]
    BY <2>1, BatchAssumption DEF BatchTypeOK, Start
  <2> QED  BY <1>0, <1>1, <1>2, <2>1, <2>2, <2>3
<1>12. ASSUME NEW d \in Episode, SamEnds(r, w, d) PROVE InHandCell(r, w, e)'
  <2>1. PICK s \in {"pending", "unshown"} :
            /\ step[r][d] = "made" \/ s = "unshown"
            /\ StepTo(r, d, s) /\ Persist(w, [step[r] EXCEPT ![d] = s])
    BY <1>12 DEF SamEnds
  <2>2. /\ proc[r][w] = "run" /\ d \in Share(w) /\ UNCHANGED <<proc, masks>>
    BY <1>12 DEF SamEnds, At
  <2>3. step'[r][d] = s /\ \A c \in Episode : c # d => step'[r][c] = step[r][c]
    BY <2>1, StepToTypes DEF Step
  <2>4. workerLedger'[w][e] = RowAt(step'[r][e])
    <3>1. [step[r] EXCEPT ![d] = s][e] = step'[r][e]
      BY <2>3 DEF BatchTypeOK
    <3>2. workerLedger'[w][e] = RowAt([step[r] EXCEPT ![d] = s][e])
      BY <2>1, PersistFacts
    <3> QED  BY <3>1, <3>2
  <2>5. step'[r][e] \in {"ready", "unready"} => workerLedger'[w][e] # "none"
    BY <2>4 DEF RowAt
  <2> QED  BY <1>0, <1>1, <1>2, <2>1, <2>2, <2>3, <2>5
<1>13. ASSUME NEW d \in Episode, RenderShows(r, w, d) PROVE InHandCell(r, w, e)'
  <2>1. /\ proc[r][w] = "run" /\ d \in Share(w) /\ step[r][d] = "pending"
        /\ UNCHANGED <<proc, masks, workerLedger>>
    BY <1>13 DEF RenderShows, At, resultVars
  <2>2. \/ video' = [video EXCEPT ![d] = masks[d]] /\ StepTo(r, d, "shown")
        \/ StepTo(r, d, "unshown")
    BY <1>13 DEF RenderShows
  <2>3. \A s \in Step : StepTo(r, d, s) =>
            step'[r][d] = s /\ \A c \in Episode : c # d => step'[r][c] = step[r][c]
    BY StepToTypes
  <2>4. /\ step'[r][d] \in {"shown", "unshown"}
        /\ \A c \in Episode : c # d => step'[r][c] = step[r][c]
    BY <2>2, <2>3 DEF Step
  <2>5. masks[d] # 0
    BY <2>1 DEF Jobwise, JobsInHand
  <2>6. step'[r][d] = "shown" => Reviewed(d)'
    BY <2>1, <2>2, <2>3, <2>5 DEF Reviewed, BatchTypeOK, Step
  <2> QED  BY <1>0, <1>1, <1>2, <2>1, <2>4, <2>6
<1>14. ASSUME NEW d \in Episode, CollectReview(r, w, d) PROVE InHandCell(r, w, e)'
  <2>1. PICK s \in {"ready", "unready"} :
            /\ s = "ready" => step[r][d] = "shown"
            /\ StepTo(r, d, s) /\ Persist(w, [step[r] EXCEPT ![d] = s])
    BY <1>14 DEF CollectReview
  <2>2. /\ proc[r][w] = "run" /\ d \in Share(w) /\ UNCHANGED <<proc, masks>>
    BY <1>14 DEF CollectReview, At
  <2>3. step'[r][d] = s /\ \A c \in Episode : c # d => step'[r][c] = step[r][c]
    BY <2>1, StepToTypes DEF Step
  <2>4. workerLedger'[w][e] = RowAt(step'[r][e])
    <3>1. [step[r] EXCEPT ![d] = s][e] = step'[r][e]
      BY <2>3 DEF BatchTypeOK
    <3>2. workerLedger'[w][e] = RowAt([step[r] EXCEPT ![d] = s][e])
      BY <2>1, PersistFacts
    <3> QED  BY <3>1, <3>2
  <2>5. step'[r][e] \in {"ready", "unready"} => workerLedger'[w][e] # "none"
    BY <2>4 DEF RowAt
  <2> QED  BY <1>0, <1>1, <1>2, <2>1, <2>2, <2>3, <2>5
<1> QED
  BY <1>3, <1>4, <1>5, <1>6, <1>7, <1>8, <1>9, <1>10, <1>11, <1>12, <1>13, <1>14 DEF Worked

LEMMA JobsInHandWork ==
    ASSUME BatchTypeOK, Control, Jobwise, NEW r \in Start, NEW w \in Worker, Worked(r, w)
    PROVE  JobsInHand'
<1>0. UNCHANGED <<orphaned, resume, start, selection>> /\ Alive(r, w)
  BY WorkFrame DEF driverVars
<1>1. \A v : Share(v)' = Share(v)
  BY <1>0 DEF Share
<1>2. ASSUME NEW q \in Start, NEW v \in Worker, NEW e \in Episode, e \in Share(v), q # r \/ v # w
      PROVE  InHandCell(q, v, e)'
  <2>1. Knows(q, v, e) /\ (~orphaned => Fresh(q, v, e) /\ LastWord(q, v, e))
    BY <1>2 DEF Jobwise, JobsInHand
  <2>2. (Reviewed(e) => Reviewed(e)') /\ (masks[e] # 0 => masks'[e] # 0)
    BY ReviewedStays
  <2>3. CASE proc'[q][v] = "dead" /\ step'[q][e] = "todo"
    BY <2>3 DEF InHandCell, Knows, Fresh, LastWord, Alive, Idle
  <2>4. CASE proc'[q][v] = proc[q][v] /\ step'[q][e] = step[q][e]
    <3>1. Knows(q, v, e)'
      BY <2>1, <2>2, <2>4 DEF Knows
    <3>2. ASSUME ~orphaned PROVE Fresh(q, v, e)' /\ LastWord(q, v, e)'
      <4>1. r = start
        BY <1>0, <3>2 DEF Control, ProcsInOrder
      <4>2. CASE q # r
        <5>1. ~Alive(q, v)
          BY <3>2, <4>1, <4>2 DEF Control, ProcsInOrder
        <5> QED  BY <1>0, <2>4, <4>1, <4>2, <5>1 DEF Fresh, LastWord, Alive, Idle
      <4>3. CASE v # w
        <5>1. e \notin Share(w)
          BY <1>2, <4>3, SharesDiffer
        <5>2. masks'[e] = masks[e] /\ workerLedger'[v] = workerLedger[v]
          BY <4>3, <5>1, WorkElsewhere
        <5> QED  BY <1>0, <2>1, <2>4, <3>2, <5>2 DEF Fresh, LastWord, Alive
      <4> QED  BY <1>2, <4>2, <4>3
    <3> QED  BY <1>0, <3>1, <3>2 DEF InHandCell
  <2> QED  BY <1>2, <2>3, <2>4, WorkElsewhere
<1> QED  BY <1>0, <1>1, <1>2, OwnJobs DEF JobsInHand, InHandCell

LEMMA RowsWork ==
    ASSUME BatchTypeOK, Control, Jobwise, NEW r \in Start, NEW w \in Worker, Worked(r, w)
    PROVE  RowsReviewed' /\ OwnRows' /\ FirstRun'
<1>0. /\ UNCHANGED <<orphaned, selection, results, ledger, driver, resume, start>> /\ Alive(r, w)
  BY WorkFrame DEF driverVars
<1>1. selection # None
  BY <1>0 DEF Control, NothingYet, Alive, Idle
<1>2. \A e \in Episode : Reviewed(e) => Reviewed(e)'
  BY ReviewedStays
<1>3. \A e \in Episode : e \in Share(w) =>
          /\ step[r][e] \in {"shown", "ready"} => Reviewed(e)
          /\ proc[r][w] # "run" => step[r][e] = "todo"
  BY DEF Jobwise, JobsInHand, Knows
<1> DEFINE Good == \A e \in Episode :
                       /\ workerLedger'[w][e] = "ready" => Reviewed(e)'
                       /\ workerLedger'[w][e] # "none" => e \in Share(w)
<1>4. ASSUME NEW steps, Persist(w, steps),
             \A e \in Episode : e \in Share(w) /\ steps[e] = "ready" => Reviewed(e)'
      PROVE  Good
  <2>1. \A e \in Episode : workerLedger'[w][e] = IF e \in Share(w) THEN RowAt(steps[e]) ELSE "none"
    BY <1>4, PersistFacts
  <2>2. \A s : RowAt(s) = "ready" <=> s = "ready"
    BY DEF RowAt
  <2> QED  BY <1>4, <2>1, <2>2
<1>6. ASSUME WorkerScans(r, w) PROVE Good
  <2>1. Persist(w, [e \in Episode |-> "todo"])
    BY <1>6 DEF WorkerScans
  <2> QED  BY <1>4, <2>1
<1>7. ASSUME WorkerStartFails(r, w) PROVE Good
  <2>1. Persist(w, [e \in Episode |-> "unready"])
    BY <1>7 DEF WorkerStartFails
  <2> QED  BY <1>4, <2>1
<1>8. ASSUME WorkerFails(r, w) PROVE Good
  <2> DEFINE last == [e \in Episode |-> IF e \notin Share(w) THEN step[r][e]
                                        ELSE IF step[r][e] \in {"shown", "ready"} THEN "ready"
                                        ELSE "unready"]
  <2>1. Persist(w, last)
    BY <1>8 DEF WorkerFails
  <2>2. \A e \in Episode : e \in Share(w) /\ last[e] = "ready" => Reviewed(e)'
    BY <1>2, <1>3
  <2> HIDE DEF last
  <2> QED  BY <1>4, <2>1, <2>2
<1>9. ASSUME NEW d \in Episode, SamEnds(r, w, d) PROVE Good
  <2>1. PICK s \in {"pending", "unshown"} : Persist(w, [step[r] EXCEPT ![d] = s])
    BY <1>9 DEF SamEnds
  <2>2. \A e \in Episode : e \in Share(w) /\ [step[r] EXCEPT ![d] = s][e] = "ready"
            => Reviewed(e)'
    BY <1>2, <1>3 DEF BatchTypeOK
  <2> QED  BY <1>4, <2>1, <2>2
<1>10. ASSUME NEW d \in Episode, CollectReview(r, w, d) PROVE Good
  <2>1. PICK s \in {"ready", "unready"} : /\ Persist(w, [step[r] EXCEPT ![d] = s])
                                          /\ s = "ready" => step[r][d] = "shown"
    BY <1>10 DEF CollectReview
  <2>2. \A e \in Episode : e \in Share(w) /\ [step[r] EXCEPT ![d] = s][e] = "ready"
            => Reviewed(e)'
    BY <1>2, <1>3, <2>1 DEF BatchTypeOK
  <2> QED  BY <1>4, <2>1, <2>2
<1>11. Good \/ workerLedger' = workerLedger
  <2>1. WorkerValidates(r, w) \/ WorkerIdentifies(r, w) \/ WorkerStarts(r, w) \/ WorkerEnds(r, w)
            \/ WorkerDies(r, w) => workerLedger' = workerLedger
    BY DEF WorkerValidates, WorkerIdentifies, WorkerStarts, WorkerEnds, WorkerDies, resultVars
  <2>2. \A d \in Episode : SamPublishes(r, w, d) \/ RenderShows(r, w, d)
                               => workerLedger' = workerLedger
    BY DEF SamPublishes, RenderShows, resultVars
  <2> QED  BY <1>6, <1>7, <1>8, <1>9, <1>10, <2>1, <2>2 DEF Worked
<1>12. ASSUME Good PROVE RowsReviewed' /\ OwnRows'
  <2>1. \A v \in Worker : v # w => workerLedger'[v] = workerLedger[v]
    BY WorkElsewhere
  <2>2. \A v : Share(v)' = Share(v)
    BY <1>0 DEF Share
  <2>3. OwnRows'
    BY <1>0, <1>1, <1>12, <2>1, <2>2 DEF Jobwise, OwnRows
  <2>4. RowsReviewed'
    BY <1>0, <1>2, <1>12, <2>1 DEF Jobwise, RowsReviewed
  <2> QED  BY <2>3, <2>4
<1>13. FirstRun'
  BY <1>0 DEF FirstRun, Control, ProcsInOrder
<1>14. CASE workerLedger' = workerLedger
  <2>1. \A v : Share(v)' = Share(v)
    BY <1>0 DEF Share
  <2> QED  BY <1>0, <1>2, <1>13, <1>14, <2>1 DEF Jobwise, RowsReviewed, OwnRows
<1> QED  BY <1>11, <1>12, <1>13, <1>14

LEMMA MergedFacts ==
    ASSUME BatchTypeOK, NEW f, NEW e \in Episode
    PROVE  /\ Merged(f)[e] = "ready" => f[e] = "ready" \/ \E w \in Worker : workerLedger[w][e] = "ready"
           /\ (\E w \in Worker : workerLedger[w][e] = "ready") => Merged(f)[e] = "ready"
           /\ (\E w \in Worker : workerLedger[w][e] # "none")
                 /\ (\A w \in Worker : workerLedger[w][e] # "ready") => Merged(f)[e] = "failed"
<1>1. \A w \in Worker : workerLedger[w][e] \in {"none", "ready", "unready"}
  BY DEF BatchTypeOK, WorkerRow
<1> QED  BY <1>1 DEF Merged

LEMMA JobwiseDrives ==
    ASSUME PrepareInv, BatchTypeOK, Control, Jobwise, DriverStep
    PROVE  Jobwise'
<1> USE DEF outputVars, resultVars, driverVars, workVars, historyVars
<1>0. /\ start \in 0..MaxStarts /\ MaxStarts \in Nat /\ Start = 1..MaxStarts
      /\ orphaned \in BOOLEAN
  BY BatchAssumption DEF BatchTypeOK, Start
<1>1. UNCHANGED <<masks, video, step, workerLedger>>
  BY DEF DriverStep, StartBatch, WriteSelection, SelectionFails, SaveFirst, Launch, RoundSave,
         AllDone, BatchFails, Unwind, Finish, DriverDies
<1>2. orphaned => orphaned'
  BY DEF DriverStep, StartBatch, WriteSelection, SelectionFails, SaveFirst, Launch, RoundSave,
         AllDone, BatchFails, Unwind, Finish, DriverDies
<1>3. \A e \in Episode : Reviewed(e) => Reviewed(e)'
  BY <1>1, <1>2 DEF Reviewed
\* Nothing but the books of the driver.
<1>4. ASSUME UNCHANGED <<selection, proc, resume, start>> PROVE JobsInHand' /\ OwnRows'
  <2>1. \A v : Share(v)' = Share(v)
    BY <1>4 DEF Share
  <2>2. ASSUME NEW r \in Start, NEW w \in Worker, NEW e \in Episode, e \in Share(w)
        PROVE  Knows(r, w, e)' /\ (~orphaned' => Fresh(r, w, e)' /\ LastWord(r, w, e)')
    <3>1. Knows(r, w, e) /\ (~orphaned => Fresh(r, w, e) /\ LastWord(r, w, e))
      BY <2>2 DEF Jobwise, JobsInHand
    <3> QED  BY <1>1, <1>2, <1>3, <1>4, <3>1 DEF Knows, Fresh, LastWord, Alive
  <2> QED  BY <1>1, <1>4, <2>1, <2>2 DEF Jobwise, JobsInHand, OwnRows
<1>5. ASSUME \A e \in Episode : ledger'[e] = "ready" =>
                 ledger[e] = "ready" \/ \E w \in Worker : workerLedger[w][e] = "ready",
             results' = results \/ results' = Rows(ledger')
      PROVE  RowsReviewed'
  <2>1. \A e \in Episode : ledger'[e] = "ready" => Reviewed(e)'
    BY <1>3, <1>5 DEF Jobwise, RowsReviewed
  <2>2. \A e \in Episode : results' # None /\ results'.rows[e] = "ready" => Reviewed(e)'
    BY <1>3, <1>5, <2>1, RowsAreSome DEF Jobwise, RowsReviewed
  <2> QED  BY <1>1, <1>3, <2>1, <2>2 DEF Jobwise, RowsReviewed
<1>6. \A e \in Episode : Merged(ledger)[e] = "ready" =>
          ledger[e] = "ready" \/ \E w \in Worker : workerLedger[w][e] = "ready"
  BY MergedFacts
<1>7. CASE StartBatch
  <2>1. /\ start' = start + 1 /\ start + 1 \in Start /\ driver = "off"
        /\ resume' = [resume EXCEPT ![start + 1] = (selection # None)]
        /\ UNCHANGED <<selection, proc, orphaned, results>>
    BY <1>0, <1>7 DEF StartBatch
  <2>2. resume'[start'] = (selection # None) /\ \A r \in Start : r # start' => resume'[r] = resume[r]
    BY <2>1 DEF BatchTypeOK
  <2>3. \A v : Share(v)' = Share(v)
    BY <2>1 DEF Share
  <2>4. ASSUME NEW r \in Start, NEW w \in Worker, NEW e \in Episode, e \in Share(w)
        PROVE  Knows(r, w, e)' /\ (~orphaned' => Fresh(r, w, e)' /\ LastWord(r, w, e)')
    <3>1. Knows(r, w, e) /\ (~orphaned => Fresh(r, w, e) /\ LastWord(r, w, e))
      BY <2>4 DEF Jobwise, JobsInHand
    <3>2. r = start' => proc[r][w] = "none"
      BY <1>0, <2>1 DEF Control, ProcsInOrder
    <3>3. Knows(r, w, e)'
      BY <1>1, <1>3, <2>1, <3>1 DEF Knows
    <3>4. CASE r = start'
      BY <2>1, <3>2, <3>3, <3>4 DEF Fresh, LastWord, Alive, Idle
    <3>5. CASE r # start'
      BY <1>1, <2>1, <2>2, <3>1, <3>3, <3>5 DEF Fresh, LastWord, Alive
    <3> QED  BY <3>4, <3>5
  <2>5. JobsInHand' /\ OwnRows'
    BY <1>1, <2>1, <2>3, <2>4 DEF Jobwise, JobsInHand, OwnRows
  <2>6. RowsReviewed'
    <3>1. plan.rows \in [Episode -> RowStatus]
      BY <1>7 DEF StartBatch, BatchTypeOK, TypeOK
    <3>2. \A e \in Episode : ledger'[e] # "ready"
      BY <1>7, <3>1 DEF StartBatch, RowStatus
    <3> QED  BY <1>5, <2>1, <3>2
  <2>7. FirstRun'
    <3>1. selection = None => \A e \in Episode : masks[e] = 0
      BY DEF Control, NothingYet
    <3> QED  BY <1>1, <2>1, <2>2, <3>1 DEF FirstRun
  <2> QED  BY <2>5, <2>6, <2>7 DEF Jobwise
<1>8. CASE WriteSelection
  <2>1. /\ driver = "select" /\ selection = None /\ selection' # None
        /\ UNCHANGED <<proc, resume, start, orphaned, ledger, results>>
    BY <1>8, SelectionIsSome DEF WriteSelection, Control, DriverInOrder
  <2>2. /\ \A r \in Start, w \in Worker : proc[r][w] = "none"
        /\ \A r \in Start, e \in Episode : step[r][e] = "todo"
    BY <2>1 DEF Control, NothingYet
  <2>3. \A w \in Worker, e \in Episode : workerLedger[w][e] = "none"
    BY <2>1 DEF Jobwise, OwnRows
  <2>4. OwnRows'
    BY <1>1, <2>3 DEF OwnRows
  <2>5. JobsInHand'
    BY <1>1, <2>1, <2>2 DEF JobsInHand, Knows, Fresh, LastWord, Alive, Idle
  <2>6. RowsReviewed' /\ FirstRun'
    BY <1>1, <1>3, <2>1 DEF Jobwise, RowsReviewed, FirstRun
  <2> QED  BY <2>4, <2>5, <2>6 DEF Jobwise
<1>9. CASE SelectionFails \/ BatchFails \/ DriverDies
  <2>1. /\ UNCHANGED <<selection, proc, resume, start, ledger, results>>
        /\ driver' \notin {"select", "save"}
    BY <1>9 DEF SelectionFails, BatchFails, DriverDies
  <2> QED  BY <1>1, <1>3, <1>4, <2>1 DEF Jobwise, RowsReviewed, FirstRun
<1>10. CASE SaveFirst
  <2>1. /\ UNCHANGED <<selection, proc, resume, start, driver, orphaned>>
        /\ ledger' = Merged(ledger) /\ results' \in {results, Rows(ledger')}
    BY <1>10 DEF SaveFirst
  <2> QED  BY <1>1, <1>4, <1>5, <1>6, <2>1 DEF Jobwise, FirstRun
<1>11. CASE Launch
  <2>1. /\ driver = "save" /\ driver' = "run" /\ start \in Start
        /\ UNCHANGED <<selection, resume, start, ledger, results, orphaned>>
    BY <1>11 DEF Launch, Control, DriverInOrder
  <2>2. /\ \A v \in Worker : proc'[start][v] \in {"validate", "none"} /\ proc[start][v] = "none"
        /\ \A q \in Start, v \in Worker : q # start => proc'[q][v] = proc[q][v]
    BY <1>11, <2>1 DEF Launch, BatchTypeOK, Control, ProcsInOrder
  <2>3. \A v : Share(v)' = Share(v)
    BY <2>1 DEF Share
  <2>4. ASSUME NEW r \in Start, NEW w \in Worker, NEW e \in Episode, e \in Share(w)
        PROVE  Knows(r, w, e)' /\ (~orphaned' => Fresh(r, w, e)' /\ LastWord(r, w, e)')
    <3>1. Knows(r, w, e) /\ (~orphaned => Fresh(r, w, e) /\ LastWord(r, w, e))
      BY <2>4 DEF Jobwise, JobsInHand
    <3>2. CASE r = start
      <4>1. step[r][e] = "todo"
        BY <2>2, <3>1, <3>2 DEF Knows
      <4>2. ~orphaned /\ ~resume[r] => masks[e] = 0
        BY <2>1, <3>2 DEF Jobwise, FirstRun
      <4> QED  BY <1>1, <2>1, <2>2, <3>2, <4>1, <4>2 DEF Knows, Fresh, LastWord, Alive, Idle
    <3>3. CASE r # start
      BY <1>1, <1>3, <2>1, <2>2, <3>1, <3>3 DEF Knows, Fresh, LastWord, Alive
    <3> QED  BY <3>2, <3>3
  <2>5. JobsInHand' /\ OwnRows'
    BY <1>1, <2>1, <2>3, <2>4 DEF Jobwise, JobsInHand, OwnRows
  <2> QED  BY <1>1, <1>3, <2>1, <2>5 DEF Jobwise, RowsReviewed, FirstRun
<1>12. CASE RoundSave \/ AllDone \/ Finish
  <2>1. /\ UNCHANGED <<selection, proc, resume, start, orphaned>>
        /\ driver' \notin {"select", "save"}
        /\ ledger' = Merged(ledger) /\ results' = Rows(ledger')
    BY <1>12 DEF RoundSave, AllDone, Finish, Save
  <2> QED  BY <1>4, <1>5, <1>6, <2>1 DEF Jobwise, FirstRun
<1>13. CASE Unwind
  <2> DEFINE last == Merged(ledger)
             f == [e \in Episode |-> IF last[e] = "queued" THEN "failed" ELSE last[e]]
  <2>1. /\ UNCHANGED <<selection, proc, resume, start, orphaned>>
        /\ driver' = "off" /\ ledger' = f /\ results' = Rows(f)
    BY <1>13 DEF Unwind, Save
  <2>2. \A e \in Episode : f[e] = "ready" => last[e] = "ready"
    OBVIOUS
  <2> HIDE DEF f
  <2> QED  BY <1>4, <1>5, <1>6, <2>1, <2>2 DEF Jobwise, FirstRun
<1> QED
  BY <1>7, <1>8, <1>9, <1>10, <1>11, <1>12, <1>13 DEF DriverStep

LEMMA JobwiseNext == PrepareInv /\ BatchTypeOK /\ Control /\ Jobwise /\ [Next]_vars => Jobwise'
<1> SUFFICES ASSUME PrepareInv, BatchTypeOK, Control, Jobwise, [Next]_vars PROVE Jobwise'
  OBVIOUS
<1>1. CASE UNCHANGED <<outputVars, resultVars, driverVars, workVars, historyVars>>
  BY <1>1 DEF outputVars, resultVars, driverVars, workVars, historyVars, Jobwise, JobsInHand,
              FirstRun, RowsReviewed, OwnRows, Knows, Fresh, LastWord, Reviewed, Alive, Share
<1>2. ASSUME NEW r \in Start, NEW w \in Worker, Worked(r, w) PROVE Jobwise'
  BY <1>2, JobsInHandWork, RowsWork DEF Jobwise
<1> QED
  BY <1>1, <1>2, JobwiseDrives, WorkerStepIsWork DEF Next, Prepares, vars

LEMMA BatchAlways == Spec => [](PrepareInv /\ BatchTypeOK /\ Control /\ Jobwise)
<1>1. Init => PrepareInv /\ BatchTypeOK /\ Control /\ Jobwise
  BY InvInit, BatchTypeInit, ControlInit, JobwiseInit DEF Init
<1>2. PrepareInv /\ BatchTypeOK /\ Control /\ Jobwise /\ [Next]_vars
          => (PrepareInv /\ BatchTypeOK /\ Control /\ Jobwise)'
  BY BatchTypeNext, ControlNext, JobwiseNext
<1> QED  BY <1>1, <1>2, PTL DEF Spec

\* Over any number of starts, interrupts and failures, what is up for review is
\* shown with its published masks, but for workers a killed driver left behind.
THEOREM ReviewsShowWhatIsPublished == Spec => []ReviewShowsMasks
<1>1. Jobwise => ReviewShowsMasks
  BY DEF Jobwise, RowsReviewed, ReviewShowsMasks, Ready, Reviewed
<1> QED  BY <1>1, BatchAlways, PTL

-----------------------------------------------------------------------------
(* A finished batch is whole *)

BatchInv == PrepareInv /\ BatchTypeOK /\ Control /\ Jobwise

\* What a finished batch rests on: all workers of a start were done, and their
\* ledgers hold a row of every job.
FinishedRows ==
    status = "finished" /\ ~orphaned =>
        /\ selection # None
        /\ \A e \in selection.jobs : workerLedger[selection.shard[e]][e] # "none"

FinishedInv == FinishedRows /\ FinishedIsWhole

LEMMA MergedJob ==
    ASSUME BatchInv, selection # None, NEW f, NEW e \in selection.jobs,
           workerLedger[selection.shard[e]][e] # "none"
    PROVE  Merged(f)[e] = IF workerLedger[selection.shard[e]][e] = "ready" THEN "ready" ELSE "failed"
<1> USE DEF BatchInv
<1>1. e \in Episode /\ selection.shard[e] \in Worker
  BY SelectionTypes
<1>2. \A w \in Worker : workerLedger[w][e] # "none" => w = selection.shard[e]
  BY <1>1 DEF Jobwise, OwnRows, Share
<1> QED  BY <1>1, <1>2, MergedFacts

\* Once its driver has saved that it is finished, only another start changes that.
LEMMA FinishedStays ==
    ASSUME BatchInv, FinishedInv, NEW r \in Start, NEW w \in Worker, Worked(r, w)
    PROVE  FinishedInv'
<1>1. UNCHANGED <<status, orphaned>> /\ Alive(r, w)
  BY WorkFrame
<1>2. orphaned \/ status # "finished"
  BY <1>1 DEF BatchInv, Control, ProcsInOrder, DriverInOrder
<1> QED  BY <1>1, <1>2 DEF FinishedInv, FinishedRows, FinishedIsWhole

LEMMA FinishedDrives ==
    ASSUME BatchInv, FinishedInv, DriverStep
    PROVE  FinishedInv'
<1> USE DEF outputVars, resultVars, driverVars, workVars, historyVars, BatchInv
<1>1. CASE StartBatch \/ BatchFails
  BY <1>1 DEF StartBatch, BatchFails, FinishedInv, FinishedRows, FinishedIsWhole, At
<1>2. CASE WriteSelection \/ SelectionFails
  <2>1. status' = status /\ status = "none"
    BY <1>2 DEF WriteSelection, SelectionFails, Control, DriverInOrder, NothingYet
  <2> QED  BY <2>1 DEF FinishedInv, FinishedRows, FinishedIsWhole
<1>3. CASE SaveFirst
  <2>1. /\ UNCHANGED <<selection, workerLedger, proc, orphaned>>
        /\ results' \in {results, Rows(Merged(ledger))}
        /\ status' \in {status, "running"}
    BY <1>3 DEF SaveFirst
  <2>2. ASSUME status' = "finished", ~orphaned PROVE FinishedRows' /\ FinishedIsWhole'
    <3>1. FinishedRows /\ FinishedIsWhole /\ status = "finished" /\ selection # None
      BY <2>1, <2>2 DEF FinishedInv, FinishedRows
    <3>2. \A e \in selection.jobs :
              Merged(ledger)[e] = IF workerLedger[selection.shard[e]][e] = "ready"
                                  THEN "ready" ELSE "failed"
      BY <2>2, <3>1, MergedJob DEF FinishedRows
    <3>3. \A e \in selection.jobs :
              results'.rows[e] = IF workerLedger[selection.shard[e]][e] = "ready"
                                 THEN "ready" ELSE "failed"
      BY <2>1, <2>2, <3>1, <3>2, RowsAreSome DEF FinishedIsWhole
    <3> QED  BY <2>1, <2>2, <3>1, <3>3 DEF FinishedRows, FinishedIsWhole, At
  <2> QED  BY <2>1, <2>2 DEF FinishedInv, FinishedRows, FinishedIsWhole
<1>4. CASE Launch
  <2>1. status = "running" /\ status' = status
    BY <1>4 DEF Launch
  <2> QED  BY <2>1 DEF FinishedInv, FinishedRows, FinishedIsWhole
<1>5. CASE RoundSave \/ AllDone \/ Unwind
  <2>1. status' # "finished"
    BY <1>5 DEF RoundSave, AllDone, Unwind, Save
  <2> QED  BY <2>1 DEF FinishedInv, FinishedRows, FinishedIsWhole
<1>6. CASE Finish
  <2>1. /\ driver = "group" /\ selection # None /\ start \in Start
        /\ UNCHANGED <<selection, workerLedger, proc, orphaned>>
        /\ results' = Rows(Merged(ledger))
    BY <1>6 DEF Finish, Save, Control, DriverInOrder
  <2>2. ASSUME ~orphaned PROVE FinishedRows' /\ FinishedIsWhole'
    <3>1. \A e \in selection.jobs : At(start, selection.shard[e], "done")
      BY <2>1, <2>2 DEF Control, RunLaunched
    <3>2. \A e \in selection.jobs : e \in Episode /\ selection.shard[e] \in Worker
                                    /\ e \in Share(selection.shard[e])
      BY <2>1, SelectionTypes
    <3>3. \A e \in selection.jobs : workerLedger[selection.shard[e]][e] # "none"
      BY <2>1, <2>2, <3>1, <3>2 DEF Jobwise, JobsInHand, LastWord, At
    <3>4. \A e \in selection.jobs :
              results'.rows[e] = IF workerLedger[selection.shard[e]][e] = "ready"
                                 THEN "ready" ELSE "failed"
      BY <2>1, <3>3, MergedJob, RowsAreSome
    <3> QED  BY <2>1, <3>1, <3>3, <3>4 DEF FinishedRows, FinishedIsWhole, At
  <2> QED  BY <2>1, <2>2 DEF FinishedInv, FinishedRows, FinishedIsWhole
<1>7. CASE DriverDies
  <2>1. /\ UNCHANGED <<status, selection, workerLedger, proc, results>>
        /\ orphaned => orphaned'
    BY <1>7 DEF DriverDies
  <2> QED  BY <2>1 DEF FinishedInv, FinishedRows, FinishedIsWhole, At
<1> QED
  BY <1>1, <1>2, <1>3, <1>4, <1>5, <1>6, <1>7 DEF DriverStep

LEMMA FinishedNext == BatchInv /\ FinishedInv /\ [Next]_vars => FinishedInv'
<1> SUFFICES ASSUME BatchInv, FinishedInv, [Next]_vars PROVE FinishedInv'
  OBVIOUS
<1>1. CASE UNCHANGED <<outputVars, resultVars, driverVars, workVars, historyVars>>
  BY <1>1 DEF outputVars, resultVars, driverVars, workVars, historyVars, FinishedInv,
              FinishedRows, FinishedIsWhole, At
<1> QED
  BY <1>1, FinishedStays, FinishedDrives, WorkerStepIsWork DEF Next, Prepares, vars

\* "Finished" is the word of all the workers: whatever was interrupted before,
\* every job's worker was done and the batch repeats what it reported.
THEOREM FinishedBatchIsWhole == Spec => []FinishedIsWhole
<1>1. Init => FinishedInv
  BY DEF Init, FinishedInv, FinishedRows, FinishedIsWhole
<1>2. Spec => []BatchInv
  BY BatchAlways, PTL DEF BatchInv
<1>3. FinishedInv => FinishedIsWhole
  BY DEF FinishedInv
<1> QED  BY <1>1, <1>2, <1>3, FinishedNext, PTL DEF Spec

-----------------------------------------------------------------------------
(* A start is refused for a reason *)

\* A directory without the file that names its owner is being identified just
\* now, unless something died in the middle of it.
SetupInOrder ==
    selection # None /\ ~setupBroken =>
        \A e \in selection.jobs : folder[e] /\ ~identity[e] =>
            \E r \in Start : proc[r][selection.shard[e]] = "identify"

LEMMA SetupWorks ==
    ASSUME BatchInv, SetupInOrder, NEW r \in Start, NEW w \in Worker, Worked(r, w)
    PROVE  SetupInOrder'
<1> USE DEF BatchInv
<1>0. UNCHANGED <<selection, start, driver>>
  BY WorkFrame DEF driverVars
<1> SUFFICES ASSUME selection # None, ~setupBroken', NEW e \in selection.jobs,
                    folder'[e], ~identity'[e]
             PROVE  \E q \in Start : proc'[q][selection.shard[e]] = "identify"
  BY <1>0 DEF SetupInOrder
<1> DEFINE v == selection.shard[e]
<1>1. v \in Worker /\ e \in Episode /\ e \in Share(v)
  BY SelectionTypes
<1>2. CASE WorkerIdentifies(r, w)
  <2>1. /\ UNCHANGED <<proc, setupBroken>> /\ proc[r][w] = "identify"
        /\ \A d \in Episode : d \notin Share(w) => folder'[d] = folder[d] /\ identity'[d] = identity[d]
    BY <1>2 DEF WorkerIdentifies, At, historyVars, Share, BatchTypeOK
  <2>2. CASE v = w
    BY <2>1, <2>2
  <2>3. CASE v # w
    <3>1. folder[e] /\ ~identity[e]
      BY <1>1, <2>1, <2>3, SharesDiffer
    <3> QED  BY <2>1, <3>1 DEF SetupInOrder
  <2> QED  BY <2>2, <2>3
<1>3. CASE WorkerDies(r, w)
  <2>1. folder' = folder /\ identity' = identity
        /\ setupBroken' = (setupBroken \/ \E d \in selection.jobs : folder[d] /\ ~identity[d])
    BY <1>3 DEF WorkerDies
  <2> QED  BY <2>1
<1>4. CASE WorkerScans(r, w)
  <2>1. /\ UNCHANGED <<folder, identity, setupBroken>> /\ Goes(r, w, "scan")
        /\ \A d \in Share(w) : identity[d]
    BY <1>4 DEF WorkerScans, historyVars
  <2>2. v # w
    BY <1>1, <2>1
  <2>3. PICK q \in Start : proc[q][v] = "identify"
    BY <2>1 DEF SetupInOrder
  <2>4. proc'[q][v] = proc[q][v]
    BY <1>1, <2>1, <2>2, GoesTypes
  <2> QED  BY <2>3, <2>4
<1>5. ASSUME UNCHANGED <<folder, identity, setupBroken>>,
             \A q \in Start, u \in Worker : proc[q][u] = "identify" => proc'[q][u] = "identify"
      PROVE  \E q \in Start : proc'[q][v] = "identify"
  BY <1>1, <1>5 DEF SetupInOrder
<1>6. ASSUME NEW s \in Idle \cup {"validate", "identify", "scan", "run"}, Goes(r, w, s),
             proc[r][w] # "identify"
      PROVE  \A q \in Start, u \in Worker : proc[q][u] = "identify" => proc'[q][u] = "identify"
  BY <1>6, GoesTypes
<1>7. CASE WorkerValidates(r, w)
  <2>1. Goes(r, w, "failed") \/ Goes(r, w, "identify")
    BY <1>7 DEF WorkerValidates
  <2>2. proc[r][w] # "identify" /\ UNCHANGED <<folder, identity, setupBroken>>
    BY <1>7 DEF WorkerValidates, At, historyVars
  <2> QED  BY <1>5, <1>6, <2>1, <2>2 DEF Idle
<1>8. CASE WorkerStarts(r, w)
  <2>1. Goes(r, w, "run") /\ proc[r][w] # "identify" /\ UNCHANGED <<folder, identity, setupBroken>>
    BY <1>8 DEF WorkerStarts, At, historyVars
  <2> QED  BY <1>5, <1>6, <2>1
<1>9. CASE WorkerStartFails(r, w) \/ WorkerFails(r, w)
  <2>1. /\ Goes(r, w, "failed") /\ proc[r][w] # "identify"
        /\ UNCHANGED <<folder, identity, setupBroken>>
    BY <1>9 DEF WorkerStartFails, WorkerFails, At, historyVars
  <2> QED  BY <1>5, <1>6, <2>1 DEF Idle
<1>10. CASE WorkerEnds(r, w)
  <2>1. Goes(r, w, "done") /\ proc[r][w] # "identify" /\ UNCHANGED <<folder, identity, setupBroken>>
    BY <1>10 DEF WorkerEnds, At, historyVars
  <2> QED  BY <1>5, <1>6, <2>1 DEF Idle
<1>11. ASSUME NEW d \in Episode, SamPublishes(r, w, d) \/ SamEnds(r, w, d) \/ RenderShows(r, w, d)
                                     \/ CollectReview(r, w, d)
       PROVE  UNCHANGED <<folder, identity, setupBroken, proc>>
  BY <1>11 DEF SamPublishes, SamEnds, RenderShows, CollectReview, historyVars
<1> QED
  BY <1>2, <1>3, <1>4, <1>5, <1>7, <1>8, <1>9, <1>10, <1>11 DEF Worked

LEMMA SetupDrives ==
    ASSUME BatchInv, SetupInOrder, DriverStep
    PROVE  SetupInOrder'
<1> USE DEF outputVars, resultVars, driverVars, workVars, historyVars, BatchInv
<1>1. UNCHANGED <<folder, identity>>
  BY DEF DriverStep, StartBatch, WriteSelection, SelectionFails, SaveFirst, Launch, RoundSave,
         AllDone, BatchFails, Unwind, Finish, DriverDies
<1>2. CASE WriteSelection
  <2>1. selection = None /\ \E f \in Shards(Jobs) :
            selection' = [jobs |-> Jobs, lists |-> Lists, shard |-> f]
    BY <1>2 DEF WriteSelection, Control, DriverInOrder
  <2>2. \A e \in selection'.jobs : e \in Episode
    BY <2>1 DEF Jobs, PlannedSet
  <2>3. \A e \in Episode : folder[e] = FALSE
    BY <2>1 DEF Control, NothingYet
  <2> QED  BY <1>1, <2>2, <2>3 DEF SetupInOrder
<1>3. CASE Launch
  <2>1. driver = "save" /\ start \in Start /\ selection # None /\ UNCHANGED <<selection, setupBroken>>
    BY <1>3 DEF Launch, Control, DriverInOrder
  <2>2. /\ \A v \in Worker : proc[start][v] = "none"
        /\ \A q \in Start, v \in Worker : q # start => proc'[q][v] = proc[q][v]
    BY <1>3, <2>1 DEF Launch, BatchTypeOK, Control, ProcsInOrder
  <2>3. \A e \in selection.jobs : selection.shard[e] \in Worker
    BY <2>1, SelectionTypes
  <2> QED  BY <1>1, <2>1, <2>2, <2>3 DEF SetupInOrder
<1>4. CASE SelectionFails
  BY <1>4 DEF SelectionFails, SetupInOrder
<1>5. CASE UNCHANGED <<selection, setupBroken, proc>>
  BY <1>1, <1>5 DEF SetupInOrder
<1>6. StartBatch \/ SaveFirst \/ RoundSave \/ AllDone \/ BatchFails \/ Unwind \/ Finish \/ DriverDies
          => UNCHANGED <<selection, setupBroken, proc>>
  BY DEF StartBatch, SaveFirst, RoundSave, AllDone, BatchFails, Unwind, Finish, DriverDies
<1> QED  BY <1>2, <1>3, <1>4, <1>5, <1>6 DEF DriverStep

LEMMA SetupNext == BatchInv /\ SetupInOrder /\ [Next]_vars => SetupInOrder'
<1> SUFFICES ASSUME BatchInv, SetupInOrder, [Next]_vars PROVE SetupInOrder'
  OBVIOUS
<1>1. CASE UNCHANGED <<outputVars, resultVars, driverVars, workVars, historyVars>>
  BY <1>1 DEF outputVars, resultVars, driverVars, workVars, historyVars, SetupInOrder
<1> QED
  BY <1>1, SetupWorks, SetupDrives, WorkerStepIsWork DEF Next, Prepares, vars

\* The same command goes on after any interrupt and any failure; it is refused
\* only for another preparation, or after a death between a directory and the
\* file that names its owner, or beside workers without a driver.
THEOREM StartsAreRefusedForAReason == Spec => RefusedForAReason
<1> DEFINE Reason == start' # start /\ refused' /\ ~setupBroken /\ ~orphaned =>
                         selection # None /\ (selection.jobs # Jobs \/ selection.lists # Lists)
<1>1. Init => SetupInOrder
  BY DEF Init, SetupInOrder
<1>2. BatchInv /\ SetupInOrder /\ [Next]_vars => [Reason]_vars
  <2> SUFFICES ASSUME BatchInv, SetupInOrder, [Next]_vars,
                      start' # start, refused', ~setupBroken, ~orphaned
               PROVE  selection # None /\ (selection.jobs # Jobs \/ selection.lists # Lists)
    OBVIOUS
  <2>1. StartBatch
    <3>1. \A r \in Start, w \in Worker : ~Worked(r, w)
      BY WorkFrame DEF driverVars
    <3>2. UNCHANGED start => FALSE
      OBVIOUS
    <3>3. DriverStep
      BY <3>1, WorkerStepIsWork DEF Next, Prepares, vars, driverVars
    <3> QED
      BY <3>3 DEF DriverStep, WriteSelection, SelectionFails, SaveFirst, Launch, RoundSave,
                  AllDone, BatchFails, Unwind, Finish, DriverDies
  <2>2. driver = "off" /\ Refusal
    BY <2>1 DEF StartBatch
  <2>3. \A r \in Start, w \in Worker : ~Alive(r, w)
    BY <2>2 DEF BatchInv, Control, ProcsInOrder
  <2>4. ~(selection = None /\ stateDir)
    BY DEF BatchInv, Control, NothingYet
  <2>5. CASE selection # None /\ ~SameSelection
    BY <2>5 DEF SameSelection
  <2>6. CASE selection # None /\ SameSelection /\ \E e \in Jobs : folder[e] /\ ~identity[e]
    <3>1. PICK e \in selection.jobs : folder[e] /\ ~identity[e]
      BY <2>6 DEF SameSelection
    <3>2. selection.shard[e] \in Worker
      BY <2>6, SelectionTypes DEF BatchInv
    <3>3. PICK r \in Start : proc[r][selection.shard[e]] = "identify"
      BY <2>6, <3>1 DEF SetupInOrder
    <3> QED  BY <2>3, <3>2, <3>3 DEF Alive, Idle
  <2> QED  BY <2>2, <2>4, <2>5, <2>6 DEF Refusal
<1>3. Spec => []BatchInv
  BY BatchAlways, PTL DEF BatchInv
<1> QED  BY <1>1, <1>2, <1>3, SetupNext, PTL DEF Spec, RefusedForAReason

=============================================================================
