----------------------------- MODULE UmiPrepare -----------------------------
(***************************************************************************)
(* The preparation of a UMI batch directory (umi_batch.py): the inventory  *)
(* is frozen, Qwen says which arm each clip shows, the selected clips are  *)
(* converted, and the conversions of one task and resolution are put       *)
(* together to a dataset.  Every phase may be killed and run again; what   *)
(* it finds in the directory it uses.  The plan, written last, is what the *)
(* drivers of the batch read.                                              *)
(***************************************************************************)
EXTENDS Integers, Sequences, FiniteSets

CONSTANTS
    Episodes,     \* the source ids, in the order of their episode_index
    Groups,       \* task and resolution, in order
    Answer,       \* what a selecting answer says; two differ
    MaxCommands,  \* bound of the model: preparation commands
    MaxFaults     \* bound of the model: kills, failures and changes of the source

Episode == {Episodes[i] : i \in DOMAIN Episodes}
Group == {Groups[i] : i \in DOMAIN Groups}

ASSUME PrepareAssumption ==
    /\ Episodes \in Seq(Episode)
    /\ \A i, j \in DOMAIN Episodes : Episodes[i] = Episodes[j] => i = j
    /\ Groups \in Seq(Group)
    /\ \A i, j \in DOMAIN Groups : Groups[i] = Groups[j] => i = j
    /\ MaxCommands \in Nat
    /\ MaxFaults \in Nat

VARIABLES
    groupOf,     \* [Episode -> the group its clip belongs to]
    source,      \* [Episode -> version of its recording]
    evidence,    \* [Episode -> version of its previews and of the model asked]
    inventory,   \* the frozen inventory, or None
    screening,   \* [Episode -> its screening record, or None]
    conversion,  \* [Episode -> its conversion, or None]
    numbered,    \* [Episode -> what its frames in the group follow, None, or Torn]
    manifest,    \* [Group -> the episodes its dataset lists]
    plan,        \* batch_plan.json, or None
    doing,       \* the phase under way
    todo,        \* its episodes still to do
    rows,        \* the records prepare_batch has collected
    commands,    \* commands given
    assemblies,  \* how often groups were put together
    overwritten, \* history: episodes whose "selected" a failed screening replaced
    faults       \* faults that have happened

batchDir == <<inventory, screening, conversion, numbered, manifest, plan>>
world == <<groupOf, source, evidence>>
prepareVars == <<world, batchDir, doing, todo, rows, commands, assemblies, overwritten, faults>>

None == [none |-> TRUE]
Torn == [torn |-> TRUE]

Inventory(s) == [source |-> s]
After(S) == [after |-> S]      \* frames numbered on from those of S

Version == Nat

\* Statuses of a record.  Exclusions, by the rules or by Qwen, and
\* needs_arm_review are all "set_aside": the drivers treat them alike, and a
\* clip the rules exclude is one that is set aside every time.
Screened(e, status, answer) == [status |-> status, answer |-> answer, evidence |-> evidence[e]]
ScreenFailed == [status |-> "screen_failed"]
Judgement == [status : {"selected"}, answer : Answer, evidence : Version]
                \cup [status : {"set_aside"}, answer : {"none"}, evidence : Version]
ScreenRecord == Judgement \cup {ScreenFailed}
Conversion == [selection : Judgement, source : Version]
RowStatus == {"none", "not_screened", "set_aside", "screen_failed",
              "prepared", "prepare_failed"}

TypeOK ==
    /\ groupOf \in [Episode -> Group]
    /\ source \in [Episode -> Version]
    /\ evidence \in [Episode -> Version]
    /\ inventory \in [source : [Episode -> Version]] \cup {None}
    /\ screening \in [Episode -> ScreenRecord \cup {None}]
    /\ conversion \in [Episode -> Conversion \cup {None}]
    /\ numbered \in [Episode -> [after : SUBSET Episode] \cup {None, Torn}]
    /\ manifest \in [Group -> SUBSET Episode]
    /\ plan \in [rows : [Episode -> RowStatus], made : Nat] \cup {None}
    /\ doing \in {"idle", "screen", "convert", "assemble"}
    /\ todo \subseteq Episode
    /\ rows \in [Episode -> RowStatus]
    /\ commands \in 0..MaxCommands
    /\ assemblies \in Nat
    /\ overwritten \subseteq Episode
    /\ faults \in 0..MaxFaults

PrepareInit ==
    /\ groupOf \in [Episode -> Group]
    /\ source = [e \in Episode |-> 0]
    /\ evidence = [e \in Episode |-> 0]
    /\ inventory = None
    /\ screening = [e \in Episode |-> None]
    /\ conversion = [e \in Episode |-> None]
    /\ numbered = [e \in Episode |-> None]
    /\ manifest = [g \in Group |-> {}]
    /\ plan = None
    /\ doing = "idle"
    /\ todo = {}
    /\ rows = [e \in Episode |-> "none"]
    /\ commands = 0
    /\ assemblies = 0
    /\ overwritten = {}
    /\ faults = 0

MayFault == faults < MaxFaults

-----------------------------------------------------------------------------
(* The sources *)

\* A recording is replaced, after the inventory was made or before.
SourceChanges(e) ==
    /\ MayFault
    /\ faults' = faults + 1
    /\ source' = [source EXCEPT ![e] = @ + 1]
    /\ UNCHANGED <<groupOf, evidence, batchDir, doing, todo, rows, commands, assemblies, overwritten>>

\* Its previews change, or another model or endpoint is asked.
EvidenceChanges(e) ==
    /\ MayFault
    /\ doing # "screen"
    /\ faults' = faults + 1
    /\ evidence' = [evidence EXCEPT ![e] = @ + 1]
    /\ UNCHANGED <<groupOf, source, batchDir, doing, todo, rows, commands, assemblies, overwritten>>

-----------------------------------------------------------------------------
(* initialize_batch, at the start of every command *)

\* A change of the inputs or of the rules since the first command refuses it.
InitializeBatch ==
    /\ doing = "idle"
    /\ commands < MaxCommands
    /\ commands' = commands + 1
    /\ inventory \in {None, Inventory(source)}
    /\ inventory' = Inventory(source)

-----------------------------------------------------------------------------
(* screen_batch *)

\* The first episodes of each action, with --limit-per-action, or all.
StartScreening ==
    /\ InitializeBatch
    /\ doing' = "screen"
    /\ \E n \in DOMAIN Episodes : todo' = {Episodes[i] : i \in 1..n}
    /\ UNCHANGED <<world, screening, conversion, numbered, manifest, plan, rows, assemblies,
                   overwritten, faults>>

\* Slip: every command asks again.
ReusableNever(e) == FALSE

\* A saved judgement holds for the evidence it was made from.
Reusable(e) ==
    /\ screening[e] \in Judgement
    /\ screening[e].evidence = evidence[e]

\* One thread per episode, each with a file of its own, written in one rename.
Review(e) ==
    /\ doing = "screen"
    /\ e \in todo
    /\ todo' = todo \ {e}
    /\ UNCHANGED <<world, inventory, conversion, numbered, manifest, plan, doing, rows, commands,
                   assemblies>>

ReuseJudgement(e) ==
    /\ Review(e)
    /\ Reusable(e)
    /\ UNCHANGED <<screening, overwritten, faults>>

AskArm(e) ==
    /\ Review(e)
    /\ ~Reusable(e)
    /\ \/ \E a \in Answer : screening' = [screening EXCEPT ![e] = Screened(e, "selected", a)]
       \/ screening' = [screening EXCEPT ![e] = Screened(e, "set_aside", "none")]
    /\ UNCHANGED <<overwritten, faults>>

\* The previews cannot be read (whatever was saved), or Qwen does not answer.
ScreenFails(e) ==
    /\ Review(e)
    /\ MayFault
    /\ faults' = faults + 1
    /\ screening' = [screening EXCEPT ![e] = ScreenFailed]
    /\ overwritten' = IF screening[e] \in Judgement THEN overwritten \cup {e} ELSE overwritten

ScreeningEnds ==
    /\ doing = "screen"
    /\ todo = {}
    /\ doing' = "idle"
    /\ UNCHANGED <<world, batchDir, todo, rows, commands, assemblies, overwritten, faults>>

-----------------------------------------------------------------------------
(* prepare_batch *)

Selected(e) == screening[e] \in Judgement /\ screening[e].status = "selected"

\* All records are read first; what was not selected keeps its status.
StartPreparing ==
    /\ InitializeBatch
    /\ doing' = "convert"
    /\ todo' = {e \in Episode : Selected(e)}
    /\ rows' = [e \in Episode |-> IF screening[e] = None THEN "not_screened"
                                  ELSE IF Selected(e) THEN "none"
                                  ELSE screening[e].status]
    /\ UNCHANGED <<world, screening, conversion, numbered, manifest, plan, assemblies,
                   overwritten, faults>>

Convert(e) ==
    /\ doing = "convert"
    /\ e \in todo
    /\ todo' = todo \ {e}
    /\ UNCHANGED <<world, inventory, screening, numbered, manifest, plan, doing, commands,
                   assemblies, overwritten>>

\* The recording is not the one of the inventory, or it was converted from
\* another judgement.
RefuseConversion(e) ==
    /\ Convert(e)
    /\ \/ source[e] # inventory.source[e]
       \/ conversion[e] # None /\ conversion[e].selection # screening[e]
    /\ rows' = [rows EXCEPT ![e] = "prepare_failed"]
    /\ UNCHANGED <<conversion, faults>>

ReuseConversion(e) ==
    /\ Convert(e)
    /\ source[e] = inventory.source[e]
    /\ conversion[e] # None
    /\ conversion[e].selection = screening[e]
    /\ rows' = [rows EXCEPT ![e] = "prepared"]
    /\ UNCHANGED <<conversion, faults>>

\* Made in a directory beside it and renamed, or removed again.
MakeConversion(e) ==
    /\ Convert(e)
    /\ source[e] = inventory.source[e]
    /\ conversion[e] = None
    /\ \/ /\ conversion' = [conversion EXCEPT ![e] = [selection |-> screening[e],
                                                      source |-> source[e]]]
          /\ rows' = [rows EXCEPT ![e] = "prepared"]
          /\ UNCHANGED faults
       \/ /\ MayFault
          /\ faults' = faults + 1
          /\ rows' = [rows EXCEPT ![e] = "prepare_failed"]
          /\ UNCHANGED conversion

Prepared == {e \in Episode : rows[e] = "prepared"}

\* Slip: the plan is written before its groups are there.
PlanFirst ==
    /\ doing = "convert"
    /\ todo = {}
    /\ doing' = "assemble"
    /\ todo' = Prepared
    /\ assemblies' = assemblies + 1
    /\ plan' = [rows |-> rows, made |-> assemblies + 1]
    /\ UNCHANGED <<world, inventory, screening, conversion, numbered, manifest, rows, commands,
                   overwritten, faults>>

StartAssembly ==
    /\ doing = "convert"
    /\ todo = {}
    /\ doing' = "assemble"
    /\ todo' = Prepared
    /\ assemblies' = assemblies + 1
    /\ UNCHANGED <<world, batchDir, rows, commands, overwritten, faults>>

-----------------------------------------------------------------------------
(* _assemble_group, one group after another *)

Index(e) == CHOOSE i \in DOMAIN Episodes : Episodes[i] = e
GroupIndex(g) == CHOOSE i \in DOMAIN Groups : Groups[i] = g

\* Before e in the assembly: an earlier group, or earlier in its own.
Earlier(d, e) ==
    \/ GroupIndex(groupOf[d]) < GroupIndex(groupOf[e])
    \/ groupOf[d] = groupOf[e] /\ Index(d) < Index(e)

Members(g, prepared) == {e \in prepared : groupOf[e] = g}
Before(e, prepared) == {d \in Members(groupOf[e], prepared) : Index(d) < Index(e)}

\* The files of the last member are in place: the lists are written.
ListGroup(e) ==
    IF \E d \in todo \ {e} : groupOf[d] = groupOf[e]
    THEN manifest
    ELSE [manifest EXCEPT ![groupOf[e]] = Members(groupOf[e], Prepared)]

\* Links, then the frames, numbered on from the member before; after the last
\* one the manifest of the group.
NumberFrames(e) ==
    /\ doing = "assemble"
    /\ e \in todo
    /\ \A d \in todo \ {e} : Earlier(e, d)
    /\ todo' = todo \ {e}
    /\ numbered' = [numbered EXCEPT ![e] = After(Before(e, Prepared))]
    /\ manifest' = ListGroup(e)
    /\ UNCHANGED <<world, inventory, screening, conversion, plan, doing, rows, commands,
                   assemblies, overwritten, faults>>

\* batch_plan.json comes last.
WritePlan ==
    /\ doing = "assemble"
    /\ todo = {}
    /\ doing' = "idle"
    /\ plan' = [rows |-> rows, made |-> assemblies]
    /\ UNCHANGED <<world, inventory, screening, conversion, numbered, manifest, todo, rows,
                   commands, assemblies, overwritten, faults>>

\* Killed, or an exception that no one isolates.  Parquet is written in place:
\* a kill may leave half of it.
PreparationDies ==
    /\ doing # "idle"
    /\ MayFault
    /\ faults' = faults + 1
    /\ doing' = "idle"
    /\ todo' = {}
    /\ \/ UNCHANGED <<numbered, manifest>>
       \/ /\ doing = "assemble"
          /\ \E e \in todo :
                /\ \A d \in todo \ {e} : Earlier(e, d)
                /\ \/ numbered' = [numbered EXCEPT ![e] = Torn]
                   \/ numbered' = [numbered EXCEPT ![e] = After(Before(e, Prepared))]
          /\ UNCHANGED manifest
    /\ UNCHANGED <<world, inventory, screening, conversion, plan, rows, commands, assemblies,
                   overwritten>>

-----------------------------------------------------------------------------
ScreenStep ==
    \/ StartScreening \/ ScreeningEnds
    \/ \E e \in Episode : ReuseJudgement(e) \/ AskArm(e) \/ ScreenFails(e)

PrepareStep ==
    \/ StartPreparing \/ StartAssembly \/ WritePlan
    \/ \E e \in Episode : RefuseConversion(e) \/ ReuseConversion(e) \/ MakeConversion(e)
                              \/ NumberFrames(e)

PrepareNext ==
    \/ ScreenStep \/ PrepareStep \/ PreparationDies
    \/ \E e \in Episode : SourceChanges(e) \/ EvidenceChanges(e)

PrepareSpec == PrepareInit /\ [][PrepareNext]_prepareVars

-----------------------------------------------------------------------------
\* What a group of the plan should hold.
Planned(e) == plan # None /\ plan.rows[e] = "prepared"
PlannedSet == {e \in Episode : Planned(e)}

\* "Screening reuses judgements for the same inputs and model, conversion
\* reuses what it finished" (docs/umi_batch.md): a conversion once made is
\* given up only for a new recording, for other evidence, or because a
\* screening that failed meanwhile had replaced the judgement it was made from,
\* which is a way to lose it although nothing has changed.
ConversionKept ==
    \A e \in Episode :
        rows[e] = "prepare_failed" /\ conversion[e] # None =>
            \/ source[e] # conversion[e].source
            \/ evidence[e] # conversion[e].selection.evidence
            \/ e \in overwritten

\* The drivers trust the plan: what it calls prepared was converted from the
\* recording of the inventory and from one selecting judgement, and unless a
\* later assembly was begun, its group lists exactly the planned episodes and
\* numbers their frames without a gap.
PlanIsBacked ==
    \A e \in PlannedSet :
        /\ conversion[e] # None
        /\ conversion[e].selection.status = "selected"
        /\ conversion[e].source = inventory.source[e]
        /\ plan.made = assemblies =>
              /\ manifest[groupOf[e]] = Members(groupOf[e], PlannedSet)
              /\ numbered[e] = After(Before(e, PlannedSet))

=============================================================================
