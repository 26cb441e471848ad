------------------------------ MODULE SamPool -------------------------------
(***************************************************************************)
(* The SAM worker pool: run_parallel_sam_episodes, the coordinator, and    *)
(* sam_worker_process_entry, one process per GPU, which talk over a pair   *)
(* of pipes per worker.  The coordinator is a single thread that looks at  *)
(* the workers in rounds; each thing it may do in a round is an action     *)
(* here.  Time is not counted: a phase may always have lasted too long.    *)
(***************************************************************************)
EXTENDS Integers, Sequences

CONSTANTS
    Worker,               \* one worker per configured GPU
    EpisodeIds,           \* the selected episodes, in order
    MaxEpisodeAttempts,   \* executions of one episode
    MaxStartupAttempts,   \* consecutive failed starts before retirement
    MaxIdleRestarts       \* exits while idle that are forgiven

Episode == {EpisodeIds[i] : i \in DOMAIN EpisodeIds}

ASSUME PoolAssumption ==
    /\ Worker # {}
    /\ EpisodeIds \in Seq(Episode)
    /\ EpisodeIds # << >>
    /\ \A i, j \in DOMAIN EpisodeIds : EpisodeIds[i] = EpisodeIds[j] => i = j
    /\ MaxEpisodeAttempts \in Nat \ {0}
    /\ MaxStartupAttempts \in Nat \ {0}
    /\ MaxIdleRestarts \in Nat

VARIABLES
    pool,              \* what the coordinator is doing
    pending,           \* commands not dispatched, next one first
    outcomes,          \* [Episode -> its final outcome or NoOutcome]
    phase,             \* [Worker -> phase of its _WorkerState]
    inflight,          \* [Worker -> the dispatched command or NoCommand]
    startupFailures,
    idleRestarts,
    proc,              \* [Worker -> where its current process is]
    task,              \* [Worker -> the command that process is executing]
    toWorker,          \* [Worker -> commands in the pipe]
    toPool             \* [Worker -> responses in the pipe]

coordVars == <<pool, pending, outcomes, phase, inflight,
               startupFailures, idleRestarts>>
procVars == <<proc, task, toWorker, toPool>>
vars == <<coordVars, procVars>>

Command == [episode : Episode, attempt : 1..MaxEpisodeAttempts]
NoCommand == [episode |-> {}, attempt |-> 0]
Shutdown == [episode |-> {}, attempt |-> -1]

Result == {"completed", "failed"}
Outcome == [status : Result \cup {"not_run"}, attempt : 1..MaxEpisodeAttempts]
NoOutcome == [status |-> "none", attempt |-> 0]

\* SamWorkerReady, SamWorkerOutcome and SamWorkerFailure, as the coordinator
\* tells them apart.
Response == [kind : {"ready", "outcome", "failure"},
             command : Command \cup {NoCommand},
             status : Result,
             fatal : BOOLEAN]
Ready == [kind |-> "ready", command |-> NoCommand,
          status |-> "completed", fatal |-> FALSE]
Report(c, s, f) == [kind |-> "outcome", command |-> c, status |-> s, fatal |-> f]
Failure(c, f) == [kind |-> "failure", command |-> c, status |-> "failed", fatal |-> f]

TypeOK ==
    /\ pool \in {"launching", "running", "returning", "raising",
                 "returned", "raised", "crashed"}
    /\ pending \in Seq(Command)
    /\ outcomes \in [Episode -> Outcome \cup {NoOutcome}]
    /\ phase \in [Worker -> {"absent", "starting", "idle", "busy", "retired"}]
    /\ inflight \in [Worker -> Command \cup {NoCommand}]
    /\ startupFailures \in [Worker -> 0..MaxStartupAttempts]
    /\ idleRestarts \in [Worker -> 0..(MaxIdleRestarts + 1)]
    /\ proc \in [Worker -> {"none", "loading", "waiting", "running", "exiting", "dead"}]
    /\ task \in [Worker -> Command \cup {NoCommand}]
    /\ toWorker \in [Worker -> Seq(Command \cup {Shutdown})]
    /\ toPool \in [Worker -> Seq(Response)]

Init ==
    /\ pool = "launching"
    /\ pending = [i \in DOMAIN EpisodeIds |-> [episode |-> EpisodeIds[i], attempt |-> 1]]
    /\ outcomes = [e \in Episode |-> NoOutcome]
    /\ phase = [w \in Worker |-> "absent"]
    /\ inflight = [w \in Worker |-> NoCommand]
    /\ startupFailures = [w \in Worker |-> 0]
    /\ idleRestarts = [w \in Worker |-> 0]
    /\ proc = [w \in Worker |-> "none"]
    /\ task = [w \in Worker |-> NoCommand]
    /\ toWorker = [w \in Worker |-> << >>]
    /\ toPool = [w \in Worker |-> << >>]

Settled(e) == outcomes[e] # NoOutcome
AllSettled == \A e \in Episode : Settled(e)
Alive(w) == proc[w] \notin {"none", "dead"}
PipesOpen == pool \notin {"returned", "raised", "crashed"}

-----------------------------------------------------------------------------
(* The worker process of w *)

\* Responding on a pipe whose other end is gone raises instead: the process
\* leaves its loop whatever it was about to do next.
Respond(w, response, next) ==
    /\ toPool' = IF PipesOpen THEN [toPool EXCEPT ![w] = Append(@, response)] ELSE toPool
    /\ proc' = [proc EXCEPT ![w] = IF PipesOpen THEN next ELSE "exiting"]
    /\ task' = [task EXCEPT ![w] = NoCommand]
    /\ UNCHANGED <<coordVars, toWorker>>

BackendLoaded(w) ==
    /\ proc[w] = "loading"
    /\ Respond(w, Ready, "waiting")

BackendFails(w) ==
    /\ proc[w] = "loading"
    /\ \E fatal \in BOOLEAN : Respond(w, Failure(NoCommand, fatal), "exiting")

TakeCommand(w) ==
    /\ proc[w] = "waiting"
    /\ toWorker[w] # << >>
    /\ toWorker' = [toWorker EXCEPT ![w] = Tail(@)]
    /\ IF Head(toWorker[w]) = Shutdown
       THEN /\ proc' = [proc EXCEPT ![w] = "exiting"]
            /\ UNCHANGED task
       ELSE /\ proc' = [proc EXCEPT ![w] = "running"]
            /\ task' = [task EXCEPT ![w] = Head(toWorker[w])]
    /\ UNCHANGED <<coordVars, toPool>>

\* Slip: some other process still holds the far end, as fork would leave it.
CoordinatorNeverGone(w) ==
    /\ proc[w] = "waiting"
    /\ toWorker[w] = << >>
    /\ UNCHANGED vars

\* EOFError: the coordinator is gone and the pipe is drained.
CoordinatorGone(w) ==
    /\ proc[w] = "waiting"
    /\ toWorker[w] = << >>
    /\ ~PipesOpen
    /\ proc' = [proc EXCEPT ![w] = "exiting"]
    /\ UNCHANGED <<coordVars, task, toWorker, toPool>>

\* Only a failed result can be fatal to the GPU's CUDA context.
FinishEpisode(w) ==
    /\ proc[w] = "running"
    /\ \E s \in Result, fatal \in BOOLEAN :
          /\ fatal => s = "failed"
          /\ Respond(w, Report(task[w], s, fatal), IF fatal THEN "exiting" ELSE "waiting")

EpisodeRaises(w) ==
    /\ proc[w] = "running"
    /\ \E fatal \in BOOLEAN : Respond(w, Failure(task[w], fatal), "exiting")

ProcessEnds(w) ==
    /\ proc[w] = "exiting"
    /\ proc' = [proc EXCEPT ![w] = "dead"]
    /\ UNCHANGED <<coordVars, task, toWorker, toPool>>

\* Killed from outside (out of memory, driver fault): nothing is sent.
ProcessDies(w) ==
    /\ Alive(w)
    /\ proc' = [proc EXCEPT ![w] = "dead"]
    /\ task' = [task EXCEPT ![w] = NoCommand]
    /\ UNCHANGED <<coordVars, toWorker, toPool>>

-----------------------------------------------------------------------------
(* The coordinator *)

\* A fresh process on fresh pipes; what the old pipes held is lost.
StartProcess(w) ==
    /\ proc' = [proc EXCEPT ![w] = "loading"]
    /\ task' = [task EXCEPT ![w] = NoCommand]
    /\ toWorker' = [toWorker EXCEPT ![w] = << >>]
    /\ toPool' = [toPool EXCEPT ![w] = << >>]

Launch(w) ==
    /\ pool = "launching"
    /\ phase[w] = "absent"
    /\ phase' = [phase EXCEPT ![w] = "starting"]
    /\ pool' = IF \A v \in Worker : phase'[v] # "absent" THEN "running" ELSE pool
    /\ StartProcess(w)
    /\ UNCHANGED <<pending, outcomes, inflight, startupFailures, idleRestarts>>

\* The first loop of _stop_workers.
SendShutdown ==
    toWorker' = [w \in Worker |-> IF Alive(w) THEN Append(toWorker[w], Shutdown)
                                              ELSE toWorker[w]]

\* An exception leaves the try block: process.start fails, the outcome
\* callback raises, or the run is interrupted.
Interrupt ==
    /\ pool \in {"launching", "running"}
    /\ pool' = "raising"
    /\ SendShutdown
    /\ UNCHANGED <<pending, outcomes, phase, inflight, startupFailures,
                   idleRestarts, proc, task, toPool>>

Dispatch(w) ==
    /\ pool = "running"
    /\ phase[w] = "idle"
    /\ pending # << >>
    /\ Alive(w)
    /\ toWorker' = [toWorker EXCEPT ![w] = Append(@, Head(pending))]
    /\ pending' = Tail(pending)
    /\ inflight' = [inflight EXCEPT ![w] = Head(pending)]
    /\ phase' = [phase EXCEPT ![w] = "busy"]
    /\ UNCHANGED <<pool, outcomes, startupFailures, idleRestarts, proc, task, toPool>>

\* Slip: the retry keeps the number of the attempt that was lost.
TakeBackSameAttempt(w, fatal) ==
    LET lost == inflight[w]
        retried == lost # NoCommand /\ ~fatal /\ lost.attempt < MaxEpisodeAttempts
    IN /\ inflight' = [inflight EXCEPT ![w] = NoCommand]
       /\ pending' = IF retried THEN <<lost>> \o pending ELSE pending
       /\ outcomes' = IF lost # NoCommand /\ ~retried
                      THEN [outcomes EXCEPT ![lost.episode] =
                               [status |-> "failed", attempt |-> lost.attempt]]
                      ELSE outcomes

\* Slip: an episode lost to a fatal error is settled and queued again.
TakeBackAndSettle(w, fatal) ==
    LET lost == inflight[w]
    IN /\ inflight' = [inflight EXCEPT ![w] = NoCommand]
       /\ pending' = IF lost # NoCommand /\ lost.attempt < MaxEpisodeAttempts
                     THEN <<[episode |-> lost.episode, attempt |-> lost.attempt + 1]>> \o pending
                     ELSE pending
       /\ outcomes' = IF lost # NoCommand /\ (fatal \/ lost.attempt = MaxEpisodeAttempts)
                      THEN [outcomes EXCEPT ![lost.episode] =
                               [status |-> "failed", attempt |-> lost.attempt]]
                      ELSE outcomes

\* handle_failure up to its decision to relaunch: the worker is retired and
\* its episode is put back in front, or settled when no attempt is left.
TakeBack(w, fatal) ==
    LET lost == inflight[w]
        retried == lost # NoCommand /\ ~fatal /\ lost.attempt < MaxEpisodeAttempts
    IN /\ inflight' = [inflight EXCEPT ![w] = NoCommand]
       /\ pending' = IF retried
                     THEN <<[episode |-> lost.episode, attempt |-> lost.attempt + 1]>> \o pending
                     ELSE pending
       /\ outcomes' = IF lost # NoCommand /\ ~retried
                      THEN [outcomes EXCEPT ![lost.episode] =
                               [status |-> "failed", attempt |-> lost.attempt]]
                      ELSE outcomes

CountFailure(w, fatal) ==
    /\ startupFailures' = [startupFailures EXCEPT ![w] =
                              IF phase[w] = "starting" /\ ~fatal THEN @ + 1 ELSE @]
    /\ idleRestarts' = [idleRestarts EXCEPT ![w] =
                              IF phase[w] = "idle" /\ ~fatal THEN @ + 1 ELSE @]

\* Slip: no replacement, and so no kill, while the queue is empty.
MayRelaunchForQueue(w, fatal) ==
    /\ ~fatal
    /\ phase[w] = "starting" => startupFailures[w] + 1 < MaxStartupAttempts
    /\ phase[w] = "idle" => idleRestarts[w] + 1 <= MaxIdleRestarts
    /\ pending' # << >>

MayRelaunch(w, fatal) ==
    /\ ~fatal
    /\ phase[w] = "starting" => startupFailures[w] + 1 < MaxStartupAttempts
    /\ phase[w] = "idle" => idleRestarts[w] + 1 <= MaxIdleRestarts
    /\ \E e \in Episode : outcomes'[e] = NoOutcome

\* Slip: the new process is given the old connection.
RelaunchedOnOldPipe(w) ==
    /\ phase' = [phase EXCEPT ![w] = "starting"]
    /\ proc' = [proc EXCEPT ![w] = "loading"]
    /\ task' = [task EXCEPT ![w] = NoCommand]
    /\ UNCHANGED <<toWorker, toPool>>

\* The old process is joined, terminated or killed before the new one starts.
Relaunched(w) ==
    /\ phase' = [phase EXCEPT ![w] = "starting"]
    /\ StartProcess(w)

\* Slip: the slot is given up before the old process is stopped.
NotRelaunchedNorKilled(w) ==
    /\ phase' = [phase EXCEPT ![w] = "retired"]
    /\ UNCHANGED <<proc, task>>

\* The old process is gone and its connection closed, but no new one starts.
NotRelaunched(w) ==
    /\ phase' = [phase EXCEPT ![w] = "retired"]
    /\ proc' = [proc EXCEPT ![w] = "dead"]
    /\ task' = [task EXCEPT ![w] = NoCommand]

\* handle_failure for a worker that exited or ran out of time.
LoseWorker(w) ==
    /\ TakeBack(w, FALSE)
    /\ CountFailure(w, FALSE)
    /\ \/ MayRelaunch(w, FALSE) /\ Relaunched(w)
       \/ MayRelaunch(w, FALSE) /\ NotRelaunched(w) /\ UNCHANGED <<toWorker, toPool>>
       \/ /\ ~MayRelaunch(w, FALSE)
          /\ phase' = [phase EXCEPT ![w] = "retired"]
          /\ UNCHANGED procVars
    /\ UNCHANGED pool

\* A live connection has something to read, or its process has ended.
Watched(w) ==
    /\ pool = "running"
    /\ phase[w] \notin {"absent", "retired"}

ReceiveReady(w) ==
    /\ Watched(w)
    /\ toPool[w] # << >>
    /\ Head(toPool[w]).kind = "ready"
    /\ phase[w] = "starting"
    /\ phase' = [phase EXCEPT ![w] = "idle"]
    /\ startupFailures' = [startupFailures EXCEPT ![w] = 0]
    /\ toPool' = [toPool EXCEPT ![w] = Tail(@)]
    /\ UNCHANGED <<pool, pending, outcomes, inflight, idleRestarts, proc, task, toWorker>>

ReceiveOutcome(w) ==
    LET m == Head(toPool[w])
    IN /\ Watched(w)
       /\ toPool[w] # << >>
       /\ m.kind = "outcome"
       /\ phase[w] = "busy"
       /\ inflight[w] = m.command
       /\ ~Settled(m.command.episode)
       /\ inflight' = [inflight EXCEPT ![w] = NoCommand]
       /\ phase' = [phase EXCEPT ![w] = IF m.fatal THEN "retired" ELSE "idle"]
       /\ outcomes' = [outcomes EXCEPT ![m.command.episode] =
                          [status |-> m.status, attempt |-> m.command.attempt]]
       /\ toPool' = [toPool EXCEPT ![w] = Tail(@)]
       /\ UNCHANGED <<pool, pending, startupFailures, idleRestarts, proc, task, toWorker>>

\* A worker's own failure message.  When the relaunch that follows cannot
\* start a process, receive_available polls the connection that
\* _close_failed_transport has just closed, and the OSError ends the run.
ReceiveFailure(w) ==
    LET m == Head(toPool[w])
    IN /\ Watched(w)
       /\ toPool[w] # << >>
       /\ m.kind = "failure"
       /\ inflight[w] = m.command
       /\ TakeBack(w, m.fatal)
       /\ CountFailure(w, m.fatal)
       /\ \/ MayRelaunch(w, m.fatal) /\ Relaunched(w) /\ UNCHANGED pool
          \/ /\ MayRelaunch(w, m.fatal)
             /\ NotRelaunched(w)
             /\ pool' = "raising"
             /\ SendShutdown
             /\ UNCHANGED toPool
          \/ /\ ~MayRelaunch(w, m.fatal)
             /\ phase' = [phase EXCEPT ![w] = "retired"]
             /\ toPool' = [toPool EXCEPT ![w] = Tail(@)]
             /\ UNCHANGED <<pool, proc, task, toWorker>>

\* The process has ended and everything it sent has been read.
NoticeExit(w) ==
    /\ Watched(w)
    /\ proc[w] = "dead"
    /\ toPool[w] = << >>
    /\ LoseWorker(w)

\* The startup or episode limit has passed; an answer may be in the pipe,
\* sent after the last poll.
Timeout(w) ==
    /\ Watched(w)
    /\ phase[w] \in {"starting", "busy"}
    /\ LoseWorker(w)

NoHealthyWorker == \A w \in Worker : phase[w] = "retired"

\* Slip: a pool that is only restarting counts as unhealthy.
GiveUpWhileStarting ==
    /\ pool = "running"
    /\ pending # << >>
    /\ \A w \in Worker : phase[w] \in {"starting", "retired"}
    /\ outcomes' = [outcomes EXCEPT ![Head(pending).episode] =
                       [status |-> "not_run", attempt |-> Head(pending).attempt]]
    /\ pending' = Tail(pending)
    /\ UNCHANGED <<pool, phase, inflight, startupFailures, idleRestarts, procVars>>

\* One pass of the loop that drains the queue of an unhealthy pool.
GiveUp ==
    /\ pool = "running"
    /\ pending # << >>
    /\ NoHealthyWorker
    /\ outcomes' = [outcomes EXCEPT ![Head(pending).episode] =
                       [status |-> "not_run", attempt |-> Head(pending).attempt]]
    /\ pending' = Tail(pending)
    /\ UNCHANGED <<pool, phase, inflight, startupFailures, idleRestarts, procVars>>

Finish ==
    /\ pool = "running"
    /\ AllSettled
    /\ pool' = "returning"
    /\ SendShutdown
    /\ UNCHANGED <<pending, outcomes, phase, inflight, startupFailures,
                   idleRestarts, proc, task, toPool>>

\* The rest of _stop_workers: what has not exited is terminated or killed.
StopWorkers ==
    /\ pool \in {"returning", "raising"}
    /\ pool' = IF pool = "returning" THEN "returned" ELSE "raised"
    /\ proc' = [w \in Worker |-> IF Alive(w) THEN "dead" ELSE proc[w]]
    /\ task' = [w \in Worker |-> NoCommand]
    /\ UNCHANGED <<pending, outcomes, phase, inflight, startupFailures,
                   idleRestarts, toWorker, toPool>>

\* The coordinating process is killed: its pipe ends close, nothing else runs.
CoordinatorDies ==
    /\ PipesOpen
    /\ pool' = "crashed"
    /\ UNCHANGED <<pending, outcomes, phase, inflight, startupFailures,
                   idleRestarts, procVars>>

-----------------------------------------------------------------------------
WorkerStep(w) ==
    \/ BackendLoaded(w) \/ BackendFails(w) \/ TakeCommand(w) \/ CoordinatorGone(w)
    \/ FinishEpisode(w) \/ EpisodeRaises(w) \/ ProcessEnds(w)

CoordinatorStep ==
    \/ \E w \in Worker :
          \/ Launch(w) \/ Dispatch(w)
          \/ ReceiveReady(w) \/ ReceiveOutcome(w) \/ ReceiveFailure(w)
          \/ NoticeExit(w) \/ Timeout(w)
    \/ GiveUp \/ Finish \/ StopWorkers

Next ==
    \/ CoordinatorStep
    \/ Interrupt
    \/ CoordinatorDies
    \/ \E w \in Worker : WorkerStep(w) \/ ProcessDies(w)

Spec == Init /\ [][Next]_vars

\* The coordinator's loop keeps running: wait() has a time limit and both
\* phases that wait for a worker have one.  Nothing is asked of the workers
\* while it does; once it is gone, what is left of them runs on.
FairSpec ==
    /\ Spec
    /\ WF_vars(CoordinatorStep)
    /\ \A w \in Worker : WF_vars(pool = "crashed" /\ WorkerStep(w))

-----------------------------------------------------------------------------
Queued(e) == \E i \in DOMAIN pending : pending[i].episode = e
InFlight(e) == \E w \in Worker : inflight[w] # NoCommand /\ inflight[w].episode = e

\* No failure, retry or timeout loses or doubles an episode: at every moment it
\* is in the queue once, or dispatched to one worker, or settled, never two of
\* these (pending, inflight and outcomes of run_parallel_sam_episodes).
EpisodeConserved ==
    /\ \A i, j \in DOMAIN pending : pending[i].episode = pending[j].episode => i = j
    /\ \A v, w \in Worker :
          /\ inflight[v] # NoCommand
          /\ inflight[w] # NoCommand
          /\ inflight[v].episode = inflight[w].episode
          => v = w
    /\ \A e \in Episode :
          /\ Queued(e) \/ InFlight(e) \/ Settled(e)
          /\ ~(Queued(e) /\ InFlight(e))
          /\ ~(Queued(e) /\ Settled(e))
          /\ ~(InFlight(e) /\ Settled(e))

\* Two processes never work on one episode, whose artifacts they would
\* overwrite: the timed-out process is gone before its episode is retried.
ExclusiveEpisode ==
    \A v, w \in Worker :
        /\ proc[v] = "running"
        /\ proc[w] = "running"
        /\ task[v].episode = task[w].episode
        => v = w

\* Work on an episode that already has its outcome can only be the very last
\* execution of the batch, about to be stopped.
NoWorkOnSettledEpisode ==
    \A w \in Worker :
        proc[w] = "running" /\ Settled(task[w].episode) => AllSettled

\* None of the coordinator's "unexpected message" errors can be raised: what a
\* watched worker sent fits its phase and its dispatched command.
MessagesExpected ==
    \A w \in Worker :
        phase[w] \notin {"absent", "retired"} /\ toPool[w] # << >> =>
            LET m == Head(toPool[w])
            IN /\ m.kind = "ready" => phase[w] = "starting"
               /\ m.kind = "outcome" => phase[w] = "busy" /\ inflight[w] = m.command
               /\ m.kind = "failure" => phase[w] # "idle" /\ inflight[w] = m.command

\* An episode is given up without running only when no worker is left, and a
\* worker that is left never sees the queue emptied under it.
NotRunOnlyWithoutWorkers ==
    (\E e \in Episode : outcomes[e].status = "not_run") => NoHealthyWorker

\* Losing a worker costs the batch that worker only (the promise of
\* test_relaunch_start_failure_retires_only_failed_gpu): the step that retires
\* it does not end the run.
LostWorkerIsContained ==
    [][(\E w \in Worker : phase[w] # "retired" /\ phase'[w] = "retired")
          => pool' = "running"]_vars

\* Whatever the workers do (hang, exit, keep failing to start), the
\* coordinator comes back: every retry and relaunch is paid from a budget.
Terminates == <>(pool \in {"returned", "raised", "crashed"})

\* Workers that outlive a killed coordinator do not stay on their GPUs: the
\* closed pipe ends them.
OrphansExit == \A w \in Worker : pool = "crashed" ~> ~Alive(w)

-----------------------------------------------------------------------------
\* The batch a caller sees.
episodeStage ==
    [e \in Episode |-> IF Settled(e) THEN "done"
                       ELSE IF InFlight(e) THEN "running" ELSE "waiting"]

\* A queued command holds the number of its next attempt, and an episode that
\* was not run keeps that number in its outcome.
Started(o) == IF o.status = "not_run" THEN o.attempt - 1 ELSE o.attempt
Bearer(e) == CHOOSE w \in Worker : inflight[w] # NoCommand /\ inflight[w].episode = e
Place(e) == CHOOSE i \in DOMAIN pending : pending[i].episode = e

episodeTries ==
    [e \in Episode |-> IF Settled(e) THEN Started(outcomes[e])
                       ELSE IF InFlight(e) THEN inflight[Bearer(e)].attempt
                       ELSE pending[Place(e)].attempt - 1]

batchState == IF pool = "returned" THEN "complete"
              ELSE IF pool = "raised" THEN "aborted" ELSE "open"

Batch == INSTANCE EpisodeBatch WITH
            MaxAttempts <- MaxEpisodeAttempts,
            stage <- episodeStage,
            tries <- episodeTries,
            batch <- batchState

\* The pool implements the batch every caller of it relies on.
ImplementsBatch == Batch!Spec

=============================================================================
