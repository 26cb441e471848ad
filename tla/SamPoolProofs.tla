--------------------------- MODULE SamPoolProofs ----------------------------
(***************************************************************************)
(* Proofs about the SAM worker pool, for any set of workers, any list of   *)
(* distinct episodes and any retry budgets.                                *)
(***************************************************************************)
EXTENDS SamPool, SequenceTheorems, TLAPS

-----------------------------------------------------------------------------
(* Sequences: what becomes of the members when the queue moves *)

\* A retried command is put in front; the others move one place.
LEMMA PrependFacts ==
    ASSUME NEW S, NEW s \in Seq(S), NEW x \in S
    PROVE  /\ <<x>> \o s \in Seq(S)
           /\ DOMAIN (<<x>> \o s) = 1..(Len(s) + 1)
           /\ (<<x>> \o s)[1] = x
           /\ \A i \in 2..(Len(s) + 1) : i - 1 \in DOMAIN s /\ (<<x>> \o s)[i] = s[i - 1]
           /\ \A i \in DOMAIN s : (<<x>> \o s)[i + 1] = s[i]
<1>1. <<x>> \in Seq(S) /\ Len(<<x>>) = 1 /\ <<x>>[1] = x
  OBVIOUS
<1>2. Len(s) \in Nat /\ DOMAIN s = 1..Len(s)
  BY LenProperties
<1>3. /\ <<x>> \o s \in Seq(S)
      /\ Len(<<x>> \o s) = 1 + Len(s)
      /\ \A i \in 1..(1 + Len(s)) :
            (<<x>> \o s)[i] = IF i <= 1 THEN <<x>>[i] ELSE s[i - 1]
  BY <1>1, <1>2, ConcatProperties
<1>4. DOMAIN (<<x>> \o s) = 1..(Len(s) + 1)
  BY <1>2, <1>3, LenProperties
<1> QED
  BY <1>1, <1>2, <1>3, <1>4

\* A dispatched or abandoned command leaves the front of the queue.
LEMMA TailFacts ==
    ASSUME NEW S, NEW s \in Seq(S), s # << >>
    PROVE  /\ Head(s) \in S /\ Head(s) = s[1] /\ 1 \in DOMAIN s
           /\ Tail(s) \in Seq(S)
           /\ \A i \in DOMAIN Tail(s) : i + 1 \in DOMAIN s /\ Tail(s)[i] = s[i + 1]
           /\ \A i \in DOMAIN s : i # 1 => i - 1 \in DOMAIN Tail(s) /\ Tail(s)[i - 1] = s[i]
  BY HeadTailProperties, LenProperties, EmptySeq

\* Which episodes a queue of commands holds, once each, after either move.
DistinctIn(s) == \A i, j \in DOMAIN s : s[i].episode = s[j].episode => i = j
Holds(s, e) == \E i \in DOMAIN s : s[i].episode = e

LEMMA TailHolds ==
    ASSUME NEW S, NEW s \in Seq(S), s # << >>, DistinctIn(s)
    PROVE  /\ DistinctIn(Tail(s))
           /\ \A e : Holds(Tail(s), e) <=> Holds(s, e) /\ e # Head(s).episode
           /\ Holds(s, Head(s).episode)
<1> DEFINE t == Tail(s)
<1>1. /\ Head(s) = s[1] /\ 1 \in DOMAIN s
      /\ \A i \in DOMAIN t : i + 1 \in DOMAIN s /\ t[i] = s[i + 1]
      /\ \A i \in DOMAIN s : i # 1 => i - 1 \in DOMAIN t /\ t[i - 1] = s[i]
  BY TailFacts
<1>2. DOMAIN s \subseteq Nat /\ DOMAIN t \subseteq Nat \ {0}
  BY HeadTailProperties, LenProperties
<1> HIDE DEF t
<1>3. DistinctIn(t)
  BY <1>1, <1>2 DEF DistinctIn
<1>4. ASSUME NEW e, Holds(t, e) PROVE Holds(s, e) /\ e # Head(s).episode
  <2>1. PICK i \in DOMAIN t : t[i].episode = e
    BY <1>4 DEF Holds
  <2>2. i + 1 \in DOMAIN s /\ s[i + 1].episode = e /\ i + 1 # 1
    BY <1>1, <1>2, <2>1
  <2> QED
    BY <1>1, <2>2 DEF Holds, DistinctIn
<1>5. ASSUME NEW e, Holds(s, e), e # Head(s).episode PROVE Holds(t, e)
  <2>1. PICK i \in DOMAIN s : s[i].episode = e
    BY <1>5 DEF Holds
  <2> QED
    BY <1>1, <1>5, <2>1 DEF Holds
<1>6. Holds(s, Head(s).episode)
  BY <1>1 DEF Holds
<1> QED
  BY <1>3, <1>4, <1>5, <1>6 DEF t

LEMMA PrependHolds ==
    ASSUME NEW S, NEW s \in Seq(S), NEW c \in S, DistinctIn(s), ~Holds(s, c.episode)
    PROVE  /\ DistinctIn(<<c>> \o s)
           /\ \A e : Holds(<<c>> \o s, e) <=> Holds(s, e) \/ e = c.episode
<1> DEFINE t == <<c>> \o s
<1>1. /\ DOMAIN t = 1..(Len(s) + 1) /\ t[1] = c
      /\ \A i \in 2..(Len(s) + 1) : i - 1 \in DOMAIN s /\ t[i] = s[i - 1]
      /\ \A i \in DOMAIN s : t[i + 1] = s[i]
  BY PrependFacts
<1>2. DOMAIN s = 1..Len(s) /\ Len(s) \in Nat
  BY LenProperties
<1> HIDE DEF t
<1>3. \A i \in DOMAIN t : i = 1 \/ i \in 2..(Len(s) + 1)
  BY <1>1, <1>2
<1>4. ASSUME NEW i \in DOMAIN t, NEW j \in DOMAIN t, t[i].episode = t[j].episode
      PROVE  i = j
  <2>1. CASE i = 1 /\ j # 1
    BY <1>1, <1>3, <1>4, <2>1 DEF Holds
  <2>2. CASE j = 1 /\ i # 1
    BY <1>1, <1>3, <1>4, <2>2 DEF Holds
  <2>3. CASE i # 1 /\ j # 1
    <3>1. i \in 2..(Len(s) + 1) /\ j \in 2..(Len(s) + 1)
      BY <1>3, <2>3
    <3>2. i - 1 = j - 1
      BY <1>1, <1>4, <3>1 DEF DistinctIn
    <3> QED
      BY <1>2, <3>1, <3>2
  <2> QED
    BY <2>1, <2>2, <2>3
<1>5. ASSUME NEW e, Holds(t, e) PROVE Holds(s, e) \/ e = c.episode
  <2>1. PICK i \in DOMAIN t : t[i].episode = e
    BY <1>5 DEF Holds
  <2> QED
    BY <1>1, <1>3, <2>1 DEF Holds
<1>6. ASSUME NEW e, Holds(s, e) PROVE Holds(t, e)
  <2>1. PICK i \in DOMAIN s : s[i].episode = e
    BY <1>6 DEF Holds
  <2>2. i + 1 \in DOMAIN t /\ t[i + 1].episode = e
    BY <1>1, <1>2, <2>1
  <2> QED
    BY <2>2 DEF Holds
<1>7. Holds(t, c.episode)
  BY <1>1, <1>2 DEF Holds
<1> QED
  BY <1>4, <1>5, <1>6, <1>7 DEF t, DistinctIn

-----------------------------------------------------------------------------
(* Type correctness *)

\* A worker that is still watched has budget left, and exactly the busy ones
\* hold a command: what the type invariant needs to be inductive.
Budgets ==
    \A w \in Worker : phase[w] # "retired" =>
        /\ startupFailures[w] < MaxStartupAttempts
        /\ idleRestarts[w] <= MaxIdleRestarts

BusyHolds == \A w \in Worker : phase[w] = "busy" <=> inflight[w] # NoCommand

CoreInv == TypeOK /\ Budgets /\ BusyHolds

LEMMA NoCommandIsNone == NoCommand \notin Command /\ Shutdown \notin Command
  BY PoolAssumption DEF NoCommand, Shutdown, Command

LEMMA NoOutcomeIsNone == NoOutcome \notin Outcome
  BY DEF NoOutcome, Outcome, Result

LEMMA CoreInit == Init => CoreInv
<1> SUFFICES ASSUME Init PROVE CoreInv
  OBVIOUS
<1>1. pending \in Seq(Command)
  <2>1. EpisodeIds \in Seq(Episode) /\ DOMAIN EpisodeIds = 1..Len(EpisodeIds)
        /\ Len(EpisodeIds) \in Nat
    BY PoolAssumption, LenProperties
  <2>2. \A i \in 1..Len(EpisodeIds) : [episode |-> EpisodeIds[i], attempt |-> 1] \in Command
    BY <2>1, PoolAssumption DEF Command, Episode
  <2> QED
    BY <2>1, <2>2 DEF Init
<1>2. TypeOK
  BY <1>1, PoolAssumption DEF Init, TypeOK
<1> QED
  BY <1>2, PoolAssumption DEF Init, CoreInv, Budgets, BusyHolds

\* The responses a worker builds are responses.
LEMMA ResponseTypes ==
    ASSUME NEW c \in Command \cup {NoCommand}, NEW s \in Result, NEW f \in BOOLEAN
    PROVE  Ready \in Response /\ Report(c, s, f) \in Response /\ Failure(c, f) \in Response
  BY DEF Ready, Report, Failure, Response, Result

LEMMA ReadyIsResponse == Ready \in Response
  BY DEF Ready, Response, Result

\* Appending to one worker's pipe keeps every pipe a sequence of its type.
LEMMA RespondType ==
    ASSUME CoreInv, NEW w \in Worker, NEW r \in Response,
           NEW n \in {"waiting", "exiting"}, Respond(w, r, n)
    PROVE  CoreInv'
<1>1. Append(toPool[w], r) \in Seq(Response)
  BY AppendProperties DEF CoreInv, TypeOK
<1>2. /\ toPool' \in [Worker -> Seq(Response)]
      /\ proc' \in [Worker -> {"none", "loading", "waiting", "running", "exiting", "dead"}]
      /\ task' \in [Worker -> Command \cup {NoCommand}]
  BY <1>1 DEF CoreInv, TypeOK, Respond
<1> QED
  BY <1>2 DEF CoreInv, TypeOK, Budgets, BusyHolds, Respond, coordVars

LEMMA WorkerStepType ==
    ASSUME CoreInv, NEW w \in Worker, WorkerStep(w) \/ ProcessDies(w)
    PROVE  CoreInv'
<1>0. task[w] \in Command \cup {NoCommand}
  BY DEF CoreInv, TypeOK
<1>1. CASE BackendLoaded(w)
  BY <1>1, RespondType, ReadyIsResponse DEF BackendLoaded
<1>2. CASE BackendFails(w)
  <2>1. PICK f \in BOOLEAN : Respond(w, Failure(NoCommand, f), "exiting")
    BY <1>2 DEF BackendFails
  <2>2. Failure(NoCommand, f) \in Response
    BY ResponseTypes DEF Result
  <2> QED
    BY <2>1, <2>2, RespondType
<1>3. CASE FinishEpisode(w)
  <2>1. PICK s \in Result, f \in BOOLEAN :
            Respond(w, Report(task[w], s, f), IF f THEN "exiting" ELSE "waiting")
    BY <1>3 DEF FinishEpisode
  <2>2. Report(task[w], s, f) \in Response
    BY <1>0, ResponseTypes
  <2> QED
    BY <2>1, <2>2, RespondType
<1>4. CASE EpisodeRaises(w)
  <2>1. PICK f \in BOOLEAN : Respond(w, Failure(task[w], f), "exiting")
    BY <1>4 DEF EpisodeRaises
  <2>2. Failure(task[w], f) \in Response
    BY <1>0, ResponseTypes DEF Result
  <2> QED
    BY <2>1, <2>2, RespondType
<1>5. CASE TakeCommand(w)
  <2>1. /\ Head(toWorker[w]) \in Command \cup {Shutdown}
        /\ Tail(toWorker[w]) \in Seq(Command \cup {Shutdown})
    BY <1>5, HeadTailProperties DEF TakeCommand, CoreInv, TypeOK
  <2> QED
    BY <1>5, <2>1 DEF TakeCommand, CoreInv, TypeOK, Budgets, BusyHolds, coordVars
<1>6. CASE CoordinatorGone(w) \/ ProcessEnds(w) \/ ProcessDies(w)
  BY <1>6 DEF CoordinatorGone, ProcessEnds, ProcessDies, CoreInv, TypeOK, Budgets,
              BusyHolds, coordVars
<1> QED
  BY <1>1, <1>2, <1>3, <1>4, <1>5, <1>6 DEF WorkerStep

\* Every live process is sent a shutdown: pipes keep their type.
LEMMA SendShutdownType ==
    ASSUME CoreInv, SendShutdown
    PROVE  toWorker' \in [Worker -> Seq(Command \cup {Shutdown})]
<1>1. \A w \in Worker : Append(toWorker[w], Shutdown) \in Seq(Command \cup {Shutdown})
  BY AppendProperties DEF CoreInv, TypeOK
<1> QED
  BY <1>1 DEF SendShutdown, CoreInv, TypeOK

LEMMA StartProcessType ==
    ASSUME CoreInv, NEW w \in Worker, StartProcess(w)
    PROVE  /\ proc' \in [Worker -> {"none", "loading", "waiting", "running", "exiting", "dead"}]
           /\ task' \in [Worker -> Command \cup {NoCommand}]
           /\ toWorker' \in [Worker -> Seq(Command \cup {Shutdown})]
           /\ toPool' \in [Worker -> Seq(Response)]
<1>1. << >> \in Seq(Command \cup {Shutdown}) /\ << >> \in Seq(Response)
  BY EmptySeq
<1> QED
  BY <1>1 DEF StartProcess, CoreInv, TypeOK

LEMMA TakeBackType ==
    ASSUME CoreInv, NEW w \in Worker, NEW f \in BOOLEAN, TakeBack(w, f)
    PROVE  /\ inflight' \in [Worker -> Command \cup {NoCommand}]
           /\ pending' \in Seq(Command)
           /\ outcomes' \in [Episode -> Outcome \cup {NoOutcome}]
<1> DEFINE lost == inflight[w]
           retried == lost # NoCommand /\ ~f /\ lost.attempt < MaxEpisodeAttempts
           again == [episode |-> lost.episode, attempt |-> lost.attempt + 1]
<1>1. lost \in Command \cup {NoCommand}
  BY DEF CoreInv, TypeOK
<1>2. retried => again \in Command
  BY <1>1, PoolAssumption DEF Command
<1>3. retried => <<again>> \o pending \in Seq(Command)
  BY <1>2, PrependFacts DEF CoreInv, TypeOK
<1>4. pending' \in Seq(Command)
  BY <1>3 DEF TakeBack, CoreInv, TypeOK
<1>5. lost # NoCommand => [status |-> "failed", attempt |-> lost.attempt] \in Outcome
  BY <1>1 DEF Command, Outcome, Result
<1>6. outcomes' \in [Episode -> Outcome \cup {NoOutcome}]
  BY <1>1, <1>5 DEF TakeBack, CoreInv, TypeOK, Command
<1> QED
  BY <1>4, <1>6 DEF TakeBack, CoreInv, TypeOK

\* Counting a failure of a watched worker stays within the budgets' types, and
\* leaves budget to a worker that may be relaunched.
LEMMA CountFailureType ==
    ASSUME CoreInv, NEW w \in Worker, NEW f \in BOOLEAN,
           phase[w] # "retired", CountFailure(w, f)
    PROVE  /\ startupFailures' \in [Worker -> 0..MaxStartupAttempts]
           /\ idleRestarts' \in [Worker -> 0..(MaxIdleRestarts + 1)]
           /\ \A v \in Worker : v # w =>
                 startupFailures'[v] = startupFailures[v] /\ idleRestarts'[v] = idleRestarts[v]
           /\ MayRelaunch(w, f) => /\ startupFailures'[w] < MaxStartupAttempts
                                   /\ idleRestarts'[w] <= MaxIdleRestarts
<1> USE DEF CoreInv, TypeOK, Budgets
<1>1. /\ startupFailures[w] \in 0..(MaxStartupAttempts - 1)
      /\ idleRestarts[w] \in 0..MaxIdleRestarts
      /\ MaxStartupAttempts \in Nat /\ MaxIdleRestarts \in Nat
  BY PoolAssumption
<1>2. /\ startupFailures'[w] \in {startupFailures[w], startupFailures[w] + 1}
      /\ idleRestarts'[w] \in {idleRestarts[w], idleRestarts[w] + 1}
      /\ \A v \in Worker : v # w =>
            startupFailures'[v] = startupFailures[v] /\ idleRestarts'[v] = idleRestarts[v]
  BY DEF CountFailure
<1>3. /\ startupFailures' \in [Worker -> 0..MaxStartupAttempts]
      /\ idleRestarts' \in [Worker -> 0..(MaxIdleRestarts + 1)]
  <2>1. /\ startupFailures[w] + 1 \in 0..MaxStartupAttempts
        /\ idleRestarts[w] + 1 \in 0..(MaxIdleRestarts + 1)
    BY <1>1
  <2> QED
    BY <2>1 DEF CountFailure
<1>4. ASSUME MayRelaunch(w, f)
      PROVE  startupFailures'[w] < MaxStartupAttempts /\ idleRestarts'[w] <= MaxIdleRestarts
  <2>1. CASE phase[w] = "starting"
    BY <1>1, <1>4, <2>1 DEF CountFailure, MayRelaunch
  <2>2. CASE phase[w] = "idle"
    BY <1>1, <1>4, <2>2 DEF CountFailure, MayRelaunch
  <2>3. CASE phase[w] \notin {"starting", "idle"}
    BY <1>1, <2>3 DEF CountFailure
  <2> QED
    BY <2>1, <2>2, <2>3
<1> QED
  BY <1>2, <1>3, <1>4

\* Losing a watched worker, whatever the cause, keeps the invariant: it is
\* restarted with budget left, or retired without a command.
LEMMA LossKeepsCore ==
    ASSUME CoreInv, NEW w \in Worker, NEW f \in BOOLEAN, phase[w] # "retired",
           TakeBack(w, f), CountFailure(w, f),
           \/ MayRelaunch(w, f) /\ phase' = [phase EXCEPT ![w] = "starting"]
           \/ phase' = [phase EXCEPT ![w] = "retired"]
    PROVE  /\ phase' \in [Worker -> {"absent", "starting", "idle", "busy", "retired"}]
           /\ Budgets'
           /\ BusyHolds'
<1>1. phase' \in [Worker -> {"absent", "starting", "idle", "busy", "retired"}]
  BY DEF CoreInv, TypeOK
<1>2. Budgets'
  <2>1. /\ \A v \in Worker : v # w =>
              startupFailures'[v] = startupFailures[v] /\ idleRestarts'[v] = idleRestarts[v]
        /\ MayRelaunch(w, f) => /\ startupFailures'[w] < MaxStartupAttempts
                                /\ idleRestarts'[w] <= MaxIdleRestarts
    BY CountFailureType
  <2>2. phase'[w] # "retired" => MayRelaunch(w, f)
    BY DEF CoreInv, TypeOK
  <2>3. \A v \in Worker : v # w => phase'[v] = phase[v]
    BY DEF CoreInv, TypeOK
  <2> QED
    BY <2>1, <2>2, <2>3 DEF CoreInv, Budgets
<1>3. BusyHolds'
  BY DEF TakeBack, CoreInv, TypeOK, BusyHolds
<1> QED
  BY <1>1, <1>2, <1>3

LEMMA LoseWorkerType ==
    ASSUME CoreInv, NEW w \in Worker, Watched(w), LoseWorker(w)
    PROVE  CoreInv'
<1>1. phase[w] # "retired" /\ TakeBack(w, FALSE) /\ CountFailure(w, FALSE)
  BY DEF Watched, LoseWorker
<1>2. /\ phase' \in [Worker -> {"absent", "starting", "idle", "busy", "retired"}]
      /\ Budgets'
      /\ BusyHolds'
  BY <1>1, LossKeepsCore DEF LoseWorker, Relaunched, NotRelaunched
<1>3. /\ proc' \in [Worker -> {"none", "loading", "waiting", "running", "exiting", "dead"}]
      /\ task' \in [Worker -> Command \cup {NoCommand}]
      /\ toWorker' \in [Worker -> Seq(Command \cup {Shutdown})]
      /\ toPool' \in [Worker -> Seq(Response)]
  <2>1. CASE Relaunched(w)
    BY <2>1, StartProcessType DEF Relaunched
  <2>2. CASE NotRelaunched(w) /\ UNCHANGED <<toWorker, toPool>>
    BY <2>2 DEF NotRelaunched, CoreInv, TypeOK
  <2>3. CASE UNCHANGED procVars
    BY <2>3 DEF procVars, CoreInv, TypeOK
  <2> QED
    BY <2>1, <2>2, <2>3 DEF LoseWorker
<1>4. pool' = pool
  BY DEF LoseWorker
<1> QED
  BY <1>1, <1>2, <1>3, <1>4, TakeBackType, CountFailureType DEF CoreInv, TypeOK

LEMMA ReceiveFailureType ==
    ASSUME CoreInv, NEW w \in Worker, ReceiveFailure(w)
    PROVE  CoreInv'
<1> DEFINE m == Head(toPool[w])
<1>1. phase[w] # "retired" /\ TakeBack(w, m.fatal) /\ CountFailure(w, m.fatal)
  BY DEF Watched, ReceiveFailure
<1>2. m \in Response /\ m.fatal \in BOOLEAN /\ Tail(toPool[w]) \in Seq(Response)
  <2>1. m \in Response /\ Tail(toPool[w]) \in Seq(Response)
    BY HeadTailProperties DEF ReceiveFailure, CoreInv, TypeOK
  <2> QED
    BY <2>1 DEF Response
<1>3. /\ phase' \in [Worker -> {"absent", "starting", "idle", "busy", "retired"}]
      /\ Budgets'
      /\ BusyHolds'
  BY <1>1, <1>2, LossKeepsCore DEF ReceiveFailure, Relaunched, NotRelaunched
<1>4. /\ proc' \in [Worker -> {"none", "loading", "waiting", "running", "exiting", "dead"}]
      /\ task' \in [Worker -> Command \cup {NoCommand}]
      /\ toWorker' \in [Worker -> Seq(Command \cup {Shutdown})]
      /\ toPool' \in [Worker -> Seq(Response)]
      /\ pool' \in {pool, "raising"}
  <2>1. CASE Relaunched(w) /\ UNCHANGED pool
    BY <2>1, StartProcessType DEF Relaunched
  <2>2. CASE NotRelaunched(w) /\ pool' = "raising" /\ SendShutdown /\ UNCHANGED toPool
    BY <2>2, SendShutdownType DEF NotRelaunched, CoreInv, TypeOK
  <2>3. CASE /\ toPool' = [toPool EXCEPT ![w] = Tail(@)]
             /\ UNCHANGED <<pool, proc, task, toWorker>>
    BY <1>2, <2>3 DEF CoreInv, TypeOK
  <2> QED
    BY <2>1, <2>2, <2>3 DEF ReceiveFailure
<1> QED
  BY <1>1, <1>2, <1>3, <1>4, TakeBackType, CountFailureType DEF CoreInv, TypeOK

LEMMA ReceiveOutcomeType ==
    ASSUME CoreInv, NEW w \in Worker, ReceiveOutcome(w)
    PROVE  CoreInv'
<1> DEFINE m == Head(toPool[w])
<1>1. m \in Response /\ Tail(toPool[w]) \in Seq(Response)
  BY HeadTailProperties DEF ReceiveOutcome, CoreInv, TypeOK
<1>2. m.command \in Command
  BY DEF ReceiveOutcome, CoreInv, TypeOK, BusyHolds
<1>3. [status |-> m.status, attempt |-> m.command.attempt] \in Outcome
  BY <1>1, <1>2 DEF Response, Outcome, Command
<1>4. outcomes' \in [Episode -> Outcome \cup {NoOutcome}]
  BY <1>2, <1>3 DEF ReceiveOutcome, CoreInv, TypeOK, Command
<1>5. inflight' \in [Worker -> Command \cup {NoCommand}] /\ toPool' \in [Worker -> Seq(Response)]
  BY <1>1 DEF ReceiveOutcome, CoreInv, TypeOK
<1>6. /\ phase' \in [Worker -> {"absent", "starting", "idle", "busy", "retired"}]
      /\ Budgets' /\ BusyHolds'
  BY DEF ReceiveOutcome, CoreInv, TypeOK, Budgets, BusyHolds
<1> QED
  BY <1>4, <1>5, <1>6 DEF ReceiveOutcome, CoreInv, TypeOK

LEMMA CoordinatorStepType ==
    ASSUME CoreInv, CoordinatorStep \/ Interrupt \/ CoordinatorDies
    PROVE  CoreInv'
<1>1. ASSUME NEW w \in Worker, Launch(w) PROVE CoreInv'
  BY <1>1, StartProcessType DEF Launch, CoreInv, TypeOK, Budgets, BusyHolds
<1>2. ASSUME NEW w \in Worker, Dispatch(w) PROVE CoreInv'
  <2>1. Head(pending) \in Command /\ Tail(pending) \in Seq(Command)
    BY <1>2, HeadTailProperties DEF Dispatch, CoreInv, TypeOK
  <2>2. Append(toWorker[w], Head(pending)) \in Seq(Command \cup {Shutdown})
    BY <2>1, AppendProperties DEF CoreInv, TypeOK
  <2>3. TypeOK'
    BY <1>2, <2>1, <2>2 DEF Dispatch, CoreInv, TypeOK
  <2> QED
    BY <1>2, <2>1, <2>3, NoCommandIsNone DEF Dispatch, CoreInv, TypeOK, Budgets, BusyHolds
<1>3. ASSUME NEW w \in Worker, ReceiveReady(w) PROVE CoreInv'
  <2>1. Tail(toPool[w]) \in Seq(Response)
    BY <1>3, HeadTailProperties DEF ReceiveReady, CoreInv, TypeOK
  <2>2. 0 \in 0..MaxStartupAttempts /\ 0 < MaxStartupAttempts
    BY PoolAssumption
  <2>3. TypeOK'
    BY <1>3, <2>1, <2>2 DEF ReceiveReady, CoreInv, TypeOK
  <2>4. Budgets'
    BY <1>3, <2>2 DEF ReceiveReady, CoreInv, TypeOK, Budgets
  <2>5. BusyHolds'
    BY <1>3 DEF ReceiveReady, CoreInv, TypeOK, BusyHolds
  <2> QED
    BY <2>3, <2>4, <2>5 DEF CoreInv
<1>4. ASSUME NEW w \in Worker, ReceiveOutcome(w) PROVE CoreInv'
  BY <1>4, ReceiveOutcomeType
<1>5. ASSUME NEW w \in Worker, ReceiveFailure(w) PROVE CoreInv'
  BY <1>5, ReceiveFailureType
<1>6. ASSUME NEW w \in Worker, NoticeExit(w) \/ Timeout(w) PROVE CoreInv'
  BY <1>6, LoseWorkerType DEF NoticeExit, Timeout
<1>7. CASE GiveUp
  <2>1. Head(pending) \in Command /\ Tail(pending) \in Seq(Command)
    BY <1>7, HeadTailProperties DEF GiveUp, CoreInv, TypeOK
  <2>2. [status |-> "not_run", attempt |-> Head(pending).attempt] \in Outcome
    BY <2>1 DEF Outcome, Command
  <2> QED
    BY <1>7, <2>1, <2>2 DEF GiveUp, CoreInv, TypeOK, Budgets, BusyHolds, procVars, Command
<1>8. CASE Finish \/ Interrupt
  BY <1>8, SendShutdownType DEF Finish, Interrupt, CoreInv, TypeOK, Budgets, BusyHolds
<1>9. CASE StopWorkers \/ CoordinatorDies
  BY <1>9 DEF StopWorkers, CoordinatorDies, CoreInv, TypeOK, Budgets, BusyHolds, procVars
<1> QED
  BY <1>1, <1>2, <1>3, <1>4, <1>5, <1>6, <1>7, <1>8, <1>9 DEF CoordinatorStep

LEMMA CoreNext == CoreInv /\ [Next]_vars => CoreInv'
<1> SUFFICES ASSUME CoreInv, [Next]_vars PROVE CoreInv'
  OBVIOUS
<1>1. CASE UNCHANGED vars
  BY <1>1 DEF vars, coordVars, procVars, CoreInv, TypeOK, Budgets, BusyHolds
<1> QED
  BY <1>1, WorkerStepType, CoordinatorStepType DEF Next

\* Every variable keeps its type: attempts and restarts stay in their budgets
\* and pipes carry only protocol messages.
THEOREM TypeCorrect == Spec => []TypeOK
<1>1. Spec => []CoreInv
  BY CoreInit, CoreNext, PTL DEF Spec
<1> QED
  BY <1>1, PTL DEF CoreInv

-----------------------------------------------------------------------------
(* No episode is lost or doubled *)

LEMMA ConservedInit == Init => EpisodeConserved
<1> SUFFICES ASSUME Init PROVE EpisodeConserved
  OBVIOUS
<1>1. /\ DOMAIN pending = DOMAIN EpisodeIds
      /\ \A i \in DOMAIN EpisodeIds : pending[i].episode = EpisodeIds[i]
  BY DEF Init
<1>2. \A i, j \in DOMAIN pending : pending[i].episode = pending[j].episode => i = j
  BY <1>1, PoolAssumption
<1>3. \A e \in Episode : Queued(e)
  BY <1>1 DEF Queued, Episode
<1>4. \A w \in Worker : inflight[w] = NoCommand
  BY DEF Init
<1>5. \A e \in Episode : outcomes[e] = NoOutcome
  BY DEF Init
<1> QED
  BY <1>2, <1>3, <1>4, <1>5 DEF EpisodeConserved, InFlight, Settled

\* The front command moves from the queue to a worker that held none.
LEMMA DispatchConserves ==
    ASSUME CoreInv, EpisodeConserved, NEW w \in Worker, Dispatch(w)
    PROVE  EpisodeConserved'
<1> DEFINE c == Head(pending)
<1>1. c \in Command
  BY HeadTailProperties DEF Dispatch, CoreInv, TypeOK
<1>2. /\ DistinctIn(Tail(pending))
      /\ \A e : Holds(Tail(pending), e) <=> Holds(pending, e) /\ e # c.episode
      /\ Holds(pending, c.episode)
  BY TailHolds DEF Dispatch, CoreInv, TypeOK, EpisodeConserved, DistinctIn
<1>3. pending' = Tail(pending) /\ outcomes' = outcomes
  BY DEF Dispatch
<1>4. /\ inflight[w] = NoCommand /\ inflight'[w] = c
      /\ \A v \in Worker : v # w => inflight'[v] = inflight[v]
  BY DEF Dispatch, CoreInv, TypeOK, BusyHolds
<1>5. DistinctIn(pending')
  BY <1>2, <1>3
<1>6. \A e \in Episode : Queued(e)' <=> Queued(e) /\ e # c.episode
  BY <1>2, <1>3 DEF Queued, Holds
<1>7. \A e \in Episode : InFlight(e)' <=> InFlight(e) \/ e = c.episode
  BY <1>1, <1>4, NoCommandIsNone DEF InFlight
<1>8. \A e \in Episode : Settled(e)' <=> Settled(e)
  BY <1>3 DEF Settled
<1>9. Queued(c.episode) /\ c.episode \in Episode
  BY <1>1, <1>2 DEF Queued, Holds, Command
<1>10. \A u, v \in Worker :
          inflight'[u] # NoCommand /\ inflight'[v] # NoCommand
            /\ inflight'[u].episode = inflight'[v].episode => u = v
  BY <1>4, <1>9 DEF EpisodeConserved, InFlight
<1> QED
  BY <1>5, <1>6, <1>7, <1>8, <1>9, <1>10 DEF EpisodeConserved, DistinctIn

\* A dispatched command becomes the outcome of its episode.
LEMMA SettleConserves ==
    ASSUME CoreInv, EpisodeConserved, NEW w \in Worker, NEW o \in Outcome,
           inflight[w] # NoCommand,
           inflight' = [inflight EXCEPT ![w] = NoCommand],
           pending' = pending,
           outcomes' = [outcomes EXCEPT ![inflight[w].episode] = o]
    PROVE  EpisodeConserved'
<1> DEFINE x == inflight[w].episode
<1>1. x \in Episode
  BY DEF CoreInv, TypeOK, Command
<1>2. inflight'[w] = NoCommand /\ \A v \in Worker : v # w => inflight'[v] = inflight[v]
  BY DEF CoreInv, TypeOK
<1>3. \A e \in Episode : Settled(e)' <=> Settled(e) \/ e = x
  BY <1>1, NoOutcomeIsNone DEF Settled, CoreInv, TypeOK
<1>4. \A e \in Episode : Queued(e)' <=> Queued(e)
  BY DEF Queued
<1>5. \A e \in Episode : InFlight(e)' <=> InFlight(e) /\ e # x
  BY <1>2 DEF InFlight, EpisodeConserved
<1>6. InFlight(x)
  BY DEF InFlight
<1>7. \A u, v \in Worker :
          inflight'[u] # NoCommand /\ inflight'[v] # NoCommand
            /\ inflight'[u].episode = inflight'[v].episode => u = v
  BY <1>2 DEF EpisodeConserved
<1> QED
  BY <1>1, <1>3, <1>4, <1>5, <1>6, <1>7 DEF EpisodeConserved

\* A dispatched command goes back to the front of the queue.
LEMMA RequeueConserves ==
    ASSUME CoreInv, EpisodeConserved, NEW w \in Worker, NEW c \in Command,
           inflight[w] # NoCommand,
           c.episode = inflight[w].episode,
           inflight' = [inflight EXCEPT ![w] = NoCommand],
           pending' = <<c>> \o pending,
           outcomes' = outcomes
    PROVE  EpisodeConserved'
<1> DEFINE x == inflight[w].episode
<1>1. x \in Episode
  BY DEF CoreInv, TypeOK, Command
<1>2. inflight'[w] = NoCommand /\ \A v \in Worker : v # w => inflight'[v] = inflight[v]
  BY DEF CoreInv, TypeOK
<1>3. InFlight(x) /\ ~Queued(x) /\ ~Settled(x)
  BY <1>1 DEF InFlight, EpisodeConserved
<1>4. /\ DistinctIn(pending')
      /\ \A e : Holds(pending', e) <=> Holds(pending, e) \/ e = x
  <2>1. DistinctIn(pending) /\ ~Holds(pending, c.episode)
    BY <1>3 DEF EpisodeConserved, DistinctIn, Holds, Queued
  <2> QED
    BY <2>1, PrependHolds DEF CoreInv, TypeOK
<1>6. \A e \in Episode : Queued(e)' <=> Queued(e) \/ e = x
  BY <1>4 DEF Queued, Holds
<1>7. \A e \in Episode : InFlight(e)' <=> InFlight(e) /\ e # x
  BY <1>2 DEF InFlight, EpisodeConserved
<1>8. \A e \in Episode : Settled(e)' <=> Settled(e)
  BY DEF Settled
<1>10. \A u, v \in Worker :
          inflight'[u] # NoCommand /\ inflight'[v] # NoCommand
            /\ inflight'[u].episode = inflight'[v].episode => u = v
  BY <1>2 DEF EpisodeConserved
<1> QED
  BY <1>1, <1>3, <1>4, <1>6, <1>7, <1>8, <1>10 DEF EpisodeConserved, DistinctIn

LEMMA TakeBackConserves ==
    ASSUME CoreInv, EpisodeConserved, NEW w \in Worker, NEW f \in BOOLEAN, TakeBack(w, f)
    PROVE  EpisodeConserved'
<1> DEFINE lost == inflight[w]
           again == [episode |-> lost.episode, attempt |-> lost.attempt + 1]
<1>1. lost \in Command \cup {NoCommand}
  BY DEF CoreInv, TypeOK
<1>2. CASE lost = NoCommand
  <2>1. inflight' = inflight
    BY <1>2 DEF TakeBack, CoreInv, TypeOK
  <2> QED
    BY <1>2, <2>1 DEF TakeBack, EpisodeConserved, Queued, InFlight, Settled
<1>3. CASE lost # NoCommand /\ ~f /\ lost.attempt < MaxEpisodeAttempts
  <2>1. again \in Command /\ again.episode = lost.episode
    BY <1>1, <1>3, PoolAssumption DEF Command
  <2> QED
    BY <1>3, <2>1, RequeueConserves DEF TakeBack
<1>4. CASE lost # NoCommand /\ (f \/ ~(lost.attempt < MaxEpisodeAttempts))
  <2>1. [status |-> "failed", attempt |-> lost.attempt] \in Outcome
    BY <1>1, <1>4 DEF Command, Outcome, Result
  <2> QED
    BY <1>4, <2>1, SettleConserves DEF TakeBack
<1> QED
  BY <1>2, <1>3, <1>4

\* The front command of an abandoned queue becomes its episode's outcome.
LEMMA GiveUpConserves ==
    ASSUME CoreInv, EpisodeConserved, GiveUp
    PROVE  EpisodeConserved'
<1> DEFINE c == Head(pending)
<1>1. c \in Command
  BY HeadTailProperties DEF GiveUp, CoreInv, TypeOK
<1>2. /\ DistinctIn(Tail(pending))
      /\ \A e : Holds(Tail(pending), e) <=> Holds(pending, e) /\ e # c.episode
      /\ Holds(pending, c.episode)
  BY TailHolds DEF GiveUp, CoreInv, TypeOK, EpisodeConserved, DistinctIn
<1>3. /\ c.episode \in Episode
      /\ [status |-> "not_run", attempt |-> c.attempt] \in Outcome
  BY <1>1 DEF Command, Outcome
<1>4. /\ pending' = Tail(pending) /\ inflight' = inflight
      /\ outcomes' = [outcomes EXCEPT ![c.episode] =
                         [status |-> "not_run", attempt |-> c.attempt]]
  BY DEF GiveUp
<1>5. DistinctIn(pending')
  BY <1>2, <1>4
<1>6. \A e \in Episode : Queued(e)' <=> Queued(e) /\ e # c.episode
  BY <1>2, <1>4 DEF Queued, Holds
<1>7. \A e \in Episode : InFlight(e)' <=> InFlight(e)
  BY <1>4 DEF InFlight
<1>8. \A e \in Episode : Settled(e)' <=> Settled(e) \/ e = c.episode
  BY <1>3, <1>4, NoOutcomeIsNone DEF Settled, CoreInv, TypeOK
<1>9. Queued(c.episode)
  BY <1>2 DEF Queued, Holds
<1>10. \A u, v \in Worker :
          inflight'[u] # NoCommand /\ inflight'[v] # NoCommand
            /\ inflight'[u].episode = inflight'[v].episode => u = v
  BY <1>4 DEF EpisodeConserved
<1> QED
  BY <1>3, <1>5, <1>6, <1>7, <1>8, <1>9, <1>10 DEF EpisodeConserved, DistinctIn

LEMMA ConservedNext == CoreInv /\ EpisodeConserved /\ [Next]_vars => EpisodeConserved'
<1> SUFFICES ASSUME CoreInv, EpisodeConserved, [Next]_vars PROVE EpisodeConserved'
  OBVIOUS
<1>1. CASE UNCHANGED <<pending, inflight, outcomes>>
  BY <1>1 DEF EpisodeConserved, Queued, InFlight, Settled
<1>2. ASSUME NEW w \in Worker, Dispatch(w) PROVE EpisodeConserved'
  BY <1>2, DispatchConserves
<1>3. ASSUME NEW w \in Worker, NoticeExit(w) \/ Timeout(w) PROVE EpisodeConserved'
  BY <1>3, TakeBackConserves DEF NoticeExit, Timeout, LoseWorker
<1>4. ASSUME NEW w \in Worker, ReceiveFailure(w) PROVE EpisodeConserved'
  <2>1. Head(toPool[w]).fatal \in BOOLEAN
    <3>1. Head(toPool[w]) \in Response
      BY <1>4, HeadTailProperties DEF ReceiveFailure, CoreInv, TypeOK
    <3> QED
      BY <3>1 DEF Response
  <2> QED
    BY <1>4, <2>1, TakeBackConserves DEF ReceiveFailure
<1>5. ASSUME NEW w \in Worker, ReceiveOutcome(w) PROVE EpisodeConserved'
  <2> DEFINE m == Head(toPool[w])
  <2>1. m \in Response
    BY <1>5, HeadTailProperties DEF ReceiveOutcome, CoreInv, TypeOK
  <2>2. inflight[w] # NoCommand /\ inflight[w] \in Command
    BY <1>5 DEF ReceiveOutcome, CoreInv, TypeOK, BusyHolds
  <2>3. [status |-> m.status, attempt |-> m.command.attempt] \in Outcome
    BY <1>5, <2>1, <2>2 DEF ReceiveOutcome, Response, Outcome, Command
  <2> QED
    BY <1>5, <2>2, <2>3, SettleConserves DEF ReceiveOutcome
<1>6. CASE GiveUp
  BY <1>6, GiveUpConserves
<1>7. ASSUME NEW w \in Worker, Launch(w) \/ ReceiveReady(w)
      PROVE  UNCHANGED <<pending, inflight, outcomes>>
  BY <1>7 DEF Launch, ReceiveReady
<1>8. CASE Finish \/ StopWorkers \/ Interrupt \/ CoordinatorDies
  BY <1>1, <1>8 DEF Finish, StopWorkers, Interrupt, CoordinatorDies
<1>9. ASSUME NEW w \in Worker, WorkerStep(w) \/ ProcessDies(w)
      PROVE  UNCHANGED <<pending, inflight, outcomes>>
  BY <1>9 DEF WorkerStep, ProcessDies, BackendLoaded, BackendFails, TakeCommand,
              CoordinatorGone, FinishEpisode, EpisodeRaises, ProcessEnds, Respond, coordVars
<1>10. CASE UNCHANGED vars
  BY <1>1, <1>10 DEF vars, coordVars
<1> QED
  BY <1>1, <1>2, <1>3, <1>4, <1>5, <1>6, <1>7, <1>8, <1>9, <1>10
     DEF Next, CoordinatorStep

\* Whatever fails, however often, an episode is queued once, or with one
\* worker, or settled: run_parallel_sam_episodes neither loses nor doubles it.
THEOREM NoEpisodeLostOrDoubled == Spec => []EpisodeConserved
<1>1. Init => CoreInv /\ EpisodeConserved
  BY CoreInit, ConservedInit
<1>2. CoreInv /\ EpisodeConserved /\ [Next]_vars => (CoreInv /\ EpisodeConserved)'
  BY CoreNext, ConservedNext
<1> QED
  BY <1>1, <1>2, PTL DEF Spec


-----------------------------------------------------------------------------
(* No episode is given up while a worker is left *)

NotRun(e) == outcomes[e].status = "not_run"

\* A settled episode stays settled, and only GiveUp settles one as not run.
LEMMA SettledStays ==
    ASSUME CoreInv, Next
    PROVE  /\ \A e \in Episode : Settled(e) => Settled(e)'
           /\ \A e \in Episode : NotRun(e)' => NotRun(e) \/ GiveUp
<1> USE DEF CoreInv, TypeOK
<1>1. ASSUME NEW w \in Worker, NEW f \in BOOLEAN, TakeBack(w, f)
      PROVE  \A e \in Episode : /\ outcomes'[e] = outcomes[e] \/ outcomes'[e].status = "failed"
                                /\ Settled(e) => Settled(e)'
  <2>1. inflight[w] # NoCommand => inflight[w].episode \in Episode
    BY DEF Command
  <2> QED  BY <1>1, <2>1 DEF TakeBack, Settled, NoOutcome
<1>2. ASSUME NEW w \in Worker, NoticeExit(w) \/ Timeout(w)
      PROVE  \A e \in Episode : /\ outcomes'[e] = outcomes[e] \/ outcomes'[e].status = "failed"
                                /\ Settled(e) => Settled(e)'
  BY <1>1, <1>2 DEF NoticeExit, Timeout, LoseWorker
<1>3. ASSUME NEW w \in Worker, ReceiveFailure(w)
      PROVE  \A e \in Episode : /\ outcomes'[e] = outcomes[e] \/ outcomes'[e].status = "failed"
                                /\ Settled(e) => Settled(e)'
  <2>1. Head(toPool[w]) \in Response
    BY <1>3, HeadTailProperties DEF ReceiveFailure
  <2>2. Head(toPool[w]).fatal \in BOOLEAN
    BY <2>1 DEF Response
  <2> QED  BY <1>1, <1>3, <2>2 DEF ReceiveFailure
<1>4. ASSUME NEW w \in Worker, ReceiveOutcome(w)
      PROVE  \A e \in Episode : /\ outcomes'[e] = outcomes[e] \/ outcomes'[e].status \in Result
                                /\ Settled(e) => Settled(e)'
  <2>1. Head(toPool[w]) \in Response
    BY <1>4, HeadTailProperties DEF ReceiveOutcome
  <2>2. Head(toPool[w]).status \in Result
    BY <2>1 DEF Response
  <2>3. Head(toPool[w]).command.episode \in Episode
    BY <1>4 DEF ReceiveOutcome, BusyHolds, Command
  <2> QED  BY <1>4, <2>2, <2>3 DEF ReceiveOutcome, Settled, NoOutcome, Result
<1>5. CASE GiveUp
  <2>1. Head(pending) \in Command
    BY <1>5, HeadTailProperties DEF GiveUp
  <2>2. Head(pending).episode \in Episode
    BY <2>1 DEF Command
  <2> QED  BY <1>5, <2>2 DEF GiveUp, Settled, NoOutcome
<1>6. ASSUME NEW w \in Worker, WorkerStep(w) \/ ProcessDies(w)
      PROVE  UNCHANGED outcomes
  BY <1>6 DEF WorkerStep, ProcessDies, BackendLoaded, BackendFails, TakeCommand,
              CoordinatorGone, FinishEpisode, EpisodeRaises, ProcessEnds, Respond, coordVars
<1>7. ASSUME NEW w \in Worker, Launch(w) \/ Dispatch(w) \/ ReceiveReady(w)
      PROVE  UNCHANGED outcomes
  BY <1>7 DEF Launch, Dispatch, ReceiveReady
<1>8. CASE Finish \/ StopWorkers \/ Interrupt \/ CoordinatorDies
  BY <1>8 DEF Finish, StopWorkers, Interrupt, CoordinatorDies, Settled, NotRun
<1> QED
  BY <1>2, <1>3, <1>4, <1>5, <1>6, <1>7, <1>8 DEF Next, CoordinatorStep, Settled, NotRun, Result

\* A retired worker is never started again.
LEMMA RetiredStays ==
    ASSUME CoreInv, Next, NEW v \in Worker, phase[v] = "retired"
    PROVE  phase'[v] = "retired"
<1> USE DEF CoreInv, TypeOK
<1>1. ASSUME NEW w \in Worker, NoticeExit(w) \/ Timeout(w) PROVE phase'[v] = "retired"
  BY <1>1 DEF NoticeExit, Timeout, Watched, LoseWorker, Relaunched, NotRelaunched
<1>2. ASSUME NEW w \in Worker, ReceiveFailure(w) PROVE phase'[v] = "retired"
  BY <1>2 DEF ReceiveFailure, Watched, Relaunched, NotRelaunched
<1>3. ASSUME NEW w \in Worker, Launch(w) \/ Dispatch(w) \/ ReceiveReady(w) \/ ReceiveOutcome(w)
      PROVE  phase'[v] = "retired"
  BY <1>3 DEF Launch, Dispatch, ReceiveReady, ReceiveOutcome, Watched
<1>4. ASSUME NEW w \in Worker, WorkerStep(w) \/ ProcessDies(w)
      PROVE  UNCHANGED phase
  BY <1>4 DEF WorkerStep, ProcessDies, BackendLoaded, BackendFails, TakeCommand,
              CoordinatorGone, FinishEpisode, EpisodeRaises, ProcessEnds, Respond, coordVars
<1>5. CASE GiveUp \/ Finish \/ StopWorkers \/ Interrupt \/ CoordinatorDies
  BY <1>5 DEF GiveUp, Finish, StopWorkers, Interrupt, CoordinatorDies
<1> QED
  BY <1>1, <1>2, <1>3, <1>4, <1>5 DEF Next, CoordinatorStep

LEMMA NotRunNext ==
    CoreInv /\ NotRunOnlyWithoutWorkers /\ [Next]_vars => NotRunOnlyWithoutWorkers'
<1> SUFFICES ASSUME CoreInv, NotRunOnlyWithoutWorkers, [Next]_vars
             PROVE  NotRunOnlyWithoutWorkers'
  OBVIOUS
<1>1. CASE UNCHANGED vars
  BY <1>1 DEF vars, coordVars, NotRunOnlyWithoutWorkers, NoHealthyWorker
<1>2. CASE Next
  <2>1. GiveUp => NoHealthyWorker
    BY DEF GiveUp
  <2>2. (\E e \in Episode : NotRun(e)') => NoHealthyWorker
    BY <1>2, <2>1, SettledStays DEF NotRunOnlyWithoutWorkers, NotRun
  <2> QED
    BY <1>2, <2>2, RetiredStays DEF NotRunOnlyWithoutWorkers, NoHealthyWorker, NotRun
<1> QED  BY <1>1, <1>2

\* However workers fail, an episode is reported as not run only after the last
\* worker was given up for good.
THEOREM GivenUpOnlyWithoutWorkers == Spec => []NotRunOnlyWithoutWorkers
<1>1. Init => NotRunOnlyWithoutWorkers
  BY DEF Init, NotRunOnlyWithoutWorkers, NoOutcome
<1>2. Spec => []CoreInv
  BY CoreInit, CoreNext, PTL DEF Spec
<1> QED  BY <1>1, <1>2, NotRunNext, PTL DEF Spec

-----------------------------------------------------------------------------
(* No two processes work on one episode *)

\* A live process holds a command while it executes it or has it in its pipe.
Holding(w, c) ==
    /\ Alive(w)
    /\ \/ proc[w] = "running" /\ task[w] = c
       \/ \E i \in DOMAIN toWorker[w] : toWorker[w][i] = c

\* Whoever holds a command is expected to answer it, or the episode needs no
\* answer any more: a worker whose episode was put back is dead by then.
HeldIsExpected ==
    \A w \in Worker, c \in Command : Holding(w, c) => inflight[w] = c \/ Settled(c.episode)

HeldByOne ==
    \A v, w \in Worker, c, d \in Command :
        Holding(v, c) /\ Holding(w, d) /\ c.episode = d.episode => v = w

RunningHasTask == \A w \in Worker : proc[w] = "running" => task[w] \in Command

WorkInv == HeldIsExpected /\ HeldByOne /\ RunningHasTask

LEMMA WorkInit == Init => WorkInv
BY DEF Init, WorkInv, HeldIsExpected, HeldByOne, RunningHasTask, Holding, Alive

LEMMA WorkIsExclusive == WorkInv => ExclusiveEpisode
BY DEF WorkInv, HeldByOne, RunningHasTask, ExclusiveEpisode, Holding, Alive

\* A step that gives nobody a command, and takes none from the coordinator's
\* books before it is answered, keeps the invariant.
LEMMA NothingNewHeld ==
    ASSUME WorkInv, RunningHasTask',
           \A w \in Worker, c \in Command : Holding(w, c)' => Holding(w, c),
           \A e \in Episode : Settled(e) => Settled(e)',
           \A w \in Worker, c \in Command : Holding(w, c)' /\ inflight[w] = c =>
               inflight'[w] = c \/ Settled(c.episode)'
    PROVE  WorkInv'
<1>1. \A c \in Command : c.episode \in Episode
  BY DEF Command
<1>2. HeldIsExpected'
  BY <1>1 DEF WorkInv, HeldIsExpected
<1>3. HeldByOne'
  BY DEF WorkInv, HeldByOne
<1> QED  BY <1>2, <1>3 DEF WorkInv

\* The processes hand commands on from their pipe to their hands, and drop them.
LEMMA ProcessKeepsWork ==
    ASSUME CoreInv, WorkInv, NEW w \in Worker, WorkerStep(w) \/ ProcessDies(w)
    PROVE  WorkInv'
<1> USE DEF CoreInv, TypeOK
<1>1. UNCHANGED <<inflight, outcomes>>
  BY DEF WorkerStep, ProcessDies, BackendLoaded, BackendFails, TakeCommand,
         CoordinatorGone, FinishEpisode, EpisodeRaises, ProcessEnds, Respond, coordVars
<1>2. ASSUME RunningHasTask', \A v \in Worker, c \in Command : Holding(v, c)' => Holding(v, c)
      PROVE  WorkInv'
  BY <1>1, <1>2, NothingNewHeld DEF Settled
<1>3. CASE TakeCommand(w)
  <2>1. /\ Head(toWorker[w]) \in Command \cup {Shutdown} /\ Head(toWorker[w]) = toWorker[w][1]
        /\ 1 \in DOMAIN toWorker[w]
        /\ \A i \in DOMAIN Tail(toWorker[w]) :
              i + 1 \in DOMAIN toWorker[w] /\ Tail(toWorker[w])[i] = toWorker[w][i + 1]
    BY <1>3, TailFacts DEF TakeCommand
  <2>2. /\ proc[w] = "waiting" /\ toWorker'[w] = Tail(toWorker[w])
        /\ proc'[w] = "running" => task'[w] = Head(toWorker[w]) /\ Head(toWorker[w]) # Shutdown
        /\ \A v \in Worker : v # w =>
              proc'[v] = proc[v] /\ task'[v] = task[v] /\ toWorker'[v] = toWorker[v]
    BY <1>3 DEF TakeCommand
  <2>3. RunningHasTask'
    BY <2>1, <2>2 DEF WorkInv, RunningHasTask
  <2>4. ASSUME NEW c \in Command, Holding(w, c)' PROVE Holding(w, c)
    BY <2>1, <2>2, <2>4 DEF Holding, Alive
  <2>5. ASSUME NEW v \in Worker, v # w, NEW c \in Command, Holding(v, c)' PROVE Holding(v, c)
    BY <2>2, <2>5 DEF Holding, Alive
  <2> QED  BY <1>2, <2>3, <2>4, <2>5
<1>4. CASE ~TakeCommand(w)
  <2>1. /\ toWorker' = toWorker
        /\ proc'[w] # "running" /\ (Alive(w)' => Alive(w))
        /\ \A v \in Worker : v # w => proc'[v] = proc[v] /\ task'[v] = task[v]
    BY <1>4 DEF WorkerStep, ProcessDies, BackendLoaded, BackendFails, CoordinatorGone,
         FinishEpisode, EpisodeRaises, ProcessEnds, Respond, Alive
  <2>2. RunningHasTask'
    BY <2>1 DEF WorkInv, RunningHasTask
  <2>3. ASSUME NEW v \in Worker, NEW c \in Command, Holding(v, c)' PROVE Holding(v, c)
    BY <2>1, <2>3 DEF Holding, Alive
  <2> QED  BY <1>2, <2>2, <2>3
<1> QED  BY <1>3, <1>4

\* A command is dispatched only when nobody holds its episode any more.
LEMMA DispatchKeepsWork ==
    ASSUME CoreInv, EpisodeConserved, WorkInv, NEW w \in Worker, Dispatch(w)
    PROVE  WorkInv'
<1> DEFINE c == Head(pending)
<1> USE DEF CoreInv, TypeOK
<1>1. c \in Command /\ c = pending[1] /\ 1 \in DOMAIN pending
  BY TailFacts DEF Dispatch
<1>2. c.episode \in Episode /\ ~Settled(c.episode) /\ ~InFlight(c.episode)
  BY <1>1 DEF EpisodeConserved, Queued, Command
<1>3. \A v \in Worker, d \in Command : Holding(v, d) => d.episode # c.episode
  BY <1>2, NoCommandIsNone DEF WorkInv, HeldIsExpected, InFlight
<1>4. /\ inflight[w] = NoCommand /\ inflight'[w] = c
      /\ \A v \in Worker : v # w => inflight'[v] = inflight[v] /\ toWorker'[v] = toWorker[v]
      /\ toWorker'[w] = Append(toWorker[w], c)
      /\ UNCHANGED <<proc, task, outcomes>>
  BY DEF Dispatch, BusyHolds
<1>5. \A i \in DOMAIN toWorker'[w] : toWorker'[w][i] = c \/ (i \in DOMAIN toWorker[w] /\ toWorker'[w][i] = toWorker[w][i])
  <2>1. toWorker[w] \in Seq(Command \cup {Shutdown}) /\ c \in Command \cup {Shutdown}
    BY <1>1
  <2> QED  BY <1>4, <2>1, AppendProperties, LenProperties
<1> HIDE DEF c
<1>6. \A d \in Command : Holding(w, d)' => Holding(w, d) \/ d = c
  BY <1>4, <1>5 DEF Holding, Alive
<1>7. \A v \in Worker, d \in Command : v # w /\ Holding(v, d)' => Holding(v, d)
  BY <1>4 DEF Holding, Alive
<1>8. HeldIsExpected'
  <2>1. \A d \in Command : Holding(w, d) => Settled(d.episode)
    BY <1>4, NoCommandIsNone DEF WorkInv, HeldIsExpected
  <2>2. \A e \in Episode : Settled(e)' <=> Settled(e)
    BY <1>4 DEF Settled
  <2>3. \A d \in Command : d.episode \in Episode
    BY DEF Command
  <2> QED  BY <1>4, <1>6, <1>7, <2>1, <2>2, <2>3 DEF WorkInv, HeldIsExpected
<1>9. HeldByOne'
  <2> SUFFICES ASSUME NEW u \in Worker, NEW v \in Worker, NEW a \in Command, NEW b \in Command,
                      Holding(u, a)', Holding(v, b)', a.episode = b.episode
               PROVE  u = v
    BY DEF HeldByOne
  <2>1. Holding(u, a) \/ (u = w /\ a = c)
    BY <1>6, <1>7
  <2>2. Holding(v, b) \/ (v = w /\ b = c)
    BY <1>6, <1>7
  <2>3. CASE Holding(u, a) /\ Holding(v, b)
    BY <2>3 DEF WorkInv, HeldByOne
  <2> QED  BY <1>3, <2>1, <2>2, <2>3
<1>10. RunningHasTask'
  BY <1>4 DEF WorkInv, RunningHasTask
<1> QED  BY <1>8, <1>9, <1>10 DEF WorkInv

\* A worker is left alive with the command it lost only when the episode of the
\* command has its outcome: as long as an attempt is left, the worker may be
\* relaunched, and a relaunch kills the old process first.
LEMMA LossKeepsWork ==
    ASSUME CoreInv, EpisodeConserved, WorkInv, NEW w \in Worker, NEW f \in BOOLEAN,
           TakeBack(w, f), RunningHasTask',
           \A e \in Episode : Settled(e) => Settled(e)',
           \A v \in Worker, c \in Command : Holding(v, c)' => Holding(v, c),
           (\A c \in Command : ~Holding(w, c)') \/ ~MayRelaunch(w, f)
    PROVE  WorkInv'
<1> USE DEF CoreInv, TypeOK
<1>1. ASSUME NEW c \in Command, inflight[w] = c, ~MayRelaunch(w, f)
      PROVE  Settled(c.episode)'
  <2>1. c # NoCommand /\ c.episode \in Episode /\ phase[w] = "busy" /\ ~Settled(c.episode)
    BY <1>1, NoCommandIsNone DEF BusyHolds, EpisodeConserved, InFlight, Command
  <2>2. CASE ~f /\ c.attempt < MaxEpisodeAttempts
    <3>1. outcomes'[c.episode] = NoOutcome
      BY <1>1, <2>1, <2>2 DEF TakeBack, Settled
    <3> QED  BY <1>1, <2>1, <2>2, <3>1 DEF MayRelaunch
  <2>3. CASE f \/ ~(c.attempt < MaxEpisodeAttempts)
    <3>1. outcomes'[c.episode].status = "failed"
      BY <1>1, <2>1, <2>3 DEF TakeBack
    <3> QED  BY <3>1 DEF Settled, NoOutcome
  <2> QED  BY <2>2, <2>3
<1>2. \A v \in Worker : v # w => inflight'[v] = inflight[v]
  BY DEF TakeBack
<1>3. ASSUME NEW v \in Worker, NEW c \in Command, Holding(v, c)', inflight[v] = c
      PROVE  inflight'[v] = c \/ Settled(c.episode)'
  BY <1>1, <1>2, <1>3
<1> QED  BY <1>3, NothingNewHeld

\* A shutdown in a pipe is no command.
LEMMA ShutdownIsNotHeld ==
    ASSUME CoreInv, UNCHANGED toWorker \/ SendShutdown
    PROVE  \A v \in Worker, c \in Command :
               (\E i \in DOMAIN toWorker'[v] : toWorker'[v][i] = c) =>
               (\E i \in DOMAIN toWorker[v] : toWorker[v][i] = c)
<1> SUFFICES ASSUME NEW v \in Worker, NEW c \in Command, NEW i \in DOMAIN toWorker'[v],
                    toWorker'[v][i] = c
             PROVE  i \in DOMAIN toWorker[v] /\ toWorker[v][i] = c
  OBVIOUS
<1>1. toWorker[v] \in Seq(Command \cup {Shutdown}) /\ Shutdown \in Command \cup {Shutdown}
  BY DEF CoreInv, TypeOK
<1>2. toWorker'[v] = toWorker[v] \/ toWorker'[v] = Append(toWorker[v], Shutdown)
  BY DEF SendShutdown
<1> QED  BY <1>1, <1>2, AppendProperties, LenProperties, NoCommandIsNone

\* What a relaunch, or a failed one, leaves in the worker's hands: nothing.
LEMMA StoppedHoldsNothing ==
    ASSUME CoreInv, WorkInv, NEW w \in Worker,
           \/ Relaunched(w)
           \/ NotRelaunched(w) /\ (UNCHANGED toWorker \/ SendShutdown)
    PROVE  /\ \A c \in Command : ~Holding(w, c)'
           /\ \A v \in Worker, c \in Command : Holding(v, c)' => Holding(v, c)
           /\ RunningHasTask'
<1> USE DEF CoreInv, TypeOK
<1>1. CASE Relaunched(w)
  <2>1. /\ proc'[w] = "loading" /\ toWorker'[w] = << >>
        /\ \A v \in Worker : v # w =>
              proc'[v] = proc[v] /\ task'[v] = task[v] /\ toWorker'[v] = toWorker[v]
    BY <1>1 DEF Relaunched, StartProcess
  <2>2. \A c \in Command : ~Holding(w, c)'
    BY <2>1 DEF Holding, Alive
  <2>3. \A v \in Worker, c \in Command : v # w /\ Holding(v, c)' => Holding(v, c)
    BY <2>1 DEF Holding, Alive
  <2>4. RunningHasTask'
    BY <2>1 DEF WorkInv, RunningHasTask
  <2> QED  BY <2>2, <2>3, <2>4
<1>2. CASE NotRelaunched(w) /\ (UNCHANGED toWorker \/ SendShutdown)
  <2>1. /\ proc'[w] = "dead"
        /\ \A v \in Worker : v # w => proc'[v] = proc[v] /\ task'[v] = task[v]
    BY <1>2 DEF NotRelaunched
  <2> QED  BY <1>2, <2>1, ShutdownIsNotHeld DEF Holding, Alive, WorkInv, RunningHasTask
<1> QED  BY <1>1, <1>2

LEMMA LostWorkerKeepsWork ==
    ASSUME CoreInv, EpisodeConserved, WorkInv, Next, NEW w \in Worker,
           NoticeExit(w) \/ Timeout(w)
    PROVE  WorkInv'
<1>1. LoseWorker(w) /\ TakeBack(w, FALSE) /\ \A e \in Episode : Settled(e) => Settled(e)'
  BY SettledStays DEF NoticeExit, Timeout, LoseWorker
<1>2. CASE Relaunched(w) \/ (NotRelaunched(w) /\ UNCHANGED <<toWorker, toPool>>)
  BY <1>1, <1>2, StoppedHoldsNothing, LossKeepsWork
<1>3. CASE ~MayRelaunch(w, FALSE) /\ UNCHANGED procVars
  <2>1. /\ \A v \in Worker, c \in Command : Holding(v, c)' => Holding(v, c)
        /\ RunningHasTask'
    BY <1>3 DEF procVars, Holding, Alive, WorkInv, RunningHasTask
  <2> QED  BY <1>1, <1>3, <2>1, LossKeepsWork
<1> QED  BY <1>1, <1>2, <1>3 DEF LoseWorker

LEMMA ReceiveFailureKeepsWork ==
    ASSUME CoreInv, EpisodeConserved, WorkInv, Next, NEW w \in Worker, ReceiveFailure(w)
    PROVE  WorkInv'
<1> DEFINE f == Head(toPool[w]).fatal
<1>1. Head(toPool[w]) \in Response
  BY HeadTailProperties DEF ReceiveFailure, CoreInv, TypeOK
<1>2. /\ f \in BOOLEAN /\ TakeBack(w, f)
      /\ \A e \in Episode : Settled(e) => Settled(e)'
  BY <1>1, SettledStays DEF ReceiveFailure, Response
<1>3. CASE Relaunched(w) \/ (NotRelaunched(w) /\ SendShutdown)
  BY <1>2, <1>3, StoppedHoldsNothing, LossKeepsWork
<1>4. CASE ~MayRelaunch(w, f) /\ UNCHANGED <<proc, task, toWorker>>
  <2>1. /\ \A v \in Worker, c \in Command : Holding(v, c)' => Holding(v, c)
        /\ RunningHasTask'
    BY <1>4 DEF Holding, Alive, WorkInv, RunningHasTask
  <2> HIDE DEF f
  <2> QED  BY <1>2, <1>4, <2>1, LossKeepsWork
<1> QED  BY <1>3, <1>4 DEF ReceiveFailure

\* An answered command stays in nobody's books: its episode is settled.
LEMMA ReceiveOutcomeKeepsWork ==
    ASSUME CoreInv, WorkInv, Next, NEW w \in Worker, ReceiveOutcome(w)
    PROVE  WorkInv'
<1> DEFINE m == Head(toPool[w])
<1>1. m \in Response /\ inflight[w] = m.command
  BY HeadTailProperties DEF ReceiveOutcome, CoreInv, TypeOK
<1>2. /\ UNCHANGED <<proc, task, toWorker>>
      /\ inflight' = [inflight EXCEPT ![w] = NoCommand]
      /\ outcomes' = [outcomes EXCEPT ![m.command.episode] =
                          [status |-> m.status, attempt |-> m.command.attempt]]
  BY DEF ReceiveOutcome
<1>3. ASSUME NEW c \in Command, inflight[w] = c PROVE Settled(c.episode)'
  <2>1. outcomes'[c.episode].status = m.status /\ m.status \in Result
    BY <1>1, <1>2, <1>3 DEF Response, Command, CoreInv, TypeOK
  <2> QED  BY <2>1 DEF Settled, NoOutcome, Result
<1>4. \A v \in Worker : v # w => inflight'[v] = inflight[v]
  BY <1>2 DEF CoreInv, TypeOK
<1>5. \A v \in Worker, c \in Command : inflight[v] = c => inflight'[v] = c \/ Settled(c.episode)'
  BY <1>3, <1>4
<1>6. /\ \A v \in Worker, c \in Command : Holding(v, c)' => Holding(v, c)
      /\ RunningHasTask'
  BY <1>2 DEF Holding, Alive, WorkInv, RunningHasTask
<1> QED  BY <1>5, <1>6, SettledStays, NothingNewHeld

\* The other steps of the coordinator leave its books alone and hand out nothing.
LEMMA OtherStepsKeepWork ==
    ASSUME CoreInv, WorkInv, Next,
           \/ GiveUp \/ Finish \/ Interrupt \/ CoordinatorDies \/ StopWorkers
           \/ \E w \in Worker : Launch(w) \/ ReceiveReady(w)
    PROVE  WorkInv'
<1>1. UNCHANGED inflight /\ \A e \in Episode : Settled(e) => Settled(e)'
  BY SettledStays DEF GiveUp, Finish, Interrupt, CoordinatorDies, StopWorkers, Launch, ReceiveReady
<1>2. ASSUME \A v \in Worker, c \in Command : Holding(v, c)' => Holding(v, c), RunningHasTask'
      PROVE  WorkInv'
  BY <1>1, <1>2, NothingNewHeld
<1>3. CASE GiveUp \/ CoordinatorDies \/ \E w \in Worker : ReceiveReady(w)
  <2>1. UNCHANGED <<proc, task, toWorker>>
    BY <1>3 DEF GiveUp, CoordinatorDies, ReceiveReady, procVars
  <2> QED  BY <1>2, <2>1 DEF Holding, Alive, WorkInv, RunningHasTask
<1>4. CASE Finish \/ Interrupt
  <2>1. UNCHANGED <<proc, task>> /\ SendShutdown
    BY <1>4 DEF Finish, Interrupt
  <2>2. \A v \in Worker, c \in Command : Holding(v, c)' => Holding(v, c)
    BY <2>1, ShutdownIsNotHeld DEF Holding, Alive
  <2>3. RunningHasTask'
    BY <2>1 DEF WorkInv, RunningHasTask
  <2> QED  BY <1>2, <2>2, <2>3
<1>5. CASE StopWorkers
  <2>1. \A v \in Worker : ~Alive(v)'
    BY <1>5 DEF StopWorkers, Alive
  <2> QED  BY <1>2, <2>1 DEF Holding, Alive, RunningHasTask
<1>6. ASSUME NEW w \in Worker, Launch(w) PROVE WorkInv'
  <2>1. /\ proc'[w] = "loading" /\ toWorker'[w] = << >>
        /\ \A v \in Worker : v # w =>
              proc'[v] = proc[v] /\ task'[v] = task[v] /\ toWorker'[v] = toWorker[v]
    BY <1>6 DEF Launch, StartProcess, CoreInv, TypeOK
  <2>2. \A c \in Command : ~Holding(w, c)'
    BY <2>1 DEF Holding, Alive
  <2>3. \A v \in Worker, c \in Command : v # w /\ Holding(v, c)' => Holding(v, c)
    BY <2>1 DEF Holding, Alive
  <2>4. RunningHasTask'
    BY <2>1 DEF WorkInv, RunningHasTask
  <2> QED  BY <1>2, <2>2, <2>3, <2>4
<1> QED  BY <1>3, <1>4, <1>5, <1>6

LEMMA WorkNext == CoreInv /\ EpisodeConserved /\ WorkInv /\ [Next]_vars => WorkInv'
<1> SUFFICES ASSUME CoreInv, EpisodeConserved, WorkInv, [Next]_vars PROVE WorkInv'
  OBVIOUS
<1>1. CASE UNCHANGED vars
  BY <1>1 DEF vars, coordVars, procVars, WorkInv, HeldIsExpected, HeldByOne, RunningHasTask,
              Holding, Alive, Settled
<1>2. CASE Next
  BY <1>2, ProcessKeepsWork, DispatchKeepsWork, LostWorkerKeepsWork, ReceiveFailureKeepsWork,
     ReceiveOutcomeKeepsWork, OtherStepsKeepWork DEF Next, CoordinatorStep
<1> QED  BY <1>1, <1>2

\* Timeouts, relaunches, late answers and crashes of the coordinator included,
\* no two processes ever execute the same episode.
THEOREM EpisodesAreExclusive == Spec => []ExclusiveEpisode
<1>1. Init => CoreInv /\ EpisodeConserved /\ WorkInv
  BY CoreInit, ConservedInit, WorkInit
<1>2. CoreInv /\ EpisodeConserved /\ WorkInv /\ [Next]_vars
          => (CoreInv /\ EpisodeConserved /\ WorkInv)'
  BY CoreNext, ConservedNext, WorkNext
<1> QED  BY <1>1, <1>2, WorkIsExclusive, PTL DEF Spec

-----------------------------------------------------------------------------
(* What a worker says, and what is in its hands *)

Watching(w) == phase[w] \notin {"absent", "retired"}
CommandsIn(w) == {i \in DOMAIN toWorker[w] : toWorker[w][i] # Shutdown}
AskedFor(w, c) == phase[w] = "busy" /\ inflight[w] = c /\ toPool[w] = << >>

Fits(w, m) ==
    /\ m.kind = "ready" => phase[w] = "starting"
    /\ m.kind = "outcome" => phase[w] = "busy" /\ inflight[w] = m.command
    /\ m.kind = "failure" => phase[w] # "idle" /\ inflight[w] = m.command

\* A watched worker owes one answer at most, and either it is in the pipe or the
\* worker still has in hand what it is asked for, and nothing else.
OneAnswer(w) == toPool[w] # << >> => Len(toPool[w]) = 1 /\ Fits(w, toPool[w][1])

Conversation(w) ==
    /\ OneAnswer(w)
    /\ phase[w] = "idle" => toPool[w] = << >>
    /\ proc[w] = "loading" => phase[w] = "starting" /\ toPool[w] = << >>
    /\ proc[w] = "running" => AskedFor(w, task[w]) /\ CommandsIn(w) = {}
    /\ \A i \in CommandsIn(w) : AskedFor(w, toWorker[w][i]) /\ CommandsIn(w) = {i}

\* Who was retired with work in hand, was retired because all is settled.
LeftAlone(w) ==
    \/ ~Alive(w)
    \/ proc[w] # "running" /\ CommandsIn(w) = {}
    \/ AllSettled

Talk(w) ==
    /\ phase[w] = "absent" => proc[w] = "none"
    /\ Watching(w) => Conversation(w)
    /\ phase[w] = "retired" => LeftAlone(w)

TalkInv == \A w \in Worker : Talk(w)

LEMMA TalkInit == Init => TalkInv
BY DEF Init, TalkInv, Talk, Watching, Conversation, OneAnswer, LeftAlone, CommandsIn, Alive

LEMMA TalkIsExpected == TypeOK /\ TalkInv => MessagesExpected
<1> SUFFICES ASSUME TypeOK, TalkInv, NEW w \in Worker,
                    phase[w] \notin {"absent", "retired"}, toPool[w] # << >>
             PROVE  Fits(w, Head(toPool[w]))
  BY DEF MessagesExpected, Fits
<1>1. Head(toPool[w]) = toPool[w][1]
  BY HeadTailProperties DEF TypeOK
<1> QED  BY <1>1 DEF TalkInv, Talk, Watching, Conversation, OneAnswer

LEMMA TalkIsUseful ==
    CoreInv /\ EpisodeConserved /\ WorkInv /\ TalkInv => NoWorkOnSettledEpisode
<1> SUFFICES ASSUME CoreInv, EpisodeConserved, WorkInv, TalkInv, NEW w \in Worker,
                    proc[w] = "running", Settled(task[w].episode)
             PROVE  AllSettled
  BY DEF NoWorkOnSettledEpisode
<1>1. task[w] \in Command /\ task[w].episode \in Episode
  BY DEF WorkInv, RunningHasTask, Command
<1>2. phase[w] # "absent" /\ Talk(w) /\ Alive(w)
  BY DEF TalkInv, Talk, Alive
<1>3. ~Watching(w)
  <2> SUFFICES ASSUME Watching(w) PROVE FALSE
    OBVIOUS
  <2>1. inflight[w] = task[w]
    BY <1>2 DEF Talk, Conversation, AskedFor
  <2> QED  BY <1>1, <2>1, NoCommandIsNone DEF EpisodeConserved, InFlight
<1> QED  BY <1>2, <1>3 DEF Talk, Watching, LeftAlone

\* What a shutdown in its pipe, or the settling of an episode, changes for a
\* worker: nothing.
LEMMA TalkFrame ==
    ASSUME CoreInv, TalkInv, NEW v \in Worker, AllSettled => AllSettled',
           phase'[v] = phase[v], inflight'[v] = inflight[v], toPool'[v] = toPool[v],
           task'[v] = task[v], proc'[v] = proc[v],
           toWorker'[v] = toWorker[v] \/ toWorker'[v] = Append(toWorker[v], Shutdown)
    PROVE  Talk(v)'
<1>1. CommandsIn(v)' = CommandsIn(v) /\ \A i \in CommandsIn(v) : toWorker'[v][i] = toWorker[v][i]
  <2>1. toWorker[v] \in Seq(Command \cup {Shutdown}) /\ Shutdown \in Command \cup {Shutdown}
    BY DEF CoreInv, TypeOK
  <2>2. CASE toWorker'[v] = Append(toWorker[v], Shutdown)
    <3>1. /\ DOMAIN toWorker'[v] = 1..(Len(toWorker[v]) + 1)
          /\ DOMAIN toWorker[v] = 1..Len(toWorker[v]) /\ Len(toWorker[v]) \in Nat
          /\ \A i \in 1..Len(toWorker[v]) : toWorker'[v][i] = toWorker[v][i]
          /\ toWorker'[v][Len(toWorker[v]) + 1] = Shutdown
      BY <2>1, <2>2, AppendProperties, LenProperties
    <3> QED  BY <3>1 DEF CommandsIn
  <2> QED  BY <2>2 DEF CommandsIn
<1>2. Talk(v)
  BY DEF TalkInv
<1>3. /\ OneAnswer(v)' = OneAnswer(v)
      /\ \A c : AskedFor(v, c)' = AskedFor(v, c)
  BY DEF OneAnswer, Fits, AskedFor
<1> QED  BY <1>1, <1>2, <1>3 DEF Talk, Watching, Conversation, LeftAlone, Alive, AskedFor

\* The steps of one worker leave the others as they are.
LEMMA OthersTalk ==
    ASSUME CoreInv, TalkInv, NEW w \in Worker, AllSettled => AllSettled', Talk(w)',
           \A v \in Worker : v # w =>
               /\ phase'[v] = phase[v] /\ inflight'[v] = inflight[v] /\ toPool'[v] = toPool[v]
               /\ task'[v] = task[v] /\ proc'[v] = proc[v]
               /\ toWorker'[v] = toWorker[v] \/ toWorker'[v] = Append(toWorker[v], Shutdown)
    PROVE  TalkInv'
BY TalkFrame DEF TalkInv

\* A worker with an answer in its pipe, or with nothing asked of it, has its
\* hands empty.
LEMMA AnsweredHoldsNothing ==
    ASSUME TalkInv, NEW w \in Worker, Watching(w), phase[w] # "busy" \/ toPool[w] # << >>
    PROVE  proc[w] # "running" /\ CommandsIn(w) = {}
BY DEF TalkInv, Talk, Conversation, AskedFor

\* The answer is said once, and fits what the worker was asked.
LEMMA RespondTalks ==
    ASSUME CoreInv, TalkInv, NEW w \in Worker, NEW r \in Response,
           NEW n \in {"waiting", "exiting"}, Respond(w, r, n),
           proc[w] \in {"loading", "running"}, Watching(w) => Fits(w, r)
    PROVE  TalkInv'
<1>1. /\ UNCHANGED <<phase, inflight, toWorker, outcomes>>
      /\ proc'[w] \in {"waiting", "exiting"}
      /\ toPool'[w] = toPool[w] \/ toPool'[w] = Append(toPool[w], r)
      /\ \A v \in Worker : v # w =>
            toPool'[v] = toPool[v] /\ task'[v] = task[v] /\ proc'[v] = proc[v]
  BY DEF Respond, coordVars, CoreInv, TypeOK
<1>2. (Watching(w) <=> Watching(w)') /\ (AllSettled <=> AllSettled') /\ CommandsIn(w)' = CommandsIn(w)
  BY <1>1 DEF Watching, AllSettled, Settled, CommandsIn
<1>3. phase[w] = "absent" => proc[w] = "none"
  BY DEF TalkInv, Talk
<1>4. ASSUME Watching(w) PROVE Conversation(w)'
  <2>1. toPool[w] = << >> /\ CommandsIn(w) = {} /\ (r.kind \in {"ready", "outcome", "failure"})
    BY <1>4 DEF TalkInv, Talk, Conversation, AskedFor, Response
  <2>2. phase[w] # "idle"
    BY <1>4 DEF TalkInv, Talk, Conversation, AskedFor
  <2>3. toPool'[w] = << >> \/ (Len(toPool'[w]) = 1 /\ toPool'[w][1] = r)
    <3>1. Len(Append(toPool[w], r)) = 1 /\ Append(toPool[w], r)[1] = r
      BY <2>1, EmptySeq, AppendProperties DEF CoreInv, TypeOK
    <3> QED  BY <1>1, <2>1, <3>1
  <2>4. Fits(w, r)'
    BY <1>1, <1>4 DEF Fits
  <2>5. OneAnswer(w)'
    BY <2>3, <2>4 DEF OneAnswer, Fits
  <2> QED  BY <1>1, <1>2, <2>1, <2>2, <2>5 DEF Conversation
<1>5. ASSUME phase[w] = "retired" PROVE LeftAlone(w)'
  BY <1>1, <1>2, <1>5 DEF TalkInv, Talk, LeftAlone, Alive
<1>6. Talk(w)'
  BY <1>1, <1>2, <1>3, <1>4, <1>5 DEF Talk
<1> QED  BY <1>1, <1>2, <1>6, OthersTalk

LEMMA WorkerStepTalks ==
    ASSUME CoreInv, WorkInv, TalkInv, NEW w \in Worker, WorkerStep(w) \/ ProcessDies(w)
    PROVE  TalkInv'
<1> USE DEF CoreInv, TypeOK
<1>1. CASE BackendLoaded(w)
  <2>1. Watching(w) => Fits(w, Ready)
    BY <1>1 DEF BackendLoaded, TalkInv, Talk, Conversation, Fits, Ready
  <2> QED  BY <1>1, <2>1, RespondTalks, ReadyIsResponse DEF BackendLoaded
<1>2. CASE BackendFails(w)
  <2>1. PICK f \in BOOLEAN : Respond(w, Failure(NoCommand, f), "exiting")
    BY <1>2 DEF BackendFails
  <2>2. Failure(NoCommand, f) \in Response
    BY ResponseTypes DEF Result
  <2>3. Watching(w) => Fits(w, Failure(NoCommand, f))
    BY <1>2 DEF BackendFails, TalkInv, Talk, Conversation, Fits, Failure, BusyHolds
  <2> QED  BY <1>2, <2>1, <2>2, <2>3, RespondTalks DEF BackendFails
<1>3. CASE FinishEpisode(w)
  <2>1. PICK s \in Result, f \in BOOLEAN :
            Respond(w, Report(task[w], s, f), IF f THEN "exiting" ELSE "waiting")
    BY <1>3 DEF FinishEpisode
  <2>2. Report(task[w], s, f) \in Response
    BY ResponseTypes
  <2>3. Watching(w) => Fits(w, Report(task[w], s, f))
    BY <1>3 DEF FinishEpisode, TalkInv, Talk, Conversation, AskedFor, Fits, Report
  <2> QED  BY <1>3, <2>1, <2>2, <2>3, RespondTalks DEF FinishEpisode
<1>4. CASE EpisodeRaises(w)
  <2>1. PICK f \in BOOLEAN : Respond(w, Failure(task[w], f), "exiting")
    BY <1>4 DEF EpisodeRaises
  <2>2. Failure(task[w], f) \in Response
    BY ResponseTypes DEF Result
  <2>3. Watching(w) => Fits(w, Failure(task[w], f))
    BY <1>4 DEF EpisodeRaises, TalkInv, Talk, Conversation, AskedFor, Fits, Failure
  <2> QED  BY <1>4, <2>1, <2>2, <2>3, RespondTalks DEF EpisodeRaises
<1>5. CASE TakeCommand(w)
  <2>1. /\ toWorker[w] \in Seq(Command \cup {Shutdown}) /\ toWorker[w] # << >>
        /\ proc[w] = "waiting"
    BY <1>5 DEF TakeCommand
  <2>2. /\ Head(toWorker[w]) = toWorker[w][1] /\ 1 \in DOMAIN toWorker[w]
        /\ \A i \in DOMAIN Tail(toWorker[w]) :
              i + 1 \in DOMAIN toWorker[w] /\ Tail(toWorker[w])[i] = toWorker[w][i + 1]
        /\ DOMAIN Tail(toWorker[w]) \subseteq Nat \ {0}
    BY <2>1, TailFacts, HeadTailProperties, LenProperties
  <2>3. /\ UNCHANGED <<phase, inflight, toPool, outcomes>>
        /\ toWorker'[w] = Tail(toWorker[w])
        /\ \/ toWorker[w][1] = Shutdown /\ proc'[w] = "exiting"
           \/ toWorker[w][1] # Shutdown /\ proc'[w] = "running" /\ task'[w] = toWorker[w][1]
        /\ \A v \in Worker : v # w =>
              toWorker'[v] = toWorker[v] /\ task'[v] = task[v] /\ proc'[v] = proc[v]
    BY <1>5, <2>2 DEF TakeCommand, coordVars
  <2>4. /\ \A i \in CommandsIn(w)' : i + 1 \in CommandsIn(w) /\ toWorker'[w][i] = toWorker[w][i + 1]
        /\ toWorker[w][1] # Shutdown => 1 \in CommandsIn(w)
        /\ CommandsIn(w)' \subseteq Nat \ {0}
    BY <2>2, <2>3 DEF CommandsIn
  <2>5. (AllSettled <=> AllSettled') /\ \A c : AskedFor(w, c)' = AskedFor(w, c)
    BY <2>3 DEF AllSettled, Settled, AskedFor
  <2>6. ASSUME Watching(w) PROVE Conversation(w)'
    <3>1. Conversation(w)
      BY <2>6 DEF TalkInv, Talk
    <3>2. OneAnswer(w)'
      BY <2>3, <3>1 DEF Conversation, OneAnswer, Fits
    <3>3. proc'[w] = "running" => AskedFor(w, task[w])' /\ CommandsIn(w)' = {}
      BY <2>3, <2>4, <2>5, <3>1 DEF Conversation, AskedFor
    <3>4. ASSUME NEW i \in CommandsIn(w)' PROVE AskedFor(w, toWorker[w][i])' /\ CommandsIn(w)' = {i}
      <4>1. CommandsIn(w) = {i + 1} /\ AskedFor(w, toWorker[w][i + 1])
        BY <2>4, <3>1, <3>4 DEF Conversation
      <4>2. \A j \in CommandsIn(w)' : j = i
        BY <2>4, <4>1
      <4> QED  BY <2>3, <2>4, <3>4, <4>1, <4>2 DEF AskedFor
    <3> QED  BY <2>3, <3>1, <3>2, <3>3, <3>4 DEF Conversation
  <2>7. ASSUME phase[w] = "retired" PROVE LeftAlone(w)'
    BY <2>1, <2>3, <2>4, <2>5, <2>7 DEF TalkInv, Talk, LeftAlone, Alive
  <2>8. Talk(w)'
    BY <2>1, <2>3, <2>6, <2>7 DEF TalkInv, Talk, Watching
  <2> QED  BY <2>3, <2>5, <2>8, OthersTalk
<1>6. CASE CoordinatorGone(w) \/ ProcessEnds(w) \/ ProcessDies(w)
  <2>1. /\ UNCHANGED <<phase, inflight, toPool, toWorker, outcomes>>
        /\ proc'[w] \in {"exiting", "dead"} /\ Alive(w)
        /\ \A v \in Worker : v # w => task'[v] = task[v] /\ proc'[v] = proc[v]
    BY <1>6 DEF CoordinatorGone, ProcessEnds, ProcessDies, Alive, coordVars
  <2>2. /\ (AllSettled <=> AllSettled') /\ CommandsIn(w)' = CommandsIn(w)
        /\ OneAnswer(w)' = OneAnswer(w)
        /\ \A c : AskedFor(w, c)' = AskedFor(w, c)
    BY <2>1 DEF AllSettled, Settled, AskedFor, CommandsIn, OneAnswer, Fits
  <2>3. Talk(w)'
    BY <2>1, <2>2 DEF TalkInv, Talk, Watching, Conversation, LeftAlone, Alive, AskedFor
  <2> QED  BY <2>1, <2>2, <2>3, OthersTalk
<1> QED  BY <1>1, <1>2, <1>3, <1>4, <1>5, <1>6 DEF WorkerStep

\* A fresh process has nothing to say and nothing to do; a dead one neither.
LEMMA FreshTalks ==
    ASSUME NEW w \in Worker, phase'[w] = "starting", proc'[w] = "loading",
           toWorker'[w] = << >>, toPool'[w] = << >>
    PROVE  Talk(w)'
BY DEF Talk, Watching, Conversation, OneAnswer, CommandsIn

LEMMA LostWorkerTalks ==
    ASSUME CoreInv, TalkInv, Next, NEW w \in Worker, NoticeExit(w) \/ Timeout(w)
    PROVE  TalkInv'
<1> USE DEF CoreInv, TypeOK
<1>1. LoseWorker(w) /\ Watching(w) /\ (AllSettled => AllSettled')
  BY SettledStays DEF NoticeExit, Timeout, Watched, Watching, AllSettled
<1>2. \A v \in Worker : v # w =>
          /\ phase'[v] = phase[v] /\ inflight'[v] = inflight[v] /\ toPool'[v] = toPool[v]
          /\ task'[v] = task[v] /\ proc'[v] = proc[v] /\ toWorker'[v] = toWorker[v]
  BY <1>1 DEF LoseWorker, TakeBack, Relaunched, NotRelaunched, StartProcess, procVars
<1>3. Talk(w)'
  <2>1. CASE Relaunched(w)
    BY <2>1, FreshTalks DEF Relaunched, StartProcess
  <2>2. CASE NotRelaunched(w)
    BY <2>2 DEF NotRelaunched, Talk, Watching, LeftAlone, Alive
  <2>3. CASE /\ ~MayRelaunch(w, FALSE) /\ phase' = [phase EXCEPT ![w] = "retired"]
             /\ UNCHANGED procVars
    <3>1. CommandsIn(w)' = CommandsIn(w) /\ (Alive(w)' <=> Alive(w)) /\ proc'[w] = proc[w]
      BY <2>3 DEF CommandsIn, Alive, procVars
    <3>2. CASE phase[w] = "busy"
      <4>1. AllSettled'
        BY <2>3, <3>2 DEF MayRelaunch, AllSettled, Settled
      <4> QED  BY <2>3, <4>1 DEF Talk, Watching, LeftAlone
    <3>3. CASE phase[w] # "busy"
      BY <1>1, <2>3, <3>1, <3>3, AnsweredHoldsNothing DEF Talk, Watching, LeftAlone
    <3> QED  BY <3>2, <3>3
  <2> QED  BY <1>1, <2>1, <2>2, <2>3 DEF LoseWorker
<1> QED  BY <1>1, <1>2, <1>3, OthersTalk

LEMMA ReceiveFailureTalks ==
    ASSUME CoreInv, TalkInv, Next, NEW w \in Worker, ReceiveFailure(w)
    PROVE  TalkInv'
<1> USE DEF CoreInv, TypeOK
<1> DEFINE f == Head(toPool[w]).fatal
<1>1. TakeBack(w, f) /\ Watching(w) /\ toPool[w] # << >> /\ (AllSettled => AllSettled')
  BY SettledStays DEF ReceiveFailure, Watched, Watching, AllSettled
<1>2. \A v \in Worker : v # w => inflight'[v] = inflight[v]
  BY <1>1 DEF TakeBack
<1>3. CASE Relaunched(w)
  <2>1. Talk(w)'
    BY <1>3, FreshTalks DEF Relaunched, StartProcess
  <2> QED  BY <1>1, <1>2, <1>3, <2>1, OthersTalk DEF Relaunched, StartProcess
<1>4. CASE NotRelaunched(w) /\ SendShutdown /\ UNCHANGED toPool
  <2>1. Talk(w)'
    BY <1>4 DEF NotRelaunched, Talk, Watching, LeftAlone, Alive
  <2>2. \A v \in Worker : v # w =>
            /\ phase'[v] = phase[v] /\ toPool'[v] = toPool[v] /\ task'[v] = task[v]
            /\ proc'[v] = proc[v]
            /\ toWorker'[v] = toWorker[v] \/ toWorker'[v] = Append(toWorker[v], Shutdown)
    BY <1>4 DEF NotRelaunched, SendShutdown
  <2> QED  BY <1>1, <1>2, <2>1, <2>2, OthersTalk
<1>5. CASE /\ phase' = [phase EXCEPT ![w] = "retired"]
           /\ toPool' = [toPool EXCEPT ![w] = Tail(@)]
           /\ UNCHANGED <<proc, task, toWorker>>
  <2>1. proc[w] # "running" /\ CommandsIn(w) = {}
    BY <1>1, AnsweredHoldsNothing
  <2>2. Talk(w)'
    BY <1>5, <2>1 DEF Talk, Watching, LeftAlone, CommandsIn
  <2> QED  BY <1>1, <1>2, <1>5, <2>2, OthersTalk
<1> QED  BY <1>3, <1>4, <1>5 DEF ReceiveFailure

LEMMA ReceiveTalks ==
    ASSUME CoreInv, TalkInv, Next, NEW w \in Worker, ReceiveReady(w) \/ ReceiveOutcome(w)
    PROVE  TalkInv'
<1> USE DEF CoreInv, TypeOK
<1>1. Watching(w) /\ toPool[w] # << >> /\ (AllSettled => AllSettled')
  BY SettledStays DEF ReceiveReady, ReceiveOutcome, Watched, Watching, AllSettled
<1>2. /\ proc[w] # "running" /\ CommandsIn(w) = {} /\ proc[w] # "loading"
      /\ Len(toPool[w]) = 1
  BY <1>1, AnsweredHoldsNothing DEF TalkInv, Talk, Conversation, OneAnswer
<1>3. toPool'[w] = << >>
  BY <1>1, <1>2, HeadTailProperties, EmptySeq DEF ReceiveReady, ReceiveOutcome
<1>4. /\ phase'[w] \in {"idle", "retired"}
      /\ UNCHANGED <<proc, task, toWorker>>
      /\ \A v \in Worker : v # w =>
            phase'[v] = phase[v] /\ inflight'[v] = inflight[v] /\ toPool'[v] = toPool[v]
  BY DEF ReceiveReady, ReceiveOutcome
<1>5. Talk(w)'
  BY <1>2, <1>3, <1>4 DEF Talk, Watching, Conversation, OneAnswer, CommandsIn, LeftAlone
<1> QED  BY <1>1, <1>4, <1>5, OthersTalk

LEMMA DispatchTalks ==
    ASSUME CoreInv, TalkInv, NEW w \in Worker, Dispatch(w)
    PROVE  TalkInv'
<1> USE DEF CoreInv, TypeOK
<1> DEFINE c == Head(pending)
<1>1. c \in Command /\ c # Shutdown
  BY TailFacts, NoCommandIsNone DEF Dispatch
<1>2. /\ toWorker'[w] = Append(toWorker[w], c) /\ inflight'[w] = c /\ phase'[w] = "busy"
      /\ UNCHANGED <<proc, task, toPool, outcomes>>
      /\ \A v \in Worker : v # w =>
            phase'[v] = phase[v] /\ inflight'[v] = inflight[v] /\ toWorker'[v] = toWorker[v]
  BY DEF Dispatch
<1> HIDE DEF c
<1>3. Watching(w) /\ phase[w] = "idle"
  BY DEF Dispatch, Watching
<1>4. toPool[w] = << >> /\ proc[w] \notin {"running", "loading"} /\ CommandsIn(w) = {}
  BY <1>3, AnsweredHoldsNothing DEF TalkInv, Talk, Conversation
<1>5. CommandsIn(w)' = {Len(toWorker[w]) + 1} /\ toWorker'[w][Len(toWorker[w]) + 1] = c
  <2>1. toWorker[w] \in Seq(Command \cup {Shutdown}) /\ c \in Command \cup {Shutdown}
    BY <1>1
  <2>2. /\ DOMAIN toWorker'[w] = 1..(Len(toWorker[w]) + 1)
        /\ DOMAIN toWorker[w] = 1..Len(toWorker[w]) /\ Len(toWorker[w]) \in Nat
        /\ \A i \in 1..Len(toWorker[w]) : toWorker'[w][i] = toWorker[w][i]
        /\ toWorker'[w][Len(toWorker[w]) + 1] = c
    BY <1>2, <2>1, AppendProperties, LenProperties
  <2>3. \A i \in 1..Len(toWorker[w]) : toWorker'[w][i] = Shutdown
    BY <1>4, <2>2 DEF CommandsIn
  <2>4. \A i \in CommandsIn(w)' : i = Len(toWorker[w]) + 1
    BY <2>2, <2>3 DEF CommandsIn
  <2>5. Len(toWorker[w]) + 1 \in CommandsIn(w)'
    BY <1>1, <2>2 DEF CommandsIn
  <2> QED  BY <2>2, <2>4, <2>5
<1>6. Talk(w)'
  BY <1>2, <1>4, <1>5 DEF Talk, Watching, Conversation, OneAnswer, AskedFor
<1>7. AllSettled => AllSettled'
  BY <1>2 DEF AllSettled, Settled
<1> QED  BY <1>2, <1>6, <1>7, OthersTalk

LEMMA OtherStepsTalk ==
    ASSUME CoreInv, TalkInv, Next,
           \/ GiveUp \/ Finish \/ Interrupt \/ CoordinatorDies \/ StopWorkers
           \/ \E w \in Worker : Launch(w)
    PROVE  TalkInv'
<1> USE DEF CoreInv, TypeOK
<1>1. AllSettled => AllSettled'
  BY SettledStays DEF AllSettled
<1>2. CASE GiveUp \/ CoordinatorDies
  <2>1. UNCHANGED <<phase, inflight, procVars>>
    BY <1>2 DEF GiveUp, CoordinatorDies
  <2> QED  BY <1>1, <2>1, TalkFrame DEF procVars, TalkInv
<1>3. CASE Finish \/ Interrupt
  <2>1. SendShutdown /\ UNCHANGED <<phase, inflight, proc, task, toPool>>
    BY <1>3 DEF Finish, Interrupt
  <2>2. \A v \in Worker : toWorker'[v] = toWorker[v] \/ toWorker'[v] = Append(toWorker[v], Shutdown)
    BY <2>1 DEF SendShutdown
  <2> QED  BY <1>1, <2>1, <2>2, TalkFrame DEF TalkInv
<1>4. CASE StopWorkers
  <2> SUFFICES ASSUME NEW v \in Worker PROVE Talk(v)'
    BY DEF TalkInv
  <2>1. /\ UNCHANGED <<phase, inflight, toPool, toWorker>>
        /\ ~Alive(v)' /\ (proc[v] = "none" => proc'[v] = "none")
    BY <1>4 DEF StopWorkers, Alive
  <2>2. /\ CommandsIn(v)' = CommandsIn(v)
        /\ OneAnswer(v)' = OneAnswer(v)
        /\ \A c : AskedFor(v, c)' = AskedFor(v, c)
    BY <2>1 DEF AskedFor, CommandsIn, OneAnswer, Fits
  <2> QED  BY <2>1, <2>2 DEF TalkInv, Talk, Watching, Conversation, LeftAlone, Alive, AskedFor
<1>5. ASSUME NEW w \in Worker, Launch(w) PROVE TalkInv'
  <2>1. /\ phase' = [phase EXCEPT ![w] = "starting"] /\ StartProcess(w) /\ UNCHANGED inflight
    BY <1>5 DEF Launch
  <2>2. Talk(w)'
    BY <2>1, FreshTalks DEF StartProcess
  <2> QED  BY <1>1, <2>1, <2>2, OthersTalk DEF StartProcess
<1> QED  BY <1>2, <1>3, <1>4, <1>5

LEMMA TalkNext == CoreInv /\ WorkInv /\ TalkInv /\ [Next]_vars => TalkInv'
<1> SUFFICES ASSUME CoreInv, WorkInv, TalkInv, [Next]_vars PROVE TalkInv'
  OBVIOUS
<1>1. CASE UNCHANGED vars
  <2>1. AllSettled => AllSettled'
    BY <1>1 DEF AllSettled, Settled, vars, coordVars
  <2> QED  BY <1>1, <2>1, TalkFrame DEF vars, coordVars, procVars, TalkInv
<1>2. CASE Next
  BY <1>2, WorkerStepTalks, LostWorkerTalks, ReceiveFailureTalks, ReceiveTalks, DispatchTalks,
     OtherStepsTalk DEF Next, CoordinatorStep
<1> QED  BY <1>1, <1>2

LEMMA TalkAlways == Spec => [](CoreInv /\ EpisodeConserved /\ WorkInv /\ TalkInv)
<1>1. Init => CoreInv /\ EpisodeConserved /\ WorkInv /\ TalkInv
  BY CoreInit, ConservedInit, WorkInit, TalkInit
<1>2. CoreInv /\ EpisodeConserved /\ WorkInv /\ TalkInv /\ [Next]_vars
          => (CoreInv /\ EpisodeConserved /\ WorkInv /\ TalkInv)'
  BY CoreNext, ConservedNext, WorkNext, TalkNext
<1> QED  BY <1>1, <1>2, PTL DEF Spec

\* The coordinator's "unexpected message" errors are unreachable: over every
\* timeout, relaunch and crash, what is at the head of a watched worker's pipe
\* answers what that worker was asked in its present life.
THEOREM NoMessageIsUnexpected == Spec => []MessagesExpected
<1>1. CoreInv /\ TalkInv => MessagesExpected
  BY TalkIsExpected DEF CoreInv
<1> QED  BY <1>1, TalkAlways, PTL

\* A process left alone by a worker's retirement works on at most when every
\* episode has its outcome, so nothing writes into an episode that was reported
\* while the batch still goes on.
THEOREM NothingWorksOnWhatIsSettled == Spec => []NoWorkOnSettledEpisode
BY TalkIsUseful, TalkAlways, PTL

-----------------------------------------------------------------------------
(* The pool implements the batch its callers rely on *)

\* Where the mapping finds an episode, and what it reads there.
MappingReads ==
    /\ \A e \in Episode : Settled(e) =>
          episodeStage[e] = "done" /\ episodeTries[e] = Started(outcomes[e])
    /\ \A w \in Worker : inflight[w] # NoCommand =>
          /\ episodeStage[inflight[w].episode] = "running"
          /\ episodeTries[inflight[w].episode] = inflight[w].attempt
    /\ \A i \in DOMAIN pending :
          /\ episodeStage[pending[i].episode] = "waiting"
          /\ episodeTries[pending[i].episode] = pending[i].attempt - 1

LEMMA MappingIsRead == CoreInv /\ EpisodeConserved => MappingReads
<1> SUFFICES ASSUME CoreInv, EpisodeConserved PROVE MappingReads
  OBVIOUS
<1>1. ASSUME NEW e \in Episode, Settled(e)
      PROVE  episodeStage[e] = "done" /\ episodeTries[e] = Started(outcomes[e])
  BY <1>1 DEF episodeStage, episodeTries
<1>2. ASSUME NEW w \in Worker, inflight[w] # NoCommand
      PROVE  /\ episodeStage[inflight[w].episode] = "running"
             /\ episodeTries[inflight[w].episode] = inflight[w].attempt
  <2> DEFINE x == inflight[w].episode
  <2>1. x \in Episode
    BY <1>2 DEF CoreInv, TypeOK, Command
  <2>2. InFlight(x) /\ ~Settled(x)
    BY <1>2, <2>1 DEF InFlight, EpisodeConserved
  <2>3. Bearer(x) \in Worker /\ inflight[Bearer(x)] # NoCommand /\ inflight[Bearer(x)].episode = x
    BY <1>2 DEF Bearer
  <2>4. Bearer(x) = w
    BY <1>2, <2>3 DEF EpisodeConserved
  <2> QED  BY <2>1, <2>2, <2>4 DEF episodeStage, episodeTries
<1>3. ASSUME NEW i \in DOMAIN pending
      PROVE  /\ episodeStage[pending[i].episode] = "waiting"
             /\ episodeTries[pending[i].episode] = pending[i].attempt - 1
  <2> DEFINE x == pending[i].episode
  <2>1. x \in Episode
    <3>1. pending[i] \in Command
      BY ElementOfSeq, LenProperties DEF CoreInv, TypeOK
    <3> QED  BY <3>1 DEF Command
  <2>2. Queued(x)
    BY DEF Queued
  <2>3. ~InFlight(x) /\ ~Settled(x)
    BY <2>1, <2>2 DEF EpisodeConserved
  <2>4. Place(x) \in DOMAIN pending /\ pending[Place(x)].episode = x
    BY DEF Place
  <2>5. Place(x) = i
    BY <2>4 DEF EpisodeConserved
  <2> QED  BY <2>1, <2>3, <2>5 DEF episodeStage, episodeTries
<1> QED  BY <1>1, <1>2, <1>3 DEF MappingReads

Mapped == EpisodeConserved /\ MappingReads

\* A step that leaves the books of an episode alone leaves its image alone.
LEMMA OthersKeepTheirPlace ==
    ASSUME Mapped, MappingReads', NEW x,
           \A e \in Episode : e # x => outcomes'[e] = outcomes[e],
           \A w \in Worker : inflight[w] # NoCommand /\ inflight[w].episode # x =>
               inflight'[w] = inflight[w],
           \A i \in DOMAIN pending : pending[i].episode # x =>
               \E j \in DOMAIN pending' : pending'[j] = pending[i]
    PROVE  \A e \in Episode : e # x =>
               episodeStage'[e] = episodeStage[e] /\ episodeTries'[e] = episodeTries[e]
<1> SUFFICES ASSUME NEW e \in Episode, e # x
             PROVE  episodeStage'[e] = episodeStage[e] /\ episodeTries'[e] = episodeTries[e]
  OBVIOUS
<1>1. CASE Settled(e)
  BY <1>1 DEF Mapped, MappingReads, Settled
<1>2. CASE InFlight(e)
  <2>1. PICK w \in Worker : inflight[w] # NoCommand /\ inflight[w].episode = e
    BY <1>2 DEF InFlight
  <2>2. inflight'[w] = inflight[w]
    BY <2>1
  <2> QED  BY <2>1, <2>2 DEF Mapped, MappingReads
<1>3. CASE Queued(e)
  <2>1. PICK i \in DOMAIN pending : pending[i].episode = e
    BY <1>3 DEF Queued
  <2>2. PICK j \in DOMAIN pending' : pending'[j] = pending[i]
    BY <2>1
  <2> QED  BY <2>1, <2>2 DEF Mapped, MappingReads
<1> QED  BY <1>1, <1>2, <1>3 DEF Mapped, EpisodeConserved

LEMMA ImageMoves ==
    ASSUME NEW x \in Episode,
           \A e \in Episode : e # x =>
               episodeStage'[e] = episodeStage[e] /\ episodeTries'[e] = episodeTries[e]
    PROVE  /\ episodeStage' = [episodeStage EXCEPT ![x] = episodeStage'[x]]
           /\ episodeTries' = [episodeTries EXCEPT ![x] = episodeTries'[x]]
           /\ episodeTries'[x] = episodeTries[x] => episodeTries' = episodeTries
<1>1. /\ episodeStage = [e \in Episode |-> episodeStage[e]]
      /\ episodeTries = [e \in Episode |-> episodeTries[e]]
  BY DEF episodeStage, episodeTries
<1>2. /\ episodeStage' = [e \in Episode |-> episodeStage'[e]]
      /\ episodeTries' = [e \in Episode |-> episodeTries'[e]]
  BY DEF episodeStage, episodeTries
<1> QED  BY <1>1, <1>2

LEMMA DispatchStarts ==
    ASSUME CoreInv, Mapped, MappingReads', NEW w \in Worker, Dispatch(w)
    PROVE  \E e \in Episode : Batch!Start(e)
<1> DEFINE c == Head(pending)
           x == c.episode
<1>1. /\ pending \in Seq(Command) /\ pending # << >>
      /\ pending' = Tail(pending) /\ outcomes' = outcomes
      /\ pool = "running" /\ pool' = "running"
  BY DEF Dispatch, CoreInv, TypeOK
<1>2. /\ c \in Command /\ c = pending[1] /\ 1 \in DOMAIN pending
      /\ \A i \in DOMAIN pending : i # 1 =>
            i - 1 \in DOMAIN pending' /\ pending'[i - 1] = pending[i]
  BY <1>1, TailFacts
<1>3. /\ inflight[w] = NoCommand /\ inflight'[w] = c
      /\ \A v \in Worker : v # w => inflight'[v] = inflight[v]
  BY DEF Dispatch, CoreInv, TypeOK, BusyHolds
<1>4. x \in Episode /\ c.attempt \in 1..MaxEpisodeAttempts /\ c # NoCommand
  BY <1>2, NoCommandIsNone DEF Command
<1>5. \A e \in Episode : e # x =>
          episodeStage'[e] = episodeStage[e] /\ episodeTries'[e] = episodeTries[e]
  <2>1. \A i \in DOMAIN pending : pending[i].episode # x =>
            \E j \in DOMAIN pending' : pending'[j] = pending[i]
    BY <1>2
  <2>2. \A v \in Worker : inflight[v] # NoCommand => inflight'[v] = inflight[v]
    BY <1>3
  <2>3. \A e \in Episode : e # x => outcomes'[e] = outcomes[e]
    BY <1>1
  <2> HIDE DEF x
  <2> QED  BY <2>1, <2>2, <2>3, OthersKeepTheirPlace
<1>6. episodeStage[x] = "waiting" /\ episodeTries[x] = c.attempt - 1
  BY <1>2 DEF Mapped, MappingReads
<1>7. episodeStage'[x] = "running" /\ episodeTries'[x] = c.attempt
  BY <1>3, <1>4 DEF MappingReads
<1>8. /\ episodeStage' = [episodeStage EXCEPT ![x] = "running"]
      /\ episodeTries' = [episodeTries EXCEPT ![x] = c.attempt]
  BY <1>4, <1>5, <1>7, ImageMoves
<1>9. c.attempt - 1 < MaxEpisodeAttempts /\ (c.attempt - 1) + 1 = c.attempt
  BY <1>4, PoolAssumption
<1>10. batchState = "open" /\ batchState' = "open"
  BY <1>1 DEF batchState
<1>11. episodeTries' = [episodeTries EXCEPT ![x] = episodeTries[x] + 1]
  BY <1>6, <1>8, <1>9
<1>12. Batch!Start(x)
  BY <1>6, <1>8, <1>9, <1>10, <1>11 DEF Batch!Start
<1> QED  BY <1>4, <1>12

\* A dispatched command becomes an outcome of the same attempt.
LEMMA SettleFinishes ==
    ASSUME CoreInv, Mapped, MappingReads', NEW w \in Worker, NEW o \in Outcome,
           pool = "running", pool' \in {"running", "raising"},
           inflight[w] # NoCommand,
           o.status # "not_run", o.attempt = inflight[w].attempt,
           inflight' = [inflight EXCEPT ![w] = NoCommand],
           pending' = pending,
           outcomes' = [outcomes EXCEPT ![inflight[w].episode] = o]
    PROVE  \E e \in Episode : Batch!Finish(e)
<1> DEFINE x == inflight[w].episode
<1>1. x \in Episode
  BY DEF CoreInv, TypeOK, Command
<1>2. \A v \in Worker : v # w => inflight'[v] = inflight[v]
  BY DEF CoreInv, TypeOK
<1>3. outcomes'[x] = o /\ \A e \in Episode : e # x => outcomes'[e] = outcomes[e]
  BY <1>1 DEF CoreInv, TypeOK
<1>4. \A e \in Episode : e # x =>
          episodeStage'[e] = episodeStage[e] /\ episodeTries'[e] = episodeTries[e]
  BY <1>2, <1>3, OthersKeepTheirPlace
<1>5. episodeStage[x] = "running" /\ episodeTries[x] = inflight[w].attempt
  BY DEF Mapped, MappingReads
<1>6. episodeStage'[x] = "done" /\ episodeTries'[x] = inflight[w].attempt
  BY <1>1, <1>3, NoOutcomeIsNone DEF MappingReads, Settled, Started
<1>7. episodeStage' = [episodeStage EXCEPT ![x] = "done"] /\ episodeTries' = episodeTries
  BY <1>1, <1>4, <1>5, <1>6, ImageMoves
<1>8. batchState = "open" /\ batchState' = "open"
  BY DEF batchState
<1>9. Batch!Finish(x)
  BY <1>5, <1>7, <1>8 DEF Batch!Finish
<1> QED  BY <1>1, <1>9

\* A dispatched command goes back in front, one attempt further.
PutBack(w, c) ==
    /\ inflight' = [inflight EXCEPT ![w] = NoCommand]
    /\ pending' = <<c>> \o pending
    /\ outcomes' = outcomes

LEMMA RequeueRequeues ==
    ASSUME CoreInv, Mapped, MappingReads', NEW w \in Worker, NEW c \in Command,
           pool = "running", pool' \in {"running", "raising"},
           inflight[w] # NoCommand, inflight[w].attempt < MaxEpisodeAttempts,
           c.episode = inflight[w].episode,
           c.attempt = inflight[w].attempt + 1,
           PutBack(w, c)
    PROVE  \E e \in Episode : Batch!Requeue(e)
<1> DEFINE x == inflight[w].episode
<1>1. x \in Episode /\ inflight[w].attempt \in Int
  BY PoolAssumption DEF CoreInv, TypeOK, Command
<1>2. \A v \in Worker : v # w => inflight'[v] = inflight[v]
  BY DEF CoreInv, TypeOK, PutBack
<1>3. /\ 1 \in DOMAIN pending' /\ pending'[1] = c
      /\ \A i \in DOMAIN pending : i + 1 \in DOMAIN pending' /\ pending'[i + 1] = pending[i]
  <2>1. pending \in Seq(Command)
    BY DEF CoreInv, TypeOK
  <2>2. /\ DOMAIN pending' = 1..(Len(pending) + 1) /\ pending'[1] = c
        /\ \A i \in DOMAIN pending : pending'[i + 1] = pending[i]
    BY <2>1, PrependFacts DEF PutBack
  <2>3. DOMAIN pending = 1..Len(pending) /\ Len(pending) \in Nat
    BY <2>1, LenProperties
  <2> QED  BY <2>2, <2>3
<1>4. \A e \in Episode : e # x =>
          episodeStage'[e] = episodeStage[e] /\ episodeTries'[e] = episodeTries[e]
  <2>1. \A i \in DOMAIN pending : \E j \in DOMAIN pending' : pending'[j] = pending[i]
    BY <1>3
  <2>2. \A v \in Worker : inflight[v] # NoCommand /\ inflight[v].episode # x =>
            inflight'[v] = inflight[v]
    BY <1>2
  <2>3. \A e \in Episode : e # x => outcomes'[e] = outcomes[e]
    BY DEF PutBack
  <2> HIDE DEF x
  <2> QED  BY <2>1, <2>2, <2>3, OthersKeepTheirPlace
<1>5. episodeStage[x] = "running" /\ episodeTries[x] = inflight[w].attempt
  BY DEF Mapped, MappingReads
<1>6. episodeStage'[x] = "waiting" /\ episodeTries'[x] = c.attempt - 1
  BY <1>3 DEF MappingReads
<1>7. c.attempt - 1 = inflight[w].attempt
  BY <1>1
<1>8. episodeStage' = [episodeStage EXCEPT ![x] = "waiting"] /\ episodeTries' = episodeTries
  BY <1>1, <1>4, <1>5, <1>6, <1>7, ImageMoves
<1>9. batchState = "open" /\ batchState' = "open"
  BY DEF batchState
<1>10. Batch!Requeue(x)
  BY <1>5, <1>8, <1>9 DEF Batch!Requeue
<1> QED  BY <1>1, <1>10

LEMMA BooksStay ==
    ASSUME pending' = pending, inflight' = inflight, outcomes' = outcomes
    PROVE  episodeStage' = episodeStage /\ episodeTries' = episodeTries
BY DEF episodeStage, episodeTries, Settled, InFlight, Bearer, Place, Started

\* An episode taken back is queued again or settled.
LEMMA LostMaps ==
    ASSUME CoreInv, Mapped, MappingReads', NEW w \in Worker, NEW f \in BOOLEAN,
           TakeBack(w, f), pool = "running", pool' \in {"running", "raising"},
           inflight[w] # NoCommand
    PROVE  \E e \in Episode : Batch!Requeue(e) \/ Batch!Finish(e)
<1> DEFINE lost == inflight[w]
           again == [episode |-> lost.episode, attempt |-> lost.attempt + 1]
           given == [status |-> "failed", attempt |-> lost.attempt]
<1>1. lost \in Command
  BY DEF CoreInv, TypeOK
<1>2. CASE ~f /\ lost.attempt < MaxEpisodeAttempts
  <2>1. again \in Command /\ again.episode = lost.episode /\ again.attempt = lost.attempt + 1
    BY <1>1, <1>2, PoolAssumption DEF Command
  <2>2. PutBack(w, again)
    BY <1>2 DEF TakeBack, PutBack
  <2> QED  BY <1>2, <2>1, <2>2, RequeueRequeues
<1>3. CASE f \/ ~(lost.attempt < MaxEpisodeAttempts)
  <2>1. given \in Outcome /\ given.status # "not_run" /\ given.attempt = lost.attempt
    BY <1>1 DEF Command, Outcome, Result
  <2> QED  BY <1>3, <2>1, SettleFinishes DEF TakeBack
<1> QED  BY <1>2, <1>3

LEMMA TakeBackMaps ==
    ASSUME CoreInv, Mapped, MappingReads', NEW w \in Worker, NEW f \in BOOLEAN,
           TakeBack(w, f), pool = "running", pool' \in {"running", "raising"}
    PROVE  [Batch!Next]_(Batch!vars)
<1>1. CASE inflight[w] = NoCommand
  <2>1. inflight' = inflight /\ pending' = pending /\ outcomes' = outcomes
    BY <1>1 DEF TakeBack, CoreInv, TypeOK
  <2>2. batchState' = batchState
    BY DEF batchState
  <2> QED  BY <2>1, <2>2, BooksStay DEF Batch!vars
<1>2. CASE inflight[w] # NoCommand
  BY <1>2, LostMaps DEF Batch!Next
<1> QED  BY <1>1, <1>2

LEMMA ReceiveOutcomeMaps ==
    ASSUME CoreInv, Mapped, MappingReads', NEW w \in Worker, ReceiveOutcome(w)
    PROVE  \E e \in Episode : Batch!Finish(e)
<1> DEFINE m == Head(toPool[w])
           given == [status |-> m.status, attempt |-> m.command.attempt]
<1>1. m \in Response
  BY HeadTailProperties DEF ReceiveOutcome, CoreInv, TypeOK
<1>2. inflight[w] # NoCommand /\ inflight[w] \in Command /\ inflight[w] = m.command
  BY DEF ReceiveOutcome, CoreInv, TypeOK, BusyHolds
<1>3. m.status \in Result
  BY <1>1 DEF Response
<1>4. given \in Outcome /\ given.status # "not_run" /\ given.attempt = inflight[w].attempt
  BY <1>2, <1>3 DEF Outcome, Command, Result
<1>5. /\ inflight' = [inflight EXCEPT ![w] = NoCommand]
      /\ pending' = pending
      /\ outcomes' = [outcomes EXCEPT ![inflight[w].episode] = given]
      /\ pool = "running" /\ pool' = "running"
  BY <1>2 DEF ReceiveOutcome, Watched
<1> QED  BY <1>2, <1>4, <1>5, SettleFinishes

LEMMA GiveUpMaps ==
    ASSUME CoreInv, Mapped, MappingReads', GiveUp
    PROVE  \E e \in Episode : Batch!GiveUp(e)
<1> DEFINE c == Head(pending)
           x == c.episode
<1>1. /\ pending \in Seq(Command) /\ pending # << >>
      /\ pending' = Tail(pending) /\ inflight' = inflight
      /\ outcomes' = [outcomes EXCEPT ![x] = [status |-> "not_run", attempt |-> c.attempt]]
      /\ pool = "running" /\ pool' = "running"
  BY DEF GiveUp, CoreInv, TypeOK
<1>2. /\ c \in Command /\ c = pending[1] /\ 1 \in DOMAIN pending
      /\ \A i \in DOMAIN pending : i # 1 =>
            i - 1 \in DOMAIN pending' /\ pending'[i - 1] = pending[i]
  BY <1>1, TailFacts
<1>3. x \in Episode
  BY <1>2 DEF Command
<1>4. /\ outcomes'[x] = [status |-> "not_run", attempt |-> c.attempt]
      /\ \A e \in Episode : e # x => outcomes'[e] = outcomes[e]
  BY <1>1, <1>3 DEF CoreInv, TypeOK
<1>5. \A e \in Episode : e # x =>
          episodeStage'[e] = episodeStage[e] /\ episodeTries'[e] = episodeTries[e]
  <2>1. \A i \in DOMAIN pending : pending[i].episode # x =>
            \E j \in DOMAIN pending' : pending'[j] = pending[i]
    BY <1>2
  <2>2. \A v \in Worker : inflight[v] # NoCommand => inflight'[v] = inflight[v]
    BY <1>1
  <2> HIDE DEF x
  <2> QED  BY <1>4, <2>1, <2>2, OthersKeepTheirPlace
<1>6. episodeStage[x] = "waiting" /\ episodeTries[x] = c.attempt - 1
  BY <1>2 DEF Mapped, MappingReads
<1>7. episodeStage'[x] = "done" /\ episodeTries'[x] = c.attempt - 1
  BY <1>3, <1>4 DEF MappingReads, Settled, Started, NoOutcome
<1>8. episodeStage' = [episodeStage EXCEPT ![x] = "done"] /\ episodeTries' = episodeTries
  BY <1>3, <1>5, <1>6, <1>7, ImageMoves
<1>9. \A e \in Episode : episodeStage[e] # "running"
  <2>1. \A w \in Worker : inflight[w] = NoCommand
    BY DEF GiveUp, NoHealthyWorker, CoreInv, BusyHolds
  <2> QED  BY <2>1 DEF episodeStage, InFlight
<1>10. batchState = "open" /\ batchState' = "open"
  BY <1>1 DEF batchState
<1>11. Batch!GiveUp(x)
  BY <1>6, <1>8, <1>9, <1>10 DEF Batch!GiveUp
<1> QED  BY <1>3, <1>11

\* The coordinator hands its results back only when it has all of them.
ReturnsAll == pool = "returning" => AllSettled

LEMMA ReturnsAllNext == CoreInv /\ ReturnsAll /\ [Next]_vars => ReturnsAll'
<1> SUFFICES ASSUME CoreInv, ReturnsAll, [Next]_vars PROVE ReturnsAll'
  OBVIOUS
<1>1. CASE UNCHANGED vars
  BY <1>1 DEF vars, coordVars, ReturnsAll, AllSettled, Settled
<1>2. CASE Next
  <2>1. pool' = "returning" => AllSettled
    <3>1. ASSUME NEW w \in Worker, WorkerStep(w) \/ ProcessDies(w) PROVE UNCHANGED pool
      BY <3>1 DEF WorkerStep, ProcessDies, BackendLoaded, BackendFails, TakeCommand,
                  CoordinatorGone, FinishEpisode, EpisodeRaises, ProcessEnds, Respond, coordVars
    <3>2. ASSUME NEW w \in Worker, \/ Launch(w) \/ Dispatch(w) \/ ReceiveReady(w)
                                   \/ ReceiveOutcome(w) \/ ReceiveFailure(w)
                                   \/ NoticeExit(w) \/ Timeout(w)
          PROVE  pool' # "returning"
      BY <3>2 DEF Launch, Dispatch, ReceiveReady, ReceiveOutcome, ReceiveFailure, NoticeExit,
                  Timeout, LoseWorker, Watched
    <3>3. GiveUp \/ StopWorkers \/ Interrupt \/ CoordinatorDies => pool' # "returning"
      BY DEF GiveUp, StopWorkers, Interrupt, CoordinatorDies
    <3>4. Finish => AllSettled
      BY DEF Finish
    <3> QED  BY <1>2, <3>1, <3>2, <3>3, <3>4 DEF Next, CoordinatorStep, ReturnsAll
  <2> QED  BY <1>2, <2>1, SettledStays DEF ReturnsAll, AllSettled
<1> QED  BY <1>1, <1>2

LEMMA StepMaps ==
    CoreInv /\ Mapped /\ MappingReads' /\ ReturnsAll /\ [Next]_vars => [Batch!Next]_(Batch!vars)
<1> SUFFICES ASSUME CoreInv, Mapped, MappingReads', ReturnsAll, [Next]_vars
             PROVE  [Batch!Next]_(Batch!vars)
  OBVIOUS
<1>1. ASSUME NEW w \in Worker, Dispatch(w) PROVE Batch!Next
  BY <1>1, DispatchStarts DEF Batch!Next
<1>2. ASSUME NEW w \in Worker, ReceiveOutcome(w) PROVE Batch!Next
  BY <1>2, ReceiveOutcomeMaps DEF Batch!Next
<1>3. CASE GiveUp
  BY <1>3, GiveUpMaps DEF Batch!Next
<1>4. ASSUME NEW w \in Worker, NoticeExit(w) \/ Timeout(w) PROVE [Batch!Next]_(Batch!vars)
  <2>1. TakeBack(w, FALSE) /\ pool = "running" /\ pool' = "running"
    BY <1>4 DEF NoticeExit, Timeout, LoseWorker, Watched
  <2> QED  BY <2>1, TakeBackMaps
<1>5. ASSUME NEW w \in Worker, ReceiveFailure(w) PROVE [Batch!Next]_(Batch!vars)
  <2>1. Head(toPool[w]) \in Response
    BY <1>5, HeadTailProperties DEF ReceiveFailure, CoreInv, TypeOK
  <2>2. Head(toPool[w]).fatal \in BOOLEAN
    BY <2>1 DEF Response
  <2>3. pool = "running" /\ pool' \in {"running", "raising"}
    BY <1>5 DEF ReceiveFailure, Watched
  <2>4. TakeBack(w, Head(toPool[w]).fatal)
    BY <1>5 DEF ReceiveFailure
  <2> QED  BY <2>2, <2>3, <2>4, TakeBackMaps
<1>6. CASE StopWorkers
  <2>1. UNCHANGED <<episodeStage, episodeTries>>
    BY <1>6, BooksStay DEF StopWorkers
  <2>2. CASE pool = "returning"
    <3>1. \A e \in Episode : episodeStage[e] = "done"
      BY <2>2 DEF ReturnsAll, AllSettled, Mapped, MappingReads
    <3> QED  BY <1>6, <2>1, <2>2, <3>1 DEF StopWorkers, batchState, Batch!Next, Batch!Complete
  <2>3. CASE pool = "raising"
    BY <1>6, <2>1, <2>3 DEF StopWorkers, batchState, Batch!Next, Batch!Abort
  <2> QED  BY <1>6, <2>2, <2>3 DEF StopWorkers
<1>7. ASSUME UNCHANGED <<pending, inflight, outcomes>>, batchState' = batchState
      PROVE  UNCHANGED Batch!vars
  BY <1>7, BooksStay DEF Batch!vars
<1>8. ASSUME NEW w \in Worker, Launch(w) \/ ReceiveReady(w)
      PROVE  UNCHANGED <<pending, inflight, outcomes>> /\ batchState' = batchState
  BY <1>8 DEF Launch, ReceiveReady, batchState
<1>9. CASE Finish \/ Interrupt \/ CoordinatorDies
  <2>1. UNCHANGED <<pending, inflight, outcomes>> /\ batchState' = batchState
    BY <1>9 DEF Finish, Interrupt, CoordinatorDies, batchState, PipesOpen
  <2> QED  BY <1>7, <2>1
<1>10. ASSUME NEW w \in Worker, WorkerStep(w) \/ ProcessDies(w)
      PROVE  UNCHANGED <<pending, inflight, outcomes>> /\ batchState' = batchState
  <2>1. UNCHANGED coordVars
    BY <1>10 DEF WorkerStep, ProcessDies, BackendLoaded, BackendFails, TakeCommand,
                 CoordinatorGone, FinishEpisode, EpisodeRaises, ProcessEnds, Respond
  <2> QED  BY <2>1 DEF coordVars, batchState
<1>11. CASE UNCHANGED vars
  BY <1>7, <1>11 DEF vars, coordVars, batchState
<1> QED
  BY <1>1, <1>2, <1>3, <1>4, <1>5, <1>6, <1>7, <1>8, <1>9, <1>10, <1>11
     DEF Next, CoordinatorStep

LEMMA InitMaps == Init => Batch!Init
<1> SUFFICES ASSUME Init PROVE Batch!Init
  OBVIOUS
<1>1. Mapped
  BY CoreInit, ConservedInit, MappingIsRead DEF Mapped
<1>2. ASSUME NEW e \in Episode PROVE episodeStage[e] = "waiting" /\ episodeTries[e] = 0
  <2>1. PICK i \in DOMAIN EpisodeIds : EpisodeIds[i] = e
    BY DEF Episode
  <2>2. i \in DOMAIN pending /\ pending[i].episode = e /\ pending[i].attempt = 1
    BY <2>1 DEF Init
  <2> QED  BY <1>1, <2>2 DEF Mapped, MappingReads
<1>3. /\ episodeStage = [e \in Episode |-> episodeStage[e]]
      /\ episodeTries = [e \in Episode |-> episodeTries[e]]
  BY DEF episodeStage, episodeTries
<1>4. batchState = "open"
  BY DEF Init, batchState
<1> QED  BY <1>2, <1>3, <1>4 DEF Batch!Init

\* However workers fail, hang and come back, the coordinator does what every
\* caller of the pool relies on: attempts are bounded and counted, an outcome
\* is final and given once, and only a whole batch is handed back.
THEOREM PoolImplementsBatch == Spec => ImplementsBatch
<1>1. Init => ReturnsAll
  BY DEF Init, ReturnsAll
<1>2. Spec => [](CoreInv /\ Mapped)
  BY TalkAlways, MappingIsRead, PTL DEF Mapped
<1>3. Spec => []ReturnsAll
  BY <1>1, <1>2, ReturnsAllNext, PTL DEF Spec
<1>4. Mapped' => MappingReads'
  BY DEF Mapped
<1> QED
  BY <1>2, <1>3, <1>4, InitMaps, StepMaps, PTL DEF Spec, ImplementsBatch, Batch!Spec

-----------------------------------------------------------------------------
(* The coordinator never waits for its workers *)

\* The guards of CoordinatorStep: what the coordinator can do by itself in this
\* state.  A phase that waits for an answer has its time limit.
CoordinatorMayMove ==
    \/ pool = "launching" /\ \E w \in Worker : phase[w] = "absent"
    \/ pool \in {"returning", "raising"}
    \/ /\ pool = "running"
       /\ \/ AllSettled
          \/ NoHealthyWorker /\ pending # << >>
          \/ \E w \in Worker : phase[w] \in {"starting", "busy"}
          \/ \E w \in Worker : phase[w] = "idle" /\ Alive(w) /\ pending # << >>
          \/ \E w \in Worker : phase[w] = "idle" /\ proc[w] = "dead" /\ toPool[w] = << >>

CoordinatorGoesOn == PipesOpen => CoordinatorMayMove

\* The loop is entered when the last worker has been launched.
LaunchedFirst ==
    /\ pool = "launching" => \E w \in Worker : phase[w] = "absent"
    /\ pool = "running" => \A w \in Worker : phase[w] # "absent"
    /\ \A w \in Worker : phase[w] # "absent" => proc[w] # "none"

LEMMA LaunchedNext == CoreInv /\ LaunchedFirst /\ [Next]_vars => LaunchedFirst'
<1> SUFFICES ASSUME CoreInv, LaunchedFirst, [Next]_vars PROVE LaunchedFirst'
  OBVIOUS
<1>0. CASE UNCHANGED <<pool, phase, proc>>
  BY <1>0 DEF LaunchedFirst
<1>1. CASE UNCHANGED vars \/ GiveUp
  BY <1>0, <1>1 DEF vars, coordVars, procVars, GiveUp
<1>2. ASSUME NEW w \in Worker, WorkerStep(w) \/ ProcessDies(w) PROVE LaunchedFirst'
  <2>1. /\ UNCHANGED <<pool, phase>>
        /\ \E p \in {"waiting", "running", "exiting", "dead"} : proc' = [proc EXCEPT ![w] = p]
    BY <1>2 DEF WorkerStep, BackendLoaded, BackendFails, TakeCommand, CoordinatorGone, FinishEpisode,
       EpisodeRaises, ProcessEnds, ProcessDies, Respond, coordVars
  <2> QED  BY <2>1 DEF LaunchedFirst, CoreInv, TypeOK
<1>3. ASSUME NEW w \in Worker, Launch(w) PROVE LaunchedFirst'
  <2>1. /\ phase' = [phase EXCEPT ![w] = "starting"] /\ proc' = [proc EXCEPT ![w] = "loading"]
        /\ pool' = IF \A v \in Worker : phase'[v] # "absent" THEN "running" ELSE "launching"
    BY <1>3 DEF Launch, StartProcess
  <2>2. \A v \in Worker : phase'[v] # "absent" => proc'[v] # "none"
    BY <2>1 DEF LaunchedFirst, CoreInv, TypeOK
  <2> QED  BY <2>1, <2>2 DEF LaunchedFirst
<1>4. ASSUME NEW w \in Worker, Dispatch(w) \/ ReceiveReady(w) \/ ReceiveOutcome(w)
      PROVE  LaunchedFirst'
  <2>1. /\ pool = "running" /\ pool' = pool /\ proc' = proc /\ phase[w] # "absent"
        /\ \E p \in {"idle", "busy", "retired"} : phase' = [phase EXCEPT ![w] = p]
    BY <1>4 DEF Dispatch, ReceiveReady, ReceiveOutcome, Watched
  <2> QED  BY <2>1 DEF LaunchedFirst, CoreInv, TypeOK
<1>5. ASSUME NEW w \in Worker, ReceiveFailure(w) \/ NoticeExit(w) \/ Timeout(w)
      PROVE  LaunchedFirst'
  <2>1. /\ pool = "running" /\ pool' \in {"running", "raising"} /\ phase[w] # "absent"
        /\ \E p \in {"starting", "retired"} : phase' = [phase EXCEPT ![w] = p]
    BY <1>5 DEF ReceiveFailure, NoticeExit, Timeout, LoseWorker, Watched, Relaunched, NotRelaunched
  <2>2. proc' = proc \/ \E p \in {"loading", "dead"} : proc' = [proc EXCEPT ![w] = p]
    BY <1>5 DEF ReceiveFailure, NoticeExit, Timeout, LoseWorker, Relaunched, NotRelaunched,
       StartProcess, procVars
  <2>3. \A v \in Worker : phase'[v] # "absent" => proc'[v] # "none"
    BY <2>1, <2>2 DEF LaunchedFirst, CoreInv, TypeOK
  <2> QED  BY <2>1, <2>3 DEF LaunchedFirst, CoreInv, TypeOK
<1>6. CASE Finish \/ StopWorkers \/ Interrupt \/ CoordinatorDies
  <2>1. pool' \notin {"launching", "running"} /\ phase' = phase
    BY <1>6 DEF Finish, StopWorkers, Interrupt, CoordinatorDies
  <2>2. proc' = proc \/ proc' = [w \in Worker |-> IF Alive(w) THEN "dead" ELSE proc[w]]
    BY <1>6 DEF Finish, StopWorkers, Interrupt, CoordinatorDies, procVars
  <2> QED  BY <2>1, <2>2 DEF LaunchedFirst
<1> QED  BY <1>1, <1>2, <1>3, <1>4, <1>5, <1>6 DEF Next, CoordinatorStep

\* Whatever the workers do, hang or die, the coordinator always has a step of
\* its own to take until the batch is over: a busy or starting worker runs out
\* of time, an idle one is given work or found dead, and without any of these
\* every episode is settled or is given up.
THEOREM CoordinatorNeverWaits == Spec => []CoordinatorGoesOn
<1>1. Init => LaunchedFirst
  BY PoolAssumption DEF Init, LaunchedFirst
<1>2. CoreInv /\ EpisodeConserved /\ TalkInv /\ LaunchedFirst => CoordinatorGoesOn
  <2> SUFFICES ASSUME CoreInv, EpisodeConserved, TalkInv, LaunchedFirst, PipesOpen, ~CoordinatorMayMove
               PROVE  FALSE
    BY DEF CoordinatorGoesOn
  <2>1. pool = "running"
    BY DEF CoordinatorMayMove, LaunchedFirst, PipesOpen, CoreInv, TypeOK
  <2>2. \A w \in Worker : phase[w] \in {"idle", "retired"}
    BY <2>1 DEF CoordinatorMayMove, LaunchedFirst, CoreInv, TypeOK
  <2>3. pending # << >>
    <3>1. PICK e \in Episode : ~Settled(e)
      BY <2>1 DEF CoordinatorMayMove, AllSettled
    <3>2. ~InFlight(e)
      BY <2>2 DEF InFlight, CoreInv, BusyHolds
    <3>3. Queued(e)
      BY <3>1, <3>2 DEF EpisodeConserved
    <3> QED  BY <3>3 DEF Queued
  <2>4. PICK w \in Worker : phase[w] = "idle"
    BY <2>1, <2>2, <2>3 DEF CoordinatorMayMove, NoHealthyWorker
  <2>5. toPool[w] = << >>
    BY <2>4 DEF TalkInv, Talk, Watching, Conversation
  <2>6. ~Alive(w) /\ proc[w] # "dead"
    BY <2>1, <2>3, <2>4, <2>5 DEF CoordinatorMayMove
  <2>7. proc[w] = "none"
    BY <2>6 DEF Alive
  <2> QED  BY <2>4, <2>7 DEF LaunchedFirst
<1>3. Spec => []LaunchedFirst
  BY <1>1, LaunchedNext, TalkAlways, PTL DEF Spec
<1> QED  BY <1>2, <1>3, TalkAlways, PTL

-----------------------------------------------------------------------------
(* Every relaunch is paid from a budget *)

\* What the coordinator, an episode and a worker's slot have ahead of them, and
\* the idle restarts that are left.
PoolWork ==
    CASE pool = "launching" -> 3
      [] pool = "running" -> 2
      [] pool \in {"returning", "raising"} -> 1
      [] pool \in {"returned", "raised", "crashed"} -> 0
WorkOf(s, t) == IF s = "waiting" THEN 2 * (MaxEpisodeAttempts - t) + 1
                ELSE IF s = "running" THEN 2 * (MaxEpisodeAttempts - t) + 2
                ELSE 0
EpisodeWork == [e \in Episode |-> WorkOf(episodeStage[e], episodeTries[e])]
RestartsLeft == [w \in Worker |-> MaxIdleRestarts + 1 - idleRestarts[w]]
SlotOf(p, f) == IF p = "absent" THEN MaxStartupAttempts + 3
                ELSE IF p = "starting" THEN MaxStartupAttempts + 2 - f
                ELSE IF p = "idle" THEN 1
                ELSE 0
SlotWork == [w \in Worker |-> SlotOf(phase[w], startupFailures[w])]

\* None is more and one is less.
Less(g, f) == /\ \A x \in DOMAIN f : g[x] <= f[x]
              /\ \E x \in DOMAIN f : g[x] < f[x]

\* The four budgets in the order in which one pays for those behind it.
Paid ==
    \/ PoolWork' < PoolWork
    \/ PoolWork' = PoolWork /\ Less(EpisodeWork', EpisodeWork)
    \/ /\ PoolWork' = PoolWork /\ EpisodeWork' = EpisodeWork
       /\ Less(RestartsLeft', RestartsLeft)
    \/ /\ PoolWork' = PoolWork /\ EpisodeWork' = EpisodeWork /\ RestartsLeft' = RestartsLeft
       /\ Less(SlotWork', SlotWork)

Counted ==
    /\ PoolWork \in Nat
    /\ EpisodeWork \in [Episode -> Nat]
    /\ RestartsLeft \in [Worker -> Nat]
    /\ SlotWork \in [Worker -> Nat]

LEMMA TriesAreCounted ==
    ASSUME CoreInv, Mapped, NEW e \in Episode
    PROVE  /\ episodeStage[e] \in {"waiting", "running", "done"}
           /\ episodeTries[e] \in 0..MaxEpisodeAttempts
<1>1. CASE Settled(e)
  <2>1. episodeStage[e] = "done" /\ episodeTries[e] = Started(outcomes[e])
    BY <1>1 DEF Mapped, MappingReads
  <2>2. outcomes[e] \in Outcome
    BY <1>1 DEF Settled, CoreInv, TypeOK
  <2>3. outcomes[e].attempt \in 1..MaxEpisodeAttempts
    BY <2>2 DEF Outcome
  <2> QED  BY <2>1, <2>3, PoolAssumption DEF Started
<1>2. CASE InFlight(e)
  <2>1. PICK w \in Worker : inflight[w] # NoCommand /\ inflight[w].episode = e
    BY <1>2 DEF InFlight
  <2>2. inflight[w].attempt \in 1..MaxEpisodeAttempts
    BY <2>1 DEF CoreInv, TypeOK, Command
  <2> QED  BY <2>1, <2>2, PoolAssumption DEF Mapped, MappingReads
<1>3. CASE Queued(e)
  <2>1. PICK i \in DOMAIN pending : pending[i].episode = e
    BY <1>3 DEF Queued
  <2>2. pending[i] \in Command
    BY <2>1, ElementOfSeq, LenProperties DEF CoreInv, TypeOK
  <2>3. pending[i].attempt \in 1..MaxEpisodeAttempts
    BY <2>2 DEF Command
  <2> QED  BY <2>1, <2>3, PoolAssumption DEF Mapped, MappingReads
<1> QED  BY <1>1, <1>2, <1>3 DEF Mapped, EpisodeConserved

LEMMA WorkIsCounted == CoreInv /\ Mapped => Counted
<1> SUFFICES ASSUME CoreInv, Mapped PROVE Counted
  OBVIOUS
<1>1. PoolWork \in Nat
  BY DEF PoolWork, CoreInv, TypeOK
<1>2. EpisodeWork \in [Episode -> Nat]
  <2> SUFFICES ASSUME NEW e \in Episode PROVE EpisodeWork[e] \in Nat
    BY DEF EpisodeWork
  <2>1. WorkOf(episodeStage[e], episodeTries[e]) \in Nat
    BY TriesAreCounted, PoolAssumption DEF WorkOf
  <2> QED  BY <2>1 DEF EpisodeWork
<1>3. RestartsLeft \in [Worker -> Nat]
  BY PoolAssumption DEF RestartsLeft, CoreInv, TypeOK
<1>4. SlotWork \in [Worker -> Nat]
  <2> SUFFICES ASSUME NEW w \in Worker PROVE SlotWork[w] \in Nat
    BY DEF SlotWork
  <2>1. startupFailures[w] \in 0..MaxStartupAttempts
    BY DEF CoreInv, TypeOK
  <2> QED  BY <2>1, PoolAssumption DEF SlotWork, SlotOf
<1> QED  BY <1>1, <1>2, <1>3, <1>4 DEF Counted

LEMMA WorkStays ==
    ASSUME pending' = pending, inflight' = inflight, outcomes' = outcomes
    PROVE  EpisodeWork' = EpisodeWork
<1>1. episodeStage' = episodeStage /\ episodeTries' = episodeTries
  BY BooksStay
<1> QED  BY <1>1 DEF EpisodeWork, WorkOf

\* Where the abstract batch moves an episode, the episode pays.
LEMMA EpisodePays ==
    ASSUME CoreInv, Mapped, Counted, Counted', NEW x \in Episode,
           Batch!Start(x) \/ Batch!Requeue(x) \/ Batch!Finish(x) \/ Batch!GiveUp(x)
    PROVE  Less(EpisodeWork', EpisodeWork)
<1>1. \A e \in Episode : e # x => episodeStage'[e] = episodeStage[e] /\ episodeTries'[e] = episodeTries[e]
  BY DEF Batch!Start, Batch!Requeue, Batch!Finish, Batch!GiveUp, episodeStage, episodeTries
<1>2. \A e \in Episode : e # x => EpisodeWork'[e] = EpisodeWork[e]
  BY <1>1 DEF EpisodeWork
<1>3. episodeTries[x] \in 0..MaxEpisodeAttempts
  BY TriesAreCounted
<1>4. /\ EpisodeWork[x] = WorkOf(episodeStage[x], episodeTries[x])
      /\ EpisodeWork'[x] = WorkOf(episodeStage'[x], episodeTries'[x])
  BY DEF EpisodeWork
<1>5. EpisodeWork'[x] < EpisodeWork[x]
  <2>0. DOMAIN episodeStage = Episode /\ DOMAIN episodeTries = Episode
    BY DEF episodeStage, episodeTries
  <2>1. CASE Batch!Start(x)
    <3>1. /\ episodeStage[x] = "waiting" /\ episodeStage'[x] = "running"
          /\ episodeTries'[x] = episodeTries[x] + 1
      BY <2>0, <2>1 DEF Batch!Start
    <3> QED  BY <1>3, <1>4, <3>1, PoolAssumption DEF WorkOf
  <2>2. CASE Batch!Requeue(x)
    <3>1. /\ episodeStage[x] = "running" /\ episodeStage'[x] = "waiting"
          /\ episodeTries'[x] = episodeTries[x]
      BY <2>0, <2>2 DEF Batch!Requeue
    <3> QED  BY <1>3, <1>4, <3>1, PoolAssumption DEF WorkOf
  <2>3. CASE Batch!Finish(x) \/ Batch!GiveUp(x)
    <3>1. episodeStage[x] \in {"running", "waiting"} /\ episodeStage'[x] = "done"
      BY <2>0, <2>3 DEF Batch!Finish, Batch!GiveUp
    <3> QED  BY <1>3, <1>4, <3>1, PoolAssumption DEF WorkOf
  <2> QED  BY <2>1, <2>2, <2>3
<1> QED
  <2>1. \A e \in Episode : EpisodeWork[e] \in Nat
    BY DEF Counted
  <2>2. DOMAIN EpisodeWork = Episode
    BY DEF EpisodeWork
  <2>3. \A e \in Episode : EpisodeWork'[e] <= EpisodeWork[e]
    BY <1>2, <1>5, <2>1 DEF Counted
  <2> QED  BY <1>5, <2>2, <2>3 DEF Less

\* A slot pays, if no other slot is touched.
LEMMA SlotPays ==
    ASSUME Counted, Counted', NEW w \in Worker, SlotWork'[w] < SlotWork[w],
           \A v \in Worker : v # w => SlotWork'[v] = SlotWork[v]
    PROVE  Less(SlotWork', SlotWork)
<1>1. \A v \in Worker : SlotWork[v] \in Nat /\ SlotWork'[v] \in Nat
  BY DEF Counted
<1>2. DOMAIN SlotWork = Worker
  BY DEF SlotWork
<1> QED  BY <1>1, <1>2 DEF Less

LEMMA RestartPays ==
    ASSUME Counted, Counted', NEW w \in Worker, RestartsLeft'[w] < RestartsLeft[w],
           \A v \in Worker : v # w => RestartsLeft'[v] = RestartsLeft[v]
    PROVE  Less(RestartsLeft', RestartsLeft)
<1>1. \A v \in Worker : RestartsLeft[v] \in Nat /\ RestartsLeft'[v] \in Nat
  BY DEF Counted
<1>2. DOMAIN RestartsLeft = Worker
  BY DEF RestartsLeft
<1> QED  BY <1>1, <1>2 DEF Less

\* A lost worker pays with its episode if it had one, with a restart if it was
\* idle, and with a start if it was starting; a fatal loss retires it.
LEMMA LossIsPaid ==
    ASSUME CoreInv, Mapped, MappingReads', Counted, Counted',
           NEW w \in Worker, NEW f \in BOOLEAN, Watching(w),
           TakeBack(w, f), CountFailure(w, f),
           pool = "running", UNCHANGED pool,
           \/ phase' = [phase EXCEPT ![w] = "retired"]
           \/ phase' = [phase EXCEPT ![w] = "starting"] /\ MayRelaunch(w, f)
    PROVE  Paid
<1>1. PoolWork' = PoolWork
  BY DEF PoolWork
<1>2. phase[w] \in {"starting", "idle", "busy"}
  BY DEF Watching, CoreInv, TypeOK
<1>3. \A v \in Worker : v # w => /\ phase'[v] = phase[v]
                                 /\ startupFailures'[v] = startupFailures[v]
                                 /\ idleRestarts'[v] = idleRestarts[v]
  BY DEF CountFailure, CoreInv, TypeOK
<1>4. \A v \in Worker : v # w => /\ SlotWork'[v] = SlotWork[v]
                                 /\ RestartsLeft'[v] = RestartsLeft[v]
  BY <1>3 DEF SlotWork, RestartsLeft, SlotOf
<1>5. CASE phase[w] = "busy"
  <2>1. inflight[w] # NoCommand
    BY <1>5 DEF CoreInv, BusyHolds
  <2>2. PICK e \in Episode : Batch!Requeue(e) \/ Batch!Finish(e)
    BY <2>1, LostMaps
  <2>3. Less(EpisodeWork', EpisodeWork)
    BY <2>2, EpisodePays
  <2> QED  BY <1>1, <2>3 DEF Paid
<1>6. CASE phase[w] # "busy"
  <2>1. inflight[w] = NoCommand
    BY <1>6 DEF CoreInv, BusyHolds
  <2>2. inflight' = inflight /\ pending' = pending /\ outcomes' = outcomes
    BY <2>1 DEF TakeBack, CoreInv, TypeOK
  <2>3. EpisodeWork' = EpisodeWork
    BY <2>2, WorkStays
  <2>4. /\ startupFailures'[w] = IF phase[w] = "starting" /\ ~f THEN startupFailures[w] + 1
                                 ELSE startupFailures[w]
        /\ idleRestarts'[w] = IF phase[w] = "idle" /\ ~f THEN idleRestarts[w] + 1
                              ELSE idleRestarts[w]
        /\ startupFailures[w] \in 0..MaxStartupAttempts
        /\ idleRestarts[w] \in 0..(MaxIdleRestarts + 1)
    BY DEF CountFailure, CoreInv, TypeOK
  <2>5. CASE phase[w] = "idle" /\ ~f
    <3>1. RestartsLeft'[w] < RestartsLeft[w]
      BY <2>4, <2>5, PoolAssumption DEF RestartsLeft
    <3>2. Less(RestartsLeft', RestartsLeft)
      BY <1>4, <3>1, RestartPays
    <3> QED  BY <1>1, <2>3, <3>2 DEF Paid
  <2>6. CASE ~(phase[w] = "idle" /\ ~f)
    <3>1. RestartsLeft' = RestartsLeft
      <4>1. \A v \in Worker : idleRestarts'[v] = idleRestarts[v]
        BY <1>3, <2>4, <2>6
      <4> QED  BY <4>1 DEF RestartsLeft
    <3>2. phase'[w] = "retired" \/ (phase'[w] = "starting" /\ ~f)
      BY DEF MayRelaunch, CoreInv, TypeOK
    <3>3. SlotWork'[w] < SlotWork[w]
      <4>1. CASE phase'[w] = "retired"
        BY <1>2, <1>6, <2>4, <4>1, PoolAssumption DEF SlotWork, SlotOf
      <4>2. CASE phase'[w] = "starting" /\ ~f
        <5>1. phase[w] = "starting" /\ startupFailures'[w] = startupFailures[w] + 1
          BY <1>2, <1>6, <2>4, <2>6, <4>2
        <5> QED  BY <2>4, <4>2, <5>1, PoolAssumption DEF SlotWork, SlotOf
      <4> QED  BY <3>2, <4>1, <4>2
    <3>4. Less(SlotWork', SlotWork)
      BY <1>4, <3>3, SlotPays
    <3> QED  BY <1>1, <2>3, <3>1, <3>4 DEF Paid
  <2> QED  BY <2>5, <2>6
<1> QED  BY <1>5, <1>6

LEMMA CoordinatorPays ==
    ASSUME CoreInv, Mapped, MappingReads', Counted, Counted', CoordinatorStep
    PROVE  Paid
<1>1. ASSUME NEW w \in Worker, Launch(w) PROVE Paid
  <2>1. PoolWork' <= PoolWork /\ (PoolWork' = PoolWork \/ PoolWork' < PoolWork)
    BY <1>1 DEF Launch, PoolWork, CoreInv, TypeOK
  <2>2. EpisodeWork' = EpisodeWork
    <3>1. inflight' = inflight /\ pending' = pending /\ outcomes' = outcomes
      BY <1>1 DEF Launch
    <3> QED  BY <3>1, WorkStays
  <2>3. RestartsLeft' = RestartsLeft
    BY <1>1 DEF Launch, RestartsLeft
  <2>4. \A v \in Worker : v # w => SlotWork'[v] = SlotWork[v]
    BY <1>1 DEF Launch, SlotWork, CoreInv, TypeOK
  <2>5. SlotWork'[w] < SlotWork[w]
    <3>1. /\ phase[w] = "absent" /\ phase'[w] = "starting"
          /\ startupFailures'[w] \in 0..MaxStartupAttempts
      BY <1>1 DEF Launch, CoreInv, TypeOK
    <3> QED  BY <3>1, PoolAssumption DEF SlotWork, SlotOf
  <2>6. Less(SlotWork', SlotWork)
    BY <2>4, <2>5, SlotPays
  <2> QED  BY <2>1, <2>2, <2>3, <2>6 DEF Paid
<1>2. ASSUME NEW w \in Worker, Dispatch(w) \/ ReceiveOutcome(w) PROVE Paid
  <2>1. PoolWork' = PoolWork
    BY <1>2 DEF Dispatch, ReceiveOutcome, PoolWork
  <2>2. \E e \in Episode : Batch!Start(e) \/ Batch!Finish(e)
    BY <1>2, DispatchStarts, ReceiveOutcomeMaps
  <2> QED  BY <2>1, <2>2, EpisodePays DEF Paid
<1>3. ASSUME NEW w \in Worker, ReceiveReady(w) PROVE Paid
  <2>1. PoolWork' = PoolWork /\ RestartsLeft' = RestartsLeft
    BY <1>3 DEF ReceiveReady, PoolWork, RestartsLeft
  <2>2. EpisodeWork' = EpisodeWork
    <3>1. inflight' = inflight /\ pending' = pending /\ outcomes' = outcomes
      BY <1>3 DEF ReceiveReady
    <3> QED  BY <3>1, WorkStays
  <2>3. \A v \in Worker : v # w => SlotWork'[v] = SlotWork[v]
    BY <1>3 DEF ReceiveReady, SlotWork, CoreInv, TypeOK
  <2>4. SlotWork'[w] < SlotWork[w]
    <3>1. /\ phase[w] = "starting" /\ phase'[w] = "idle"
          /\ startupFailures[w] \in 0..MaxStartupAttempts
      BY <1>3 DEF ReceiveReady, CoreInv, TypeOK
    <3> QED  BY <3>1, PoolAssumption DEF SlotWork, SlotOf
  <2>5. Less(SlotWork', SlotWork)
    BY <2>3, <2>4, SlotPays
  <2> QED  BY <2>1, <2>2, <2>5 DEF Paid
<1>4. ASSUME NEW w \in Worker, ReceiveFailure(w) PROVE Paid
  <2> DEFINE f == Head(toPool[w]).fatal
  <2>1. Head(toPool[w]) \in Response
    BY <1>4, HeadTailProperties DEF ReceiveFailure, CoreInv, TypeOK
  <2>2. f \in BOOLEAN
    BY <2>1 DEF Response
  <2>3. /\ pool = "running" /\ Watching(w) /\ TakeBack(w, f) /\ CountFailure(w, f)
        /\ \/ pool' = "raising"
           \/ /\ UNCHANGED pool
              /\ \/ phase' = [phase EXCEPT ![w] = "retired"]
                 \/ phase' = [phase EXCEPT ![w] = "starting"] /\ MayRelaunch(w, f)
    BY <1>4 DEF ReceiveFailure, Watched, Watching, Relaunched
  <2>4. CASE pool' = "raising"
    BY <2>3, <2>4 DEF PoolWork, Paid
  <2> HIDE DEF f
  <2>5. CASE pool' # "raising"
    BY <2>2, <2>3, <2>5, LossIsPaid
  <2> QED  BY <2>4, <2>5
<1>5. ASSUME NEW w \in Worker, NoticeExit(w) \/ Timeout(w) PROVE Paid
  <2>1. /\ pool = "running" /\ UNCHANGED pool /\ Watching(w)
        /\ TakeBack(w, FALSE) /\ CountFailure(w, FALSE)
        /\ \/ phase' = [phase EXCEPT ![w] = "retired"]
           \/ phase' = [phase EXCEPT ![w] = "starting"] /\ MayRelaunch(w, FALSE)
    BY <1>5 DEF NoticeExit, Timeout, LoseWorker, Watched, Watching, Relaunched, NotRelaunched
  <2> QED  BY <2>1, LossIsPaid
<1>6. CASE GiveUp
  <2>1. PoolWork' = PoolWork
    BY <1>6 DEF GiveUp, PoolWork
  <2> QED  BY <1>6, <2>1, GiveUpMaps, EpisodePays DEF Paid
<1>7. CASE Finish \/ StopWorkers
  BY <1>7 DEF Finish, StopWorkers, PoolWork, Paid
<1> QED  BY <1>1, <1>2, <1>3, <1>4, <1>5, <1>6, <1>7 DEF CoordinatorStep

\* Every step of the coordinator lessens what is left to it, and nothing that
\* its workers do adds to it: all of its retries, relaunches and rounds are
\* paid from budgets that are never filled up again.
THEOREM EveryStepIsPaid ==
    Spec => [][(CoordinatorStep => Paid) /\ (Paid \/ UNCHANGED coordVars)]_vars
<1>1. Spec => [](CoreInv /\ Mapped)
  BY TalkAlways, MappingIsRead, PTL DEF Mapped
<1>2. ASSUME CoreInv /\ Mapped, (CoreInv /\ Mapped)', [Next]_vars
      PROVE  [(CoordinatorStep => Paid) /\ (Paid \/ UNCHANGED coordVars)]_vars
  <2>1. Counted /\ Counted' /\ MappingReads'
    <3>1. Counted
      BY <1>2, WorkIsCounted
    <3>2. (CoreInv /\ Mapped => Counted)'
      BY WorkIsCounted, PTL
    <3> QED  BY <1>2, <3>1, <3>2 DEF Mapped
  <2>2. CoordinatorStep => Paid
    BY <1>2, <2>1, CoordinatorPays
  <2>3. Interrupt \/ CoordinatorDies => Paid
    BY <1>2 DEF Interrupt, CoordinatorDies, PipesOpen, PoolWork, Paid, CoreInv, TypeOK
  <2>4. ASSUME NEW w \in Worker, WorkerStep(w) \/ ProcessDies(w) PROVE UNCHANGED coordVars
    BY <2>4 DEF WorkerStep, ProcessDies, BackendLoaded, BackendFails, TakeCommand,
                CoordinatorGone, FinishEpisode, EpisodeRaises, ProcessEnds, Respond
  <2>5. CASE UNCHANGED vars
    BY <2>5
  <2>6. CASE Next
    BY <2>2, <2>3, <2>4, <2>6 DEF Next
  <2> QED  BY <1>2, <2>5, <2>6
<1> QED  BY <1>1, <1>2, PTL DEF Spec

-----------------------------------------------------------------------------
(* Workers of a coordinator that was killed *)

Crashed == pool = "crashed"
Loads(w) == proc[w] = "loading"
Waits(w) == proc[w] = "waiting"
Runs(w) == proc[w] = "running"
Exits(w) == proc[w] = "exiting"
Gone(w) == ~Alive(w)
OrphanStep(w) == pool = "crashed" /\ WorkerStep(w)

\* Weak fairness of OrphanStep(w), with its guard in the place of ENABLED.
OrphanGoesOn(w) == []<>(~(Crashed /\ Alive(w))) \/ []<><<OrphanStep(w)>>_vars

\* With the pipe closed a process only moves towards its end.
Outward(w) ==
    /\ Loads(w) => Exits(w)'
    /\ Waits(w) => Runs(w)' \/ Exits(w)'
    /\ Runs(w) => Exits(w)'
    /\ Exits(w) => Gone(w)'
    /\ ~Gone(w)

LEMMA OrphanMovesOut ==
    ASSUME TypeOK, Crashed, NEW w \in Worker, WorkerStep(w)
    PROVE  Outward(w)
<1> USE DEF TypeOK, Crashed, Outward, Loads, Waits, Runs, Exits, Gone, Alive
<1>1. ~PipesOpen
  BY DEF PipesOpen
<1>2. CASE BackendLoaded(w)   BY <1>1, <1>2 DEF BackendLoaded, Respond
<1>3. CASE BackendFails(w)    BY <1>1, <1>3 DEF BackendFails, Respond
<1>4. CASE TakeCommand(w)     BY <1>4 DEF TakeCommand
<1>5. CASE CoordinatorGone(w) BY <1>5 DEF CoordinatorGone
<1>6. CASE FinishEpisode(w)   BY <1>1, <1>6 DEF FinishEpisode, Respond
<1>7. CASE EpisodeRaises(w)   BY <1>1, <1>7 DEF EpisodeRaises, Respond
<1>8. CASE ProcessEnds(w)     BY <1>8 DEF ProcessEnds
<1> QED  BY <1>2, <1>3, <1>4, <1>5, <1>6, <1>7, <1>8 DEF WorkerStep

\* A step of one process leaves the others, and nobody starts a new one.
LEMMA OnlyWorkersMove ==
    ASSUME TypeOK, Crashed, [Next]_vars, NEW w \in Worker
    PROVE  /\ Crashed'
           /\ Outward(w) \/ Gone(w)' \/ UNCHANGED proc[w]
           /\ Gone(w) => Gone(w)'
<1>1. ~CoordinatorStep /\ ~Interrupt /\ ~CoordinatorDies
  BY DEF Crashed, CoordinatorStep, Launch, Dispatch, ReceiveReady, ReceiveOutcome, ReceiveFailure,
     NoticeExit, Timeout, Watched, GiveUp, Finish, StopWorkers, Interrupt, CoordinatorDies, PipesOpen
<1>2. CASE UNCHANGED vars
  BY <1>2 DEF vars, coordVars, procVars, Crashed, Gone, Alive
<1>3. ASSUME NEW v \in Worker, WorkerStep(v) \/ ProcessDies(v)
      PROVE  /\ Crashed'
             /\ Outward(w) \/ Gone(w)' \/ UNCHANGED proc[w]
             /\ Gone(w) => Gone(w)'
  <2>1. /\ UNCHANGED coordVars
        /\ \E p : proc' = [proc EXCEPT ![v] = p]
        /\ ~Gone(v)
    BY <1>3 DEF WorkerStep, BackendLoaded, BackendFails, TakeCommand, CoordinatorGone, FinishEpisode,
       EpisodeRaises, ProcessEnds, ProcessDies, Respond, Gone, Alive
  <2>2. Crashed'
    BY <2>1 DEF Crashed, coordVars
  <2>3. CASE v # w
    BY <2>1, <2>2, <2>3 DEF TypeOK, Gone, Alive
  <2>4. CASE v = w /\ WorkerStep(w)
    BY <2>1, <2>2, <2>4, OrphanMovesOut DEF Outward
  <2>5. CASE v = w /\ ProcessDies(w)
    BY <2>1, <2>2, <2>5 DEF ProcessDies, TypeOK, Gone, Alive
  <2> QED  BY <1>3, <2>3, <2>4, <2>5
<1> QED  BY <1>1, <1>2, <1>3 DEF Next

\* Loading, waiting, running and exiting are left one after the other.
LEMMA OrphanExits ==
    ASSUME NEW w \in Worker
    PROVE  Spec /\ OrphanGoesOn(w) => (pool = "crashed" ~> ~Alive(w))
<1>1. TypeOK => (Alive(w) <=> Loads(w) \/ Waits(w) \/ Runs(w) \/ Exits(w))
  BY DEF TypeOK, Alive, Loads, Waits, Runs, Exits
<1>2. TypeOK /\ Crashed /\ [Next]_vars =>
          /\ Crashed'
          /\ Loads(w) => Loads(w)' \/ Exits(w)' \/ Gone(w)'
          /\ Waits(w) => Waits(w)' \/ Runs(w)' \/ Exits(w)' \/ Gone(w)'
          /\ Runs(w) => Runs(w)' \/ Exits(w)' \/ Gone(w)'
          /\ Exits(w) => Exits(w)' \/ Gone(w)'
          /\ Gone(w) => Gone(w)'
  BY OnlyWorkersMove DEF Outward, Loads, Waits, Runs, Exits
<1>3. TypeOK /\ <<OrphanStep(w)>>_vars =>
          /\ Loads(w) => ~Loads(w)'
          /\ Waits(w) => ~Waits(w)'
          /\ Runs(w) => ~Runs(w)'
          /\ Exits(w) => ~Exits(w)'
  <2>1. ASSUME TypeOK, <<OrphanStep(w)>>_vars PROVE Outward(w)
    BY <2>1, OrphanMovesOut DEF OrphanStep, Crashed
  <2> QED  BY <2>1 DEF Outward, Loads, Waits, Runs, Exits, Gone, Alive
<1>4. (Crashed <=> pool = "crashed") /\ (Gone(w) <=> ~Alive(w))
  BY DEF Crashed, Gone
<1>5. Spec => []TypeOK
  BY TypeCorrect
<1> QED  BY <1>1, <1>2, <1>3, <1>4, <1>5, PTL DEF Spec, OrphanGoesOn

\* No worker outlives a killed coordinator for ever, whatever it was doing and
\* whatever is still in its pipe: its own steps are enough.
THEOREM OrphansLeaveTheirGpus ==
    Spec /\ (\A w \in Worker : OrphanGoesOn(w)) => OrphansExit
  BY OrphanExits DEF OrphansExit

=============================================================================
