---- MODULE ManagedQwen ----
(***************************************************************************)
(* Runs that share one Qwen endpoint (application/managed_qwen.py,         *)
(* scripts/manage_qwen_process.py, scripts/serve_qwen.py).  A manager is   *)
(* one process of the manage script.  It borrows a server that answers on  *)
(* the endpoint or starts one of its own, runs the dataset processor as    *)
(* its child, and stops its own server when it leaves.  The server and the *)
(* child have sessions of their own, so nothing but the manager ends them. *)
(*                                                                         *)
(* Signals are exceptions in the manager's only thread: `at` is where it   *)
(* stands, and Signal says which clean-up is still ahead of it there.      *)
(***************************************************************************)
EXTENDS Naturals

CONSTANTS Managers, Models, MaxSignals, MaxKills

ASSUME ManagersAssumption == MaxSignals \in Nat /\ MaxKills \in Nat

VARIABLES args,     \* what each manager was asked for: a model, and only to serve it
          at,       \* where each manager stands
          server,   \* the server process it launched
          owns,     \* self._process is set
          child,    \* the dataset processor it launched
          hit,      \* where signals reached it (history)
          signals,  \* signals so far (bound)
          kills     \* managers killed so far (bound)

vars == <<args, at, server, owns, child, hit, signals, kills>>

Alive(s) == server[s] \in {"loading", "serving", "closing"}
Over(m) == at[m] \in {"gone", "killed"}

(* One socket: the second server that binds gets EADDRINUSE. *)
PortTaken == \E s \in Managers : server[s] \in {"serving", "closing"}

(* A probe is answered by whoever serves the endpoint; a slow answer counts *)
(* as none, so "none" is possible at any moment.                            *)
Answers(m, s) == server[s] = "serving" /\ args[s].model = args[m].model
Healthy(m) == \E s \in Managers : Answers(m, s)
WrongModel(m) == \E s \in Managers : server[s] = "serving" /\ args[s].model # args[m].model

Init == /\ args \in [Managers -> [model : Models, serveOnly : BOOLEAN]]
        /\ at = [m \in Managers |-> "probing"]
        /\ server = [m \in Managers |-> "none"]
        /\ owns = [m \in Managers |-> FALSE]
        /\ child = [m \in Managers |-> "none"]
        /\ hit = [m \in Managers |-> {}]
        /\ signals = 0
        /\ kills = 0

Go(m, from, to) == at[m] \in from /\ at' = [at EXCEPT ![m] = to]

---------------------------------------------------------------------------
(* The manager *)

Reuse(m) == /\ Healthy(m)
            /\ Go(m, {"probing"}, "entered")
            /\ UNCHANGED <<args, server, owns, child, hit, signals, kills>>

(* The health check raises: at first nothing is owned yet, later the server *)
(* that was started is stopped again.                                       *)
ProbeRefused(m) == /\ WrongModel(m)
                   /\ \/ Go(m, {"probing"}, "gone")
                      \/ Go(m, {"waiting"}, "stopping")
                   /\ UNCHANGED <<args, server, owns, child, hit, signals, kills>>

Start(m) == /\ Go(m, {"probing"}, "launching")
            /\ UNCHANGED <<args, server, owns, child, hit, signals, kills>>

(* A missing file, no free GPU, or Popen itself fails. *)
StartFails(m) == /\ Go(m, {"launching"}, "gone")
                 /\ UNCHANGED <<args, server, owns, child, hit, signals, kills>>

Launch(m) == /\ Go(m, {"launching"}, "recording")
             /\ server' = [server EXCEPT ![m] = "loading"]
             /\ UNCHANGED <<args, owns, child, hit, signals, kills>>

(* The process exists before it is noted and before the try block whose *)
(* handler stops it is entered; both moments are this one step.         *)
Record(m) == /\ Go(m, {"recording"}, "waiting")
             /\ owns' = [owns EXCEPT ![m] = TRUE]
             /\ UNCHANGED <<args, server, child, hit, signals, kills>>

(* Any healthy answer will do, and it is asked for before the process is polled. *)
Ready(m) == /\ Healthy(m)
            /\ Go(m, {"waiting"}, "entered")
            /\ UNCHANGED <<args, server, owns, child, hit, signals, kills>>

(* Slip: a failed start raises without stopping what it started. *)
StartLostForGood(m) == /\ Go(m, {"waiting"}, "gone")
                       /\ UNCHANGED <<args, server, owns, child, hit, signals, kills>>

(* The process exited, or the start took too long. *)
StartLost(m) == /\ Go(m, {"waiting"}, "stopping")
                /\ UNCHANGED <<args, server, owns, child, hit, signals, kills>>

Serve(m) == /\ args[m].serveOnly
            /\ Go(m, {"entered"}, IF owns[m] THEN "serving" ELSE "stopping")
            /\ UNCHANGED <<args, server, owns, child, hit, signals, kills>>

ServeReturns(m) == /\ server[m] = "dead"
                   /\ Go(m, {"serving"}, "stopping")
                   /\ UNCHANGED <<args, server, owns, child, hit, signals, kills>>

RunLaunch(m) == /\ ~args[m].serveOnly
                /\ Go(m, {"entered"}, "spawned")
                /\ child' = [child EXCEPT ![m] = "running"]
                /\ UNCHANGED <<args, server, owns, hit, signals, kills>>

(* No process can be made: the server is stopped all the same. *)
RunLaunchFails(m) == /\ ~args[m].serveOnly
                     /\ Go(m, {"entered"}, "stopping")
                     /\ UNCHANGED <<args, server, owns, child, hit, signals, kills>>

(* The child is launched before the try block that looks after it. *)
RunWatch(m) == /\ Go(m, {"spawned"}, "running")
               /\ UNCHANGED <<args, server, owns, child, hit, signals, kills>>

RunReturns(m) == /\ child[m] = "ended"
                 /\ Go(m, {"running", "quitting"}, "stopping")
                 /\ UNCHANGED <<args, server, owns, child, hit, signals, kills>>

(* The child was told to end and did not within the limit. *)
RunKilled(m) == /\ child[m] = "running"
                /\ Go(m, {"quitting"}, "stopping")
                /\ child' = [child EXCEPT ![m] = "ended"]
                /\ UNCHANGED <<args, server, owns, hit, signals, kills>>

(* stop(): nothing to stop, a process that has exited, or a signal to its group. *)
StopNothing(m) == /\ ~owns[m] \/ server[m] = "dead"
                  /\ Go(m, {"stopping"}, "gone")
                  /\ owns' = [owns EXCEPT ![m] = FALSE]
                  /\ UNCHANGED <<args, server, child, hit, signals, kills>>

(* A server that is still loading has no handler and dies at once. *)
Terminated(s) == IF s = "loading" THEN "dead" ELSE "closing"

StopSignals(m) == /\ owns[m]
                  /\ Alive(m)
                  /\ Go(m, {"stopping"}, "reaping")
                  /\ server' = [server EXCEPT ![m] = Terminated(@)]
                  /\ UNCHANGED <<args, owns, child, hit, signals, kills>>

(* Slip: stop() waits for the server without a limit and never kills it. *)
PatientReaps(m) == /\ server[m] = "dead"
                   /\ Go(m, {"reaping"}, "gone")
                   /\ owns' = [owns EXCEPT ![m] = FALSE]
                   /\ UNCHANGED <<args, server, child, hit, signals, kills>>

(* It has ended, or it is killed when the limit is over. *)
StopReaps(m) == /\ Go(m, {"reaping"}, "gone")
                /\ server' = [server EXCEPT ![m] = "dead"]
                /\ owns' = [owns EXCEPT ![m] = FALSE]
                /\ UNCHANGED <<args, child, hit, signals, kills>>

---------------------------------------------------------------------------
(* Signals and kills *)

(* Slip: the server is stopped without ending the child first. *)
HastySignal(p) ==
    IF p \in {"probing", "launching", "recording", "stopping", "reaping"} THEN "gone"
    ELSE "stopping"

(* Where a signal takes the manager.  Before Record nothing is owned and the *)
(* exception leaves main; from then on stop() is ahead, and a watched child  *)
(* is told to end first.  Inside the clean-up nothing is left to catch it.   *)
AfterSignal(p) ==
    CASE p \in {"probing", "launching", "recording", "stopping", "reaping"} -> "gone"
      [] p = "running" -> "quitting"
      [] OTHER -> "stopping"

Signal(m) == /\ ~Over(m)
             /\ signals < MaxSignals
             /\ signals' = signals + 1
             /\ at' = [at EXCEPT ![m] = AfterSignal(@)]
             /\ hit' = [hit EXCEPT ![m] = @ \cup {at[m]}]
             /\ UNCHANGED <<args, server, owns, child, kills>>

Kill(m) == /\ ~Over(m)
           /\ kills < MaxKills
           /\ kills' = kills + 1
           /\ at' = [at EXCEPT ![m] = "killed"]
           /\ UNCHANGED <<args, server, owns, child, hit, signals>>

---------------------------------------------------------------------------
(* The server and the child *)

Bind(s) == /\ server[s] = "loading"
           /\ server' = [server EXCEPT ![s] = IF PortTaken THEN "dead" ELSE "serving"]
           /\ UNCHANGED <<args, at, owns, child, hit, signals, kills>>

(* The model does not load, the server crashes, or it has shut down. *)
ServerExits(s) == /\ Alive(s)
                  /\ server' = [server EXCEPT ![s] = "dead"]
                  /\ UNCHANGED <<args, at, owns, child, hit, signals, kills>>

ChildExits(m) == /\ child[m] = "running"
                 /\ child' = [child EXCEPT ![m] = "ended"]
                 /\ UNCHANGED <<args, at, server, owns, hit, signals, kills>>

Manage(m) == \/ Reuse(m) \/ ProbeRefused(m) \/ Start(m) \/ StartFails(m)
             \/ Launch(m) \/ Record(m) \/ Ready(m) \/ StartLost(m)
             \/ Serve(m) \/ ServeReturns(m)
             \/ RunLaunch(m) \/ RunLaunchFails(m) \/ RunWatch(m) \/ RunReturns(m) \/ RunKilled(m)
             \/ StopNothing(m) \/ StopSignals(m) \/ StopReaps(m)

Next == \E m \in Managers : \/ Manage(m)
                            \/ Signal(m) \/ Kill(m)
                            \/ Bind(m) \/ ServerExits(m) \/ ChildExits(m)

Spec == Init /\ [][Next]_vars

(* The manager's waits all have limits, so it goes on.  Nothing is assumed of *)
(* the server or the child: either may hang.                                  *)
FairSpec == Spec /\ \A m \in Managers : WF_vars(Manage(m))

---------------------------------------------------------------------------
(* Properties *)

Places == {"probing", "launching", "recording", "waiting", "entered", "serving",
           "spawned", "running", "quitting", "stopping", "reaping", "gone", "killed"}

TypeOK == /\ args \in [Managers -> [model : Models, serveOnly : BOOLEAN]]
          /\ at \in [Managers -> Places]
          /\ server \in [Managers -> {"none", "loading", "serving", "closing", "dead"}]
          /\ owns \in [Managers -> BOOLEAN]
          /\ child \in [Managers -> {"none", "running", "ended"}]
          /\ hit \in [Managers -> SUBSET Places]
          /\ signals \in Nat
          /\ kills \in Nat

(* "Own one local server for a bounded lifetime": a manager that has left, by *)
(* whatever way but a kill, leaves no server on a GPU.  The exact exception   *)
(* is a signal between Popen and the try block of _start, or one that         *)
(* comes while stop() is at work.                                             *)
AbandonedServersWereInterrupted ==
    \A m \in Managers : at[m] = "gone" /\ Alive(m) =>
        hit[m] \cap {"recording", "stopping", "reaping"} # {}

(* The server is taken away only after the run that uses it has ended, on    *)
(* every path out of _run.  The exact exception is a signal between the      *)
(* launch of the child and the try block, or a second one while the child is *)
(* being ended.                                                              *)
RunEndsBeforeItsServer ==
    \A m \in Managers : at[m] \in {"stopping", "reaping", "gone"} /\ child[m] = "running" =>
        hit[m] \cap {"spawned", "quitting"} # {}

(* A manager that got a signal leaves, even if its child and its server      *)
(* ignore what they are told: both waits fall back to SIGKILL.               *)
SignalledManagersLeave ==
    \A m \in Managers : hit[m] # {} ~> Over(m)

====
