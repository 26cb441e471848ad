---- MODULE ManagedQwenProofs ----
(***************************************************************************)
(* Proofs about ManagedQwen, for any set of managers and models and any    *)
(* number of signals and kills.                                            *)
(***************************************************************************)
EXTENDS ManagedQwen, TLAPS

Handles == {"recording", "gone", "killed"}

(* A server that lives is owned, or its manager stands where it does not know *)
(* of it; a manager that left one behind was interrupted.                     *)
Held(m) == Alive(m) =>
    /\ at[m] \notin {"probing", "launching"}
    /\ owns[m] \/ at[m] \in Handles
    /\ at[m] = "gone" => hit[m] \cap {"recording", "stopping", "reaping"} # {}

(* A child that runs is looked after, or its manager was interrupted. *)
Watched(m) == child[m] = "running" =>
    \/ at[m] \in {"spawned", "running", "quitting", "killed"}
    \/ hit[m] \cap {"spawned", "quitting"} # {}

IInv == TypeOK /\ \A m \in Managers : Held(m) /\ Watched(m)

(* Nothing runs before its manager has launched it. *)
LEMMA InitHolds == Init => IInv
BY DEF Init, IInv, TypeOK, Held, Watched, Alive, Places, Handles

(* A signal leaves every process as it is; what it moves is the manager, and *)
(* wherever no clean-up is ahead of the manager any more, `hit` says so.     *)
LEMMA SignalKeeps ==
    ASSUME IInv, NEW m \in Managers, Signal(m)
    PROVE  IInv'
<1> USE DEF IInv
<1> DEFINE p == at[m]
<1>1. p \in Places /\ AfterSignal(p) \in Places
  BY DEF TypeOK, Places, AfterSignal
<1>2. /\ at' = [at EXCEPT ![m] = AfterSignal(p)]
      /\ hit' = [hit EXCEPT ![m] = @ \cup {p}]
      /\ UNCHANGED <<args, server, owns, child, kills>>
      /\ signals' = signals + 1
  BY DEF Signal
<1>3. TypeOK'
  BY <1>1, <1>2 DEF TypeOK
<1>4. at'[m] = AfterSignal(p) /\ hit'[m] = hit[m] \cup {p}
  BY <1>2 DEF TypeOK
<1>5. Held(m)'
  <2>1. Alive(m)' => Alive(m)
    BY <1>2 DEF Alive
  <2>2. CASE p \in {"recording", "stopping", "reaping"}
    BY <2>1, <2>2, <1>2, <1>4 DEF Held, Handles, AfterSignal
  <2>3. CASE p \in {"waiting", "entered", "serving", "spawned", "running", "quitting"}
    BY <2>1, <2>3, <1>2, <1>4 DEF Held, Handles, AfterSignal
  <2>4. CASE p \in {"probing", "launching"}
    BY <2>1, <2>4 DEF Held
  <2>5. CASE p \in {"gone", "killed"}
    BY <2>5 DEF Signal, Over
  <2> QED BY <1>1, <2>2, <2>3, <2>4, <2>5 DEF Places
<1>6. Watched(m)'
  BY <1>1, <1>2, <1>4 DEF Watched, AfterSignal, Places, Signal, Over
<1>7. ASSUME NEW n \in Managers, n # m
      PROVE  Held(n)' /\ Watched(n)'
  BY <1>2, <1>7 DEF TypeOK, Held, Watched, Alive
<1> QED BY <1>3, <1>5, <1>6, <1>7

(* Every step of a manager keeps the invariant. *)
LEMMA ManageKeeps ==
    ASSUME IInv, NEW m \in Managers, Manage(m)
    PROVE  IInv'
<1> USE DEF IInv, TypeOK, Held, Watched, Alive, Places, Handles, Go
<1>1. CASE Reuse(m)  BY <1>1 DEF Reuse
<1>2. CASE ProbeRefused(m)  BY <1>2, SMTT(30) DEF ProbeRefused
<1>3. CASE Start(m)  BY <1>3 DEF Start
<1>4. CASE StartFails(m)  BY <1>4 DEF StartFails
<1>5. CASE Launch(m)  BY <1>5 DEF Launch
<1>6. CASE Record(m)  BY <1>6 DEF Record
<1>7. CASE Ready(m)  BY <1>7 DEF Ready
<1>8. CASE StartLost(m)  BY <1>8 DEF StartLost
<1>9. CASE Serve(m)  BY <1>9 DEF Serve
<1>10. CASE ServeReturns(m)  BY <1>10 DEF ServeReturns
<1>11. CASE RunLaunch(m)  BY <1>11 DEF RunLaunch
<1>12. CASE RunWatch(m)  BY <1>12 DEF RunWatch
<1>13. CASE RunReturns(m)  BY <1>13 DEF RunReturns
<1>14. CASE RunKilled(m)  BY <1>14 DEF RunKilled
<1>15. CASE StopNothing(m)  BY <1>15 DEF StopNothing
<1>16. CASE StopSignals(m)  BY <1>16 DEF StopSignals, Terminated
<1>17. CASE StopReaps(m)  BY <1>17 DEF StopReaps
<1>18. CASE RunLaunchFails(m)  BY <1>18 DEF RunLaunchFails
<1> QED BY <1>1, <1>2, <1>3, <1>4, <1>5, <1>6, <1>7, <1>8, <1>9, <1>10, <1>11, <1>12, <1>13, <1>14, <1>15, <1>16, <1>17, <1>18 DEF Manage

(* So does what happens around it: kills, servers, children. *)
LEMMA SurroundingsKeep ==
    ASSUME IInv, NEW m \in Managers,
           Kill(m) \/ Bind(m) \/ ServerExits(m) \/ ChildExits(m)
    PROVE  IInv'
<1> USE DEF IInv, TypeOK, Held, Watched, Alive, Places, Handles
<1>1. CASE Kill(m)         BY <1>1 DEF Kill, Over
<1>2. CASE Bind(m)         BY <1>2 DEF Bind
<1>3. CASE ServerExits(m)  BY <1>3 DEF ServerExits
<1>4. CASE ChildExits(m)   BY <1>4 DEF ChildExits
<1> QED BY <1>1, <1>2, <1>3, <1>4

LEMMA Invariance == Spec => []IInv
<1>1. Init => IInv
  BY InitHolds
<1>2. IInv /\ [Next]_vars => IInv'
  <2> SUFFICES ASSUME IInv, [Next]_vars PROVE IInv'
    OBVIOUS
  <2>1. CASE Next
    <3> PICK m \in Managers : \/ Manage(m) \/ Signal(m)
                              \/ Kill(m) \/ Bind(m) \/ ServerExits(m) \/ ChildExits(m)
      BY <2>1 DEF Next
    <3> QED BY ManageKeeps, SignalKeeps, SurroundingsKeep
  <2>2. CASE UNCHANGED vars
    BY <2>2 DEF vars, IInv, TypeOK, Held, Watched, Alive
  <2> QED BY <2>1, <2>2
<1> QED BY <1>1, <1>2, PTL DEF Spec

(* A manager that left without being killed left no server behind, unless a *)
(* signal caught it where it did not know of the server or was stopping it. *)
THEOREM NoServerAbandoned == Spec => []AbandonedServersWereInterrupted
<1>1. IInv => AbandonedServersWereInterrupted
  BY DEF IInv, Held, AbandonedServersWereInterrupted
<1> QED BY <1>1, Invariance, PTL

(* The server is never taken from a run that its own manager still has to end. *)
THEOREM ServerOutlivesItsRun == Spec => []RunEndsBeforeItsServer
<1>1. IInv => RunEndsBeforeItsServer
  BY DEF IInv, Watched, RunEndsBeforeItsServer
<1> QED BY <1>1, Invariance, PTL

---------------------------------------------------------------------------
(* A signalled manager leaves *)

(* A signal never lets a manager go on with its work: it is in its clean-up  *)
(* from then on, with a child or a server that it can wait for and kill.     *)
Leaving == {"quitting", "stopping", "reaping", "gone", "killed"}
CleanUpIsPossible(m) ==
    /\ hit[m] # {} => at[m] \in Leaving
    /\ at[m] \in {"spawned", "running", "quitting"} => child[m] # "none"
    /\ at[m] = "recording" \/ owns[m] => server[m] # "none"
LeaveInv == TypeOK /\ \A m \in Managers : CleanUpIsPossible(m)

(* The guards of the steps of Manage in the clean-up. *)
MayLeave(m) == \/ at[m] = "quitting" /\ child[m] \in {"running", "ended"}
               \/ at[m] = "stopping" /\ (~owns[m] \/ server[m] = "dead")
               \/ at[m] = "stopping" /\ owns[m] /\ Alive(m)
               \/ at[m] = "reaping"

(* Weak fairness of Manage(m), with the guards in the place of ENABLED: it is *)
(* not for ever that m may take a step of its clean-up and takes none.        *)
GoesOn(m) == []<>(~MayLeave(m)) \/ []<><<Manage(m)>>_vars

Hit(m) == hit[m] # {}
Quits(m) == at[m] = "quitting"
Stops(m) == at[m] = "stopping"
Reaps(m) == at[m] = "reaping"
Leaves(m) == hit[m] # {} ~> Over(m)

(* A step of another manager leaves a manager where it is.  Its child may end *)
(* and its server may die, but neither is forgotten.                          *)
LEMMA OthersStayPut ==
    ASSUME TypeOK, NEW m \in Managers, NEW k \in Managers, k # m,
           \/ Manage(k) \/ Signal(k) \/ Kill(k)
           \/ Bind(k) \/ ServerExits(k) \/ ChildExits(k)
    PROVE  UNCHANGED <<at[m], server[m], owns[m], child[m], hit[m]>>
<1> USE DEF TypeOK, Go
<1>1. CASE Manage(k)
  <2> USE <1>1
  <2>1. CASE Reuse(k)  BY <2>1 DEF Reuse
  <2>2. CASE ProbeRefused(k)  BY <2>2 DEF ProbeRefused
  <2>3. CASE Start(k)  BY <2>3 DEF Start
  <2>4. CASE StartFails(k)  BY <2>4 DEF StartFails
  <2>5. CASE Launch(k)  BY <2>5 DEF Launch
  <2>6. CASE Record(k)  BY <2>6 DEF Record
  <2>7. CASE Ready(k)  BY <2>7 DEF Ready
  <2>8. CASE StartLost(k)  BY <2>8 DEF StartLost
  <2>9. CASE Serve(k)  BY <2>9 DEF Serve
  <2>10. CASE ServeReturns(k)  BY <2>10 DEF ServeReturns
  <2>11. CASE RunLaunch(k)  BY <2>11 DEF RunLaunch
  <2>12. CASE RunWatch(k)  BY <2>12 DEF RunWatch
  <2>13. CASE RunReturns(k)  BY <2>13 DEF RunReturns
  <2>14. CASE RunKilled(k)  BY <2>14 DEF RunKilled
  <2>15. CASE StopNothing(k)  BY <2>15 DEF StopNothing
  <2>16. CASE StopSignals(k)  BY <2>16 DEF StopSignals
  <2>17. CASE StopReaps(k)  BY <2>17 DEF StopReaps
  <2>18. CASE RunLaunchFails(k)  BY <2>18 DEF RunLaunchFails
  <2> QED BY <2>1, <2>2, <2>3, <2>4, <2>5, <2>6, <2>7, <2>8, <2>9, <2>10, <2>11, <2>12, <2>13, <2>14, <2>15, <2>16, <2>17, <2>18 DEF Manage
<1>2. CASE Signal(k)  BY <1>2 DEF Signal
<1>3. CASE Kill(k)  BY <1>3 DEF Kill
<1>4. CASE Bind(k)  BY <1>4 DEF Bind
<1>5. CASE ServerExits(k)  BY <1>5 DEF ServerExits
<1>6. CASE ChildExits(k)  BY <1>6 DEF ChildExits
<1> QED BY <1>1, <1>2, <1>3, <1>4, <1>5, <1>6

(* What a manager's own step does to it: from the clean-up it only goes on. *)
Onward(m) == /\ Hit(m)'
             /\ Quits(m) => Stops(m)' \/ Over(m)'
             /\ Stops(m) => Reaps(m)' \/ Over(m)'
             /\ Reaps(m) => Over(m)'
             /\ Over(m) => Over(m)'

(* Of its own steps, none leads out of the clean-up but to its end. *)
LEMMA ManageLeaves ==
    ASSUME TypeOK, NEW m \in Managers, CleanUpIsPossible(m), Manage(m)
    PROVE  /\ CleanUpIsPossible(m)'
           /\ Hit(m) => Onward(m)
<1> USE DEF TypeOK, CleanUpIsPossible, Leaving, Onward, Hit, Quits, Stops, Reaps, Over, Go
<1>1. CASE Reuse(m)  BY <1>1 DEF Reuse
<1>2. CASE ProbeRefused(m)  BY <1>2 DEF ProbeRefused
<1>3. CASE Start(m)  BY <1>3 DEF Start
<1>4. CASE StartFails(m)  BY <1>4 DEF StartFails
<1>5. CASE Launch(m)  BY <1>5 DEF Launch
<1>6. CASE Record(m)  BY <1>6 DEF Record
<1>7. CASE Ready(m)  BY <1>7 DEF Ready
<1>8. CASE StartLost(m)  BY <1>8 DEF StartLost
<1>9. CASE Serve(m)  BY <1>9 DEF Serve
<1>10. CASE ServeReturns(m)  BY <1>10 DEF ServeReturns
<1>11. CASE RunLaunch(m)  BY <1>11 DEF RunLaunch
<1>12. CASE RunWatch(m)  BY <1>12 DEF RunWatch
<1>13. CASE RunReturns(m)  BY <1>13 DEF RunReturns
<1>14. CASE RunKilled(m)  BY <1>14 DEF RunKilled
<1>15. CASE StopNothing(m)  BY <1>15 DEF StopNothing
<1>16. CASE StopSignals(m)  BY <1>16 DEF StopSignals, Terminated
<1>17. CASE StopReaps(m)  BY <1>17 DEF StopReaps
<1>18. CASE RunLaunchFails(m)  BY <1>18 DEF RunLaunchFails
<1> QED BY <1>1, <1>2, <1>3, <1>4, <1>5, <1>6, <1>7, <1>8, <1>9, <1>10, <1>11, <1>12, <1>13, <1>14, <1>15, <1>16, <1>17, <1>18 DEF Manage

(* A signal, the second included, only takes it further. *)
LEMMA SignalLeaves ==
    ASSUME TypeOK, NEW m \in Managers, CleanUpIsPossible(m), Signal(m)
    PROVE  /\ CleanUpIsPossible(m)'
           /\ Onward(m)
<1>1. at'[m] = AfterSignal(at[m]) /\ hit'[m] = hit[m] \cup {at[m]} /\ ~Over(m)
  BY DEF Signal, TypeOK
<1>2. UNCHANGED <<server[m], owns[m], child[m]>>
  BY DEF Signal
<1>3. AfterSignal(at[m]) \in {"gone", "quitting", "stopping"}
  BY DEF AfterSignal
<1>4. AfterSignal(at[m]) = "quitting" => at[m] = "running"
  BY DEF AfterSignal
<1>5. at[m] = "quitting" => AfterSignal(at[m]) = "stopping"
  BY DEF AfterSignal
<1>6. at[m] \in {"stopping", "reaping"} => AfterSignal(at[m]) = "gone"
  BY DEF AfterSignal
<1>7. CleanUpIsPossible(m)'
  BY <1>1, <1>2, <1>3, <1>4 DEF CleanUpIsPossible, Leaving
<1>8. Onward(m)
  BY <1>1, <1>3, <1>5, <1>6 DEF Onward, Hit, Quits, Stops, Reaps, Over
<1> QED BY <1>7, <1>8

(* What happens around it does not take it back. *)
LEMMA SurroundingsLeave ==
    ASSUME TypeOK, NEW m \in Managers, CleanUpIsPossible(m),
           Kill(m) \/ Bind(m) \/ ServerExits(m) \/ ChildExits(m)
    PROVE  /\ CleanUpIsPossible(m)'
           /\ Over(m)' \/ UNCHANGED at[m]
           /\ Over(m) => Over(m)'
           /\ UNCHANGED hit[m]
<1> USE DEF TypeOK, CleanUpIsPossible, Leaving, Over
<1>1. CASE Kill(m)         BY <1>1 DEF Kill
<1>2. CASE Bind(m)         BY <1>2 DEF Bind
<1>3. CASE ServerExits(m)  BY <1>3 DEF ServerExits
<1>4. CASE ChildExits(m)   BY <1>4 DEF ChildExits
<1> QED BY <1>1, <1>2, <1>3, <1>4

(* The three together: what a step does to one manager. *)
LEMMA StepLeaves ==
    ASSUME LeaveInv, [Next]_vars, NEW m \in Managers
    PROVE  /\ CleanUpIsPossible(m)'
           /\ Hit(m) => \/ Onward(m)
                        \/ Hit(m)' /\ Over(m)'
                        \/ Hit(m)' /\ UNCHANGED at[m]
<1> USE DEF LeaveInv
<1>1. CASE Next
  <2> PICK k \in Managers : \/ Manage(k) \/ Signal(k) \/ Kill(k)
                            \/ Bind(k) \/ ServerExits(k) \/ ChildExits(k)
    BY <1>1 DEF Next
  <2>1. CASE k = m
    <3>1. CleanUpIsPossible(m)
      OBVIOUS
    <3>2. CASE Manage(m)
      BY <3>1, <3>2, ManageLeaves
    <3>3. CASE Signal(m)
      BY <3>1, <3>3, SignalLeaves
    <3>4. CASE Kill(m) \/ Bind(m) \/ ServerExits(m) \/ ChildExits(m)
      BY <3>1, <3>4, SurroundingsLeave DEF Hit, Over
    <3> QED BY <2>1, <3>2, <3>3, <3>4
  <2>2. CASE k # m
    BY <2>2, OthersStayPut DEF CleanUpIsPossible, Hit
  <2> QED BY <2>1, <2>2
<1>2. CASE UNCHANGED vars
  BY <1>2 DEF vars, CleanUpIsPossible, Hit
<1> QED BY <1>1, <1>2

(* A manager that a signal reached stays on the way out, whoever steps. *)
LEMMA OnTheWay ==
    ASSUME NEW m \in Managers, LeaveInv, Hit(m), [Next]_vars
    PROVE  /\ Hit(m)'
           /\ Quits(m) => Quits(m)' \/ Stops(m)' \/ Over(m)'
           /\ Stops(m) => Stops(m)' \/ Reaps(m)' \/ Over(m)'
           /\ Reaps(m) => Reaps(m)' \/ Over(m)'
           /\ Over(m) => Over(m)'
  BY StepLeaves DEF Onward, Quits, Stops, Reaps, Over

(* A step of the manager itself always takes it on. *)
LEMMA OneStepOn ==
    ASSUME NEW m \in Managers, LeaveInv, Manage(m)
    PROVE  /\ Quits(m) => ~Quits(m)'
           /\ Stops(m) => ~Stops(m)'
           /\ Reaps(m) => ~Reaps(m)'
<1> USE DEF LeaveInv, TypeOK, Quits, Stops, Reaps, Go
<1>1. CASE Reuse(m)  BY <1>1 DEF Reuse
<1>2. CASE ProbeRefused(m)  BY <1>2 DEF ProbeRefused
<1>3. CASE Start(m)  BY <1>3 DEF Start
<1>4. CASE StartFails(m)  BY <1>4 DEF StartFails
<1>5. CASE Launch(m)  BY <1>5 DEF Launch
<1>6. CASE Record(m)  BY <1>6 DEF Record
<1>7. CASE Ready(m)  BY <1>7 DEF Ready
<1>8. CASE StartLost(m)  BY <1>8 DEF StartLost
<1>9. CASE Serve(m)  BY <1>9 DEF Serve
<1>10. CASE ServeReturns(m)  BY <1>10 DEF ServeReturns
<1>11. CASE RunLaunch(m)  BY <1>11 DEF RunLaunch
<1>12. CASE RunWatch(m)  BY <1>12 DEF RunWatch
<1>13. CASE RunReturns(m)  BY <1>13 DEF RunReturns
<1>14. CASE RunKilled(m)  BY <1>14 DEF RunKilled
<1>15. CASE StopNothing(m)  BY <1>15 DEF StopNothing
<1>16. CASE StopSignals(m)  BY <1>16 DEF StopSignals, Terminated
<1>17. CASE StopReaps(m)  BY <1>17 DEF StopReaps
<1>18. CASE RunLaunchFails(m)  BY <1>18 DEF RunLaunchFails
<1> QED BY <1>1, <1>2, <1>3, <1>4, <1>5, <1>6, <1>7, <1>8, <1>9, <1>10, <1>11, <1>12, <1>13, <1>14, <1>15, <1>16, <1>17, <1>18 DEF Manage

(* So a signalled manager is always in its clean-up. *)
LEMMA LeaveAlways == Spec => []LeaveInv
<1>1. Init => LeaveInv
  BY InitHolds DEF Init, IInv, LeaveInv, CleanUpIsPossible
<1>2. IInv' /\ LeaveInv /\ [Next]_vars => LeaveInv'
  BY StepLeaves DEF IInv, LeaveInv
<1> QED BY <1>1, <1>2, Invariance, PTL DEF Spec

(* quitting, stopping and reaping are left one after the other. *)
LEMMA SignalledLeaves ==
    ASSUME NEW m \in Managers
    PROVE  Spec /\ GoesOn(m) => Leaves(m)
<1>1. LeaveInv => (Hit(m) => Quits(m) \/ Stops(m) \/ Reaps(m) \/ Over(m))
  BY DEF LeaveInv, CleanUpIsPossible, Hit, Leaving, Quits, Stops, Reaps, Over
<1>2. LeaveInv => (Quits(m) \/ Stops(m) \/ Reaps(m) => MayLeave(m))
  BY DEF LeaveInv, TypeOK, CleanUpIsPossible, Quits, Stops, Reaps, MayLeave, Alive
<1>3. LeaveInv /\ Hit(m) /\ [Next]_vars =>
           /\ Hit(m)'
           /\ Quits(m) => Quits(m)' \/ Stops(m)' \/ Over(m)'
           /\ Stops(m) => Stops(m)' \/ Reaps(m)' \/ Over(m)'
           /\ Reaps(m) => Reaps(m)' \/ Over(m)'
           /\ Over(m) => Over(m)'
  BY OnTheWay
<1>4. LeaveInv /\ <<Manage(m)>>_vars =>
           /\ Quits(m) => ~Quits(m)'
           /\ Stops(m) => ~Stops(m)'
           /\ Reaps(m) => ~Reaps(m)'
  BY OneStepOn
<1>5. Hit(m) <=> hit[m] # {}
  BY DEF Hit
<1> QED  BY <1>1, <1>2, <1>3, <1>4, <1>5, LeaveAlways, PTL DEF Spec, GoesOn, Leaves

(* A manager that a signal reached leaves, whatever its server, its child and *)
(* the other managers do: with a limit on every wait, the clean-up needs only *)
(* the manager's own steps.                                                   *)
THEOREM SignalledAreGone ==
    Spec /\ (\A m \in Managers : GoesOn(m)) => SignalledManagersLeave
<1>1. SignalledManagersLeave <=> \A m \in Managers : Leaves(m)
  BY DEF SignalledManagersLeave, Leaves
<1> QED  BY <1>1, SignalledLeaves

====
