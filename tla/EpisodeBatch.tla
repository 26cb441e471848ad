---------------------------- MODULE EpisodeBatch ----------------------------
(***************************************************************************)
(* What every dataset runner of the package promises about a batch of      *)
(* episodes, whatever executes them: an episode waits, is started at most  *)
(* MaxAttempts times, and is given exactly one final outcome, which never  *)
(* changes; the runner hands back a complete batch only when every episode *)
(* has its outcome, and otherwise stops by raising.                        *)
(***************************************************************************)
EXTENDS Naturals

CONSTANTS
    Episode,      \* the selected episode ids
    MaxAttempts   \* how many times one episode may be started

VARIABLES
    stage,        \* [Episode -> "waiting" | "running" | "done"]
    tries,        \* [Episode -> number of times the episode was started]
    batch         \* "open" | "complete" | "aborted"

vars == <<stage, tries, batch>>

TypeOK ==
    /\ stage \in [Episode -> {"waiting", "running", "done"}]
    /\ tries \in [Episode -> 0..MaxAttempts]
    /\ batch \in {"open", "complete", "aborted"}

Init ==
    /\ stage = [e \in Episode |-> "waiting"]
    /\ tries = [e \in Episode |-> 0]
    /\ batch = "open"

Start(e) ==
    /\ batch = "open"
    /\ stage[e] = "waiting"
    /\ tries[e] < MaxAttempts
    /\ stage' = [stage EXCEPT ![e] = "running"]
    /\ tries' = [tries EXCEPT ![e] = @ + 1]
    /\ UNCHANGED batch

\* A lost execution is put back, unless its last attempt is spent.
Requeue(e) ==
    /\ batch = "open"
    /\ stage[e] = "running"
    /\ tries[e] < MaxAttempts
    /\ stage' = [stage EXCEPT ![e] = "waiting"]
    /\ UNCHANGED <<tries, batch>>

Finish(e) ==
    /\ batch = "open"
    /\ stage[e] = "running"
    /\ stage' = [stage EXCEPT ![e] = "done"]
    /\ UNCHANGED <<tries, batch>>

\* Nothing is left to run the episode: it is recorded as not run.
GiveUp(e) ==
    /\ batch = "open"
    /\ stage[e] = "waiting"
    /\ \A f \in Episode : stage[f] # "running"
    /\ stage' = [stage EXCEPT ![e] = "done"]
    /\ UNCHANGED <<tries, batch>>

Complete ==
    /\ batch = "open"
    /\ \A e \in Episode : stage[e] = "done"
    /\ batch' = "complete"
    /\ UNCHANGED <<stage, tries>>

Abort ==
    /\ batch = "open"
    /\ batch' = "aborted"
    /\ UNCHANGED <<stage, tries>>

Next ==
    \/ \E e \in Episode : Start(e) \/ Requeue(e) \/ Finish(e) \/ GiveUp(e)
    \/ Complete
    \/ Abort

Spec == Init /\ [][Next]_vars

=============================================================================
