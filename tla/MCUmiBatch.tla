----------------------------- MODULE MCUmiBatch -----------------------------
(* A small instance of a UMI batch for TLC. *)
EXTENDS UmiBatch, TLC

CONSTANTS e1, e2, g1, g2, w1, w2

TwoEpisodes == <<e1, e2>>
TwoGroups == <<g1, g2>>
GPUs == {w1, w2}

\* The GPUs are interchangeable; no liveness property is checked with it.
WorkerSymmetry == Permutations(Worker)

\* The long histories of the preparation are looked at without a driver.  Beside
\* a driver there are three commands, faults and kills in all, and since it reads
\* neither answers nor groups, all episodes have one answer and one group.  No
\* restart finds another selection within that: a restart refused for one is
\* covered by the proofs only.
Scope ==
    \/ start = 0 /\ driver = "off" /\ kills = 0
    \/ /\ commands + faults + kills <= 3
       /\ \A e \in Episode : /\ screening[e] \in Judgement => screening[e].answer # "right"
                             /\ groupOf[e] = g1

=============================================================================
