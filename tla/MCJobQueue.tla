----------------------------- MODULE MCJobQueue -----------------------------
(* Instances of JobQueue for TLC: the fault budgets of each run. *)
EXTENDS JobQueue, TLC

Budget(crash, stop, error, lapse, expiry) ==
    [k \in FaultKinds |->
        CASE k = "crash" -> crash [] k = "stop" -> stop [] k = "error" -> error
          [] k = "lapse" -> lapse [] k = "expiry" -> expiry]

OneOfEach == Budget(1, 1, 1, 0, 0)
Lapses    == Budget(1, 0, 1, 1, 1)
Dying     == Budget(3, 0, 0, 0, 0)

WorkerSymmetry == Permutations(Workers)
Symmetry == WorkerSymmetry \cup Permutations(Slots)

\* As long as no job is malformed, jobs are alike too.
JobSymmetry == Symmetry \cup Permutations(Jobs)

=============================================================================
