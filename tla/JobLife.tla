------------------------------- MODULE JobLife -------------------------------
(***************************************************************************)
(* What the job queue promises the client that submitted a job: it is run  *)
(* at most once, it gets one answer, and it is settled (it will never be   *)
(* delivered again) only after the answer.                                 *)
(***************************************************************************)
CONSTANTS
    Jobs,       \* the jobs that may be submitted
    Malformed   \* those nobody can be answered about: their payload does not parse

VARIABLES
    stage,      \* stage[j]: absent, waiting, started, answered or settled
    answer      \* answer[j]: the first terminal event, which every reader stops at

vars == <<stage, answer>>

Init ==
    /\ stage = [j \in Jobs |-> "absent"]
    /\ answer = [j \in Jobs |-> "none"]

Submit(j) ==
    /\ stage[j] = "absent"
    /\ stage' = [stage EXCEPT ![j] = "waiting"]
    /\ UNCHANGED answer

Start(j) ==
    /\ stage[j] = "waiting"
    /\ stage' = [stage EXCEPT ![j] = "started"]
    /\ UNCHANGED answer

\* Only a run gives `done` or an error of its own; a job may be interrupted or abandoned
\* before its run began.
Answer(j, out) ==
    /\ \/ stage[j] = "started"
       \/ stage[j] = "waiting" /\ out \in {"interrupted", "abandoned"} /\ j \notin Malformed
    /\ stage' = [stage EXCEPT ![j] = "answered"]
    /\ answer' = [answer EXCEPT ![j] = out]

Settle(j) ==
    /\ \/ stage[j] = "answered"
       \/ stage[j] = "waiting" /\ j \in Malformed
    /\ stage' = [stage EXCEPT ![j] = "settled"]
    /\ UNCHANGED answer

Finish(j) ==
    \/ Settle(j)
    \/ \E out \in {"done", "error", "interrupted", "abandoned"} : Answer(j, out)

Next == \E j \in Jobs : Submit(j) \/ Start(j) \/ Finish(j)

Spec == Init /\ [][Next]_vars

FairSpec == Spec /\ \A j \in Jobs : WF_vars(Finish(j))

=============================================================================
