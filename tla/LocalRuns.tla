----------------------------- MODULE LocalRuns -----------------------------
(***************************************************************************)
(* The research runs a chat of the command line starts: tasks of its own   *)
(* process, which main waits for when the investor leaves.  The turns      *)
(* report and forget them as they do those on the queue (DeskRuns).        *)
(*                                                                         *)
(* Grain: one action is the code up to the next await.  The methods of     *)
(* LocalRuns await nothing but drain's gather, so each is one action.      *)
(***************************************************************************)
EXTENDS Naturals, Sequences

CONSTANTS
    Companies,   \* the tickers the investor asks about
    MaxRuns      \* how many runs are started

LocalAssumption == MaxRuns \in Nat

VARIABLES
    tasks,    \* _tasks: tasks[k] is the id of the run kept for ticker k; 0 when there is none
    run,      \* run[i]: the ticker of run i, and how its task is
    desk,     \* prompt: input is awaited; turn; draining; left: the process is over
    over,     \* reported_runs of the turn, as pairs of a ticker and an id
    awaited,  \* the runs drain gathers
    heard,    \* history, heard[i]: in how many replies run i was reported over
    gaveUp    \* the investor pressed ctrl-c rather than wait

vars == <<tasks, run, desk, over, awaited, heard, gaveUp>>

Run == [ticker : Companies, task : {"running", "done", "failed", "cancelled"}]

Running(i) == i # 0 /\ run[i].task = "running"
Kept == {k \in Companies : tasks[k] # 0}

Init ==
    /\ tasks = [k \in Companies |-> 0]
    /\ run = <<>>
    /\ desk = "prompt"
    /\ over = {}
    /\ awaited = {}
    /\ heard = <<>>
    /\ gaveUp = FALSE

-----------------------------------------------------------------------------
(* LocalRuns *)

\* active: the runs kept whose task is over, as research_block reports them.
Over == {<<k, tasks[k]>> : k \in {k \in Kept : ~Running(tasks[k])}}

\* Mutant: a second run of a company is started beside the first.
StartAnyway(k) ==
    /\ desk = "turn"
    /\ Len(run) < MaxRuns
    /\ run' = Append(run, [ticker |-> k, task |-> "running"])
    /\ heard' = Append(heard, 0)
    /\ tasks' = [tasks EXCEPT ![k] = Len(run) + 1]
    /\ UNCHANGED <<desk, over, awaited, gaveUp>>

\* start: the run going on is the answer; else a task is made, in place of one that is over.
Start(k) ==
    /\ desk = "turn"
    /\ ~Running(tasks[k])
    /\ Len(run) < MaxRuns
    /\ run' = Append(run, [ticker |-> k, task |-> "running"])
    /\ heard' = Append(heard, 0)
    /\ tasks' = [tasks EXCEPT ![k] = Len(run) + 1]
    /\ UNCHANGED <<desk, over, awaited, gaveUp>>

\* Mutant: what is reported is not forgotten.
ClearNothing(reported) == tasks

\* clear: a ticker is forgotten if its run is still the one reported.
Clear(reported) == [k \in Companies |-> IF <<k, tasks[k]>> \in reported THEN 0 ELSE tasks[k]]

\* The pipeline of a run ends, or raises.
End(i) ==
    /\ desk # "left"
    /\ Running(i)
    /\ \E task \in {"done", "failed"} : run' = [run EXCEPT ![i].task = task]
    /\ UNCHANGED <<tasks, desk, over, awaited, heard, gaveUp>>

-----------------------------------------------------------------------------
(* main.chat *)

\* A turn begins: its context step asks how each run is doing.
Turn ==
    /\ desk = "prompt"
    /\ desk' = "turn"
    /\ over' = Over
    /\ UNCHANGED <<tasks, run, awaited, heard, gaveUp>>

\* The notice step: the reply exists, and the runs it reports are forgotten.
Reply ==
    /\ desk = "turn"
    /\ desk' = "prompt"
    /\ tasks' = Clear(over)
    /\ heard' = [i \in DOMAIN heard |-> IF \E p \in over : p[2] = i THEN heard[i] + 1 ELSE heard[i]]
    /\ over' = {}
    /\ UNCHANGED <<run, awaited, gaveUp>>

\* "The thread stays usable": the turn raises before it has a reply.
TurnFails ==
    /\ desk = "turn"
    /\ desk' = "prompt"
    /\ over' = {}
    /\ UNCHANGED <<tasks, run, awaited, heard, gaveUp>>

-----------------------------------------------------------------------------
(* main.main *)

\* Mutant: the runs already over are waited for, and no others.
LeaveAtOnce ==
    /\ desk \in {"prompt", "turn"}
    /\ desk' = "draining"
    /\ awaited' = {p[2] : p \in Over}
    /\ over' = {}
    /\ UNCHANGED <<tasks, run, heard, gaveUp>>

\* ctrl-d at the prompt, or ctrl-c, which cancels a turn where it stands: drain gathers every run
\* still going.
Leave ==
    /\ desk \in {"prompt", "turn"}
    /\ desk' = "draining"
    /\ awaited' = {tasks[k] : k \in {k \in Kept : Running(tasks[k])}}
    /\ over' = {}
    /\ UNCHANGED <<tasks, run, heard, gaveUp>>

\* gather returns; the app is closed, its pool with it.
Drained ==
    /\ desk = "draining"
    /\ \A i \in awaited : ~Running(i)
    /\ desk' = "left"
    /\ UNCHANGED <<tasks, run, over, awaited, heard, gaveUp>>

\* ctrl-c while waiting: what still runs is cancelled.
GiveUp ==
    /\ desk = "draining"
    /\ gaveUp' = TRUE
    /\ run' = [i \in DOMAIN run |-> IF Running(i) THEN [run[i] EXCEPT !.task = "cancelled"] ELSE run[i]]
    /\ desk' = "left"
    /\ UNCHANGED <<tasks, over, awaited, heard>>

Next ==
    \/ Turn \/ Reply \/ TurnFails
    \/ \E k \in Companies : Start(k)
    \/ \E i \in DOMAIN run : End(i)
    \/ Leave \/ Drained \/ GiveUp

Spec == Init /\ [][Next]_vars

-----------------------------------------------------------------------------
(* Properties *)

TypeOK ==
    /\ tasks \in [Companies -> 0..Len(run)]
    /\ run \in Seq(Run) /\ Len(run) <= MaxRuns
    /\ desk \in {"prompt", "turn", "draining", "left"}
    /\ over \subseteq Companies \X (1..Len(run))
    /\ awaited \subseteq 1..Len(run)
    /\ heard \in Seq(0..MaxRuns) /\ Len(heard) = Len(run)
    /\ gaveUp \in BOOLEAN

\* runs.py 8-9 and 53-55: a run going on is the one kept for its ticker, whatever turns report,
\* restart and forget meanwhile; so there is one per ticker, and drain knows of it.
RunningIsKept == \A i \in DOMAIN run : Running(i) => tasks[run[i].ticker] = i

\* runs.py 151: "leaving does not abandon one mid-flight": the process ends with no run going on,
\* and none cut off unless the investor would not wait.
NoneAbandoned ==
    desk = "left" => \A i \in DOMAIN run : ~Running(i) /\ (run[i].task = "cancelled" => gaveUp)

\* graph/research.py 27-28: a run that is over is reported in one reply, and only when it is over.
HeardOnce == \A i \in DOMAIN run : heard[i] <= 1 /\ (heard[i] = 1 => ~Running(i))

=============================================================================
