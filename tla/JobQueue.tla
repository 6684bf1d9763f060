------------------------------ MODULE JobQueue ------------------------------
(***************************************************************************)
(* The job queue: the `jobs` stream with its consumer group, the status    *)
(* hash and the event stream of every job, and the workers that read,      *)
(* claim, run, answer, dead-letter and acknowledge jobs.                   *)
(*                                                                         *)
(* Grain: one action is one broker command (which the broker executes      *)
(* atomically) together with the code the worker runs until its next       *)
(* await.  Abstractions:                                                   *)
(*   - a job is a model value that is also its stream entry;               *)
(*   - consecutive non-terminal events of a stream are one "part" event;   *)
(*   - the owner of a pending entry is left out: no command of the code    *)
(*     depends on it, only on how long the entry has been idle;            *)
(*   - `stale` stands for "idle longer than BROKER_MIN_IDLE_MS";           *)
(*   - what a run computes is the choice between "done" and "error".       *)
(* Faults are bounded by MaxFaults, a number per kind of fault.            *)
(***************************************************************************)
EXTENDS Naturals, Sequences

CONSTANTS
    Jobs,           \* the jobs that may be submitted
    Malformed,      \* those whose payload does not parse
    Workers,        \* the worker processes
    Slots,          \* WORKER_CONCURRENCY, as a set of slots per worker
    MaxDeliveries,  \* BROKER_MAX_DELIVERIES
    MaxFaults,      \* how often each kind of fault may happen
    NoJob           \* not a job

FaultKinds == {"crash", "stop", "error", "lapse", "expiry"}

ASSUME JobsAssumption ==
    /\ Malformed \subseteq Jobs
    /\ NoJob \notin Jobs
    /\ MaxDeliveries \in Nat \ {0}
    /\ MaxFaults \in [FaultKinds -> Nat]

\* The terminal events: `done`, a job's own error, JOB_INTERRUPTED, JOB_ABANDONED.
Outcomes == {"done", "error", "interrupted", "abandoned"}
NoOutcome == "none"

Statuses == {"none", "queued", "running", "done", "failed"}
Finished == {"done", "failed"}

VARIABLES
    status,    \* status[j]: the status field of job:{j}; "none" when there is no hash
    log,       \* log[j]: the event stream job:{j}:events
    place,     \* place[j]: where the entry is: absent, fresh, pending or acked
    count,     \* count[j]: times_delivered of the pending entry
    stale,     \* stale[j]: the pending entry has been idle past BROKER_MIN_IDLE_MS
    dead,      \* the jobs on the jobs:dead stream
    mode,      \* mode[w]: up, stopping (the stop event is set) or down
    loop,      \* loop[w]: where Consumer.run stands and the entry it has in hand
    inflight,  \* inflight[w]: Consumer._in_flight
    task,      \* task[w][s]: the job handled in slot s and the command it issues next
    runs,      \* runs[j]: history, how often _execute began on j
    faults     \* history, how often each kind of fault has happened

vars == <<status, log, place, count, stale, dead, mode, loop, inflight, task, runs, faults>>
broker == <<status, log, place, count, stale, dead>>
workers == <<mode, loop, inflight, task>>

-----------------------------------------------------------------------------
(* Values *)

Free == [pc |-> "free", job |-> NoJob, out |-> NoOutcome, after |-> "ack"]

\* A task is named by the broker command it issues next; "run" is the run itself.
Commands == {"status", "markRun", "lookback", "publish", "mark", "park", "ack"}

Steps == [pc : Commands \cup {"run"}, job : Jobs,
          out : Outcomes \cup {NoOutcome}, after : {"ack", "park"}]

\* An outcome is chosen before it is published.
Task == {Free} \cup {t \in Steps : t.pc \in {"publish", "mark"} => t.out \in Outcomes}

Polling == [at |-> "poll", job |-> NoJob, count |-> 0]
Over == [at |-> "over", job |-> NoJob, count |-> 0]

\* The loop polls, or has an entry in hand: claimed (its count not read yet) or delivered.
Loop == {Polling, Over} \cup [at : {"claimed", "holding"}, job : Jobs, count : Nat]

StatusOf(out) == IF out = "done" THEN "done" ELSE "failed"

Latest(j) == IF log[j] = <<>> THEN "nothing" ELSE log[j][Len(log[j])]

\* events.last_terminal: the outcome in the latest event, if it is one.
LastTerminal(j) == IF Latest(j) \in Outcomes THEN Latest(j) ELSE NoOutcome

Said(j, e) == \E i \in DOMAIN log[j] : log[j][i] = e

Busy(w, s) == task[w][s].pc # "free"

\* Mutant: a job delivered too often is parked without telling its client.
FirstStepSilent(j, c) ==
    [pc  |-> IF j \in Malformed \/ c > MaxDeliveries THEN "park" ELSE "status",
     job |-> j, out |-> NoOutcome,
     after |-> IF j \in Malformed \/ c > MaxDeliveries THEN "park" ELSE "ack"]

\* What handle does with a delivery before its first await.
FirstStep(j, c) ==
    IF j \in Malformed
    THEN [pc |-> "park", job |-> j, out |-> NoOutcome, after |-> "park"]
    ELSE IF c > MaxDeliveries
    THEN [pc |-> "publish", job |-> j, out |-> "abandoned", after |-> "park"]
    ELSE [pc |-> "status", job |-> j, out |-> NoOutcome, after |-> "ack"]

\* Mutant: the entries are no longer kept once the loop has stopped, before the jobs are drained.
KeptWhileUp(j) ==
    \E w \in Workers : mode[w] = "up" /\ (j \in inflight[w] \/ loop[w].job = j)

\* The live worker resets the entry's idle time, or has only just read it.
Kept(j) ==
    \E w \in Workers : mode[w] # "down" /\ (j \in inflight[w] \/ loop[w].job = j)

CanFail(kind) == faults[kind] < MaxFaults[kind]
Fault(kind) == CanFail(kind) /\ faults' = [faults EXCEPT ![kind] = @ + 1]

-----------------------------------------------------------------------------
Init ==
    /\ status = [j \in Jobs |-> "none"]
    /\ log = [j \in Jobs |-> <<>>]
    /\ place = [j \in Jobs |-> "absent"]
    /\ count = [j \in Jobs |-> 0]
    /\ stale = [j \in Jobs |-> FALSE]
    /\ dead = {}
    /\ mode = [w \in Workers |-> "up"]
    /\ loop = [w \in Workers |-> Polling]
    /\ inflight = [w \in Workers |-> {}]
    /\ task = [w \in Workers |-> [s \in Slots |-> Free]]
    /\ runs = [j \in Jobs |-> 0]
    /\ faults = [k \in FaultKinds |-> 0]

\* enqueue: the status hash and the stream entry, in one transaction.
Submit(j) ==
    /\ place[j] = "absent"
    /\ status' = [status EXCEPT ![j] = "queued"]
    /\ place' = [place EXCEPT ![j] = "fresh"]
    /\ UNCHANGED <<log, count, stale, dead, workers, runs, faults>>

-----------------------------------------------------------------------------
(* The consumer's loop *)

\* The loop holds a slot before it reads.
CanRead(w) ==
    /\ mode[w] # "down"
    /\ loop[w].at = "poll"
    /\ \E s \in Slots : ~Busy(w, s)

\* The reply reached the loop, or was lost (a RedisError: the loop polls again).
Reply(w, l) ==
    \/ loop' = [loop EXCEPT ![w] = l] /\ UNCHANGED faults
    \/ loop' = [loop EXCEPT ![w] = Polling] /\ Fault("error")

\* next_new: XREADGROUP, a delivery count of 1.
ReadNew(w, j) ==
    /\ CanRead(w)
    /\ place[j] = "fresh"
    /\ place' = [place EXCEPT ![j] = "pending"]
    /\ count' = [count EXCEPT ![j] = 1]
    /\ stale' = [stale EXCEPT ![j] = FALSE]
    /\ Reply(w, [at |-> "holding", job |-> j, count |-> 1])
    /\ UNCHANGED <<status, log, dead, mode, inflight, task, runs>>

\* next_stale, first command: XAUTOCLAIM takes an idle entry over and counts the delivery.
Claim(w, j) ==
    /\ CanRead(w)
    /\ place[j] = "pending"
    /\ stale[j]
    /\ stale' = [stale EXCEPT ![j] = FALSE]
    /\ count' = [count EXCEPT ![j] = @ + 1]
    /\ Reply(w, [at |-> "claimed", job |-> j, count |-> 0])
    /\ UNCHANGED <<status, log, place, dead, mode, inflight, task, runs>>

\* next_stale, second command: XPENDING reads the count, unless the entry was acked meanwhile.
ReadCount(w) ==
    /\ mode[w] # "down"
    /\ loop[w].at = "claimed"
    /\ LET j == loop[w].job IN
         Reply(w, IF place[j] = "pending"
                  THEN [at |-> "holding", job |-> j, count |-> count[j]]
                  ELSE Polling)
    /\ UNCHANGED <<broker, mode, inflight, task, runs>>

\* The delivery becomes a task in a free slot.
Dispatch(w) ==
    /\ mode[w] = "up"
    /\ loop[w].at = "holding"
    /\ \E s \in Slots :
         /\ ~Busy(w, s)
         /\ task' = [task EXCEPT ![w][s] = FirstStep(loop[w].job, loop[w].count)]
    /\ inflight' = [inflight EXCEPT ![w] = @ \cup {loop[w].job}]
    /\ loop' = [loop EXCEPT ![w] = Polling]
    /\ UNCHANGED <<broker, mode, runs, faults>>

\* The loop ends once `stop` is set; a delivery just read is left pending.
EndLoop(w) ==
    /\ mode[w] = "stopping"
    /\ loop[w].at \in {"poll", "holding"}
    /\ loop' = [loop EXCEPT ![w] = Over]
    /\ UNCHANGED <<broker, mode, inflight, task, runs, faults>>

\* The running jobs are drained: the process exits.
Exit(w) ==
    /\ mode[w] = "stopping"
    /\ loop[w].at = "over"
    /\ \A s \in Slots : ~Busy(w, s)
    /\ mode' = [mode EXCEPT ![w] = "down"]
    /\ UNCHANGED <<broker, loop, inflight, task, runs, faults>>

\* keep_claimed: XCLAIM resets the idle time of the entries in flight.
Touch(w) ==
    /\ mode[w] # "down"
    /\ \E j \in inflight[w] : stale[j]
    /\ stale' = [j \in Jobs |-> stale[j] /\ j \notin inflight[w]]
    /\ UNCHANGED <<status, log, place, count, dead, workers, runs, faults>>

-----------------------------------------------------------------------------
(* One delivery: Consumer.handle and JobHandler *)

\* Mutant: a failed job's entry is kept claimed by the worker that dropped it.
EndTaskKept(w, s) ==
    /\ task' = [task EXCEPT ![w][s] = Free]
    /\ UNCHANGED inflight

\* _dispatch's `finally`: the entry leaves _in_flight and the slot is free again.
EndTask(w, s) ==
    /\ task' = [task EXCEPT ![w][s] = Free]
    /\ inflight' = [inflight EXCEPT ![w] = @ \ {task[w][s].job}]

\* The command's reply came and the task goes on as t, or it was lost: the handler raises
\* and the entry stays pending.
Continue(w, s, t) ==
    \/ task' = [task EXCEPT ![w][s] = t] /\ UNCHANGED <<inflight, faults>>
    \/ EndTask(w, s) /\ Fault("error")

At(w, s, pc) == task[w][s].pc = pc

\* Mutant: a job that is running is run again.
ReadStatusRerun(w, s) ==
    /\ At(w, s, "status")
    /\ LET st == status[task[w][s].job] IN
         Continue(w, s, [task[w][s] EXCEPT !.pc = IF st \in Finished THEN "ack" ELSE "markRun"])
    /\ UNCHANGED <<broker, mode, loop, runs>>

\* run: reads the status; a finished job is only acked, a running one was redelivered.
ReadStatus(w, s) ==
    /\ At(w, s, "status")
    /\ LET st == status[task[w][s].job] IN
         Continue(w, s, [task[w][s] EXCEPT !.pc = IF st \in Finished THEN "ack"
                                                  ELSE IF st = "running" THEN "lookback"
                                                  ELSE "markRun"])
    /\ UNCHANGED <<broker, mode, loop, runs>>

\* run: marks the job running; _execute begins unless the reply was lost.
MarkRunning(w, s) ==
    LET j == task[w][s].job IN
    /\ At(w, s, "markRun")
    /\ status' = [status EXCEPT ![j] = "running"]
    /\ \/ /\ task' = [task EXCEPT ![w][s].pc = "run"]
          /\ runs' = [runs EXCEPT ![j] = @ + 1]
          /\ UNCHANGED <<inflight, faults>>
       \/ EndTask(w, s) /\ Fault("error") /\ UNCHANGED runs
    /\ UNCHANGED <<log, place, count, stale, dead, mode, loop>>

\* _execute publishes progress; a part after a part is the same stream here.
Part(w, s) ==
    LET j == task[w][s].job IN
    /\ At(w, s, "run")
    /\ Latest(j) # "part"
    /\ log' = [log EXCEPT ![j] = Append(@, "part")]
    /\ UNCHANGED <<status, place, count, stale, dead, workers, runs, faults>>

\* Mutant: the outcome is marked before it is published.
EndRunMarkFirst(w, s) ==
    /\ At(w, s, "run")
    /\ \E out \in {"done", "error"} :
         task' = [task EXCEPT ![w][s] = [@ EXCEPT !.pc = "mark", !.out = out]]
    /\ UNCHANGED <<broker, mode, loop, inflight, runs, faults>>

\* _execute returns a result or raises: either way the job has an outcome to publish.
EndRun(w, s) ==
    /\ At(w, s, "run")
    /\ \E out \in {"done", "error"} :
         task' = [task EXCEPT ![w][s] = [@ EXCEPT !.pc = "publish", !.out = out]]
    /\ UNCHANGED <<broker, mode, loop, inflight, runs, faults>>

\* Mutant: a redelivered job is interrupted without looking for the outcome it published.
LookBackBlind(w, s) ==
    /\ At(w, s, "lookback")
    /\ Continue(w, s, [task[w][s] EXCEPT !.pc = "publish", !.out = "interrupted"])
    /\ UNCHANGED <<broker, mode, loop, runs>>

\* _redelivered: an outcome already published is only marked, else the job was interrupted.
LookBack(w, s) ==
    /\ At(w, s, "lookback")
    /\ LET last == LastTerminal(task[w][s].job) IN
         Continue(w, s, [task[w][s] EXCEPT
                           !.pc  = IF last = NoOutcome THEN "publish" ELSE "mark",
                           !.out = IF last = NoOutcome THEN "interrupted" ELSE last])
    /\ UNCHANGED <<broker, mode, loop, runs>>

\* Mutant: finish forgets to mark the status.
PublishUnmarked(w, s) ==
    LET j == task[w][s].job IN
    /\ At(w, s, "publish")
    /\ log' = [log EXCEPT ![j] = Append(@, task[w][s].out)]
    /\ Continue(w, s, [task[w][s] EXCEPT !.pc = task[w][s].after])
    /\ UNCHANGED <<status, place, count, stale, dead, mode, loop, runs>>

\* finish, first command: the terminal event.
Publish(w, s) ==
    LET j == task[w][s].job IN
    /\ At(w, s, "publish")
    /\ log' = [log EXCEPT ![j] = Append(@, task[w][s].out)]
    /\ Continue(w, s, [task[w][s] EXCEPT !.pc = "mark"])
    /\ UNCHANGED <<status, place, count, stale, dead, mode, loop, runs>>

\* _mark_finished.
MarkFinished(w, s) ==
    LET j == task[w][s].job IN
    /\ At(w, s, "mark")
    /\ status' = [status EXCEPT ![j] = StatusOf(task[w][s].out)]
    /\ Continue(w, s, [task[w][s] EXCEPT !.pc = task[w][s].after])
    /\ UNCHANGED <<log, place, count, stale, dead, mode, loop, runs>>

\* dead_letter, first command: XADD jobs:dead.
Park(w, s) ==
    /\ At(w, s, "park")
    /\ dead' = dead \cup {task[w][s].job}
    /\ Continue(w, s, [task[w][s] EXCEPT !.pc = "ack"])
    /\ UNCHANGED <<status, log, place, count, stale, mode, loop, runs>>

\* ack: XACK; the task is over whether or not the reply arrives.
Ack(w, s) ==
    LET j == task[w][s].job IN
    /\ At(w, s, "ack")
    /\ place' = [place EXCEPT ![j] = "acked"]
    /\ stale' = [stale EXCEPT ![j] = FALSE]
    /\ EndTask(w, s)
    /\ UNCHANGED <<status, log, count, dead, mode, loop, runs, faults>>

\* The broker refuses or never sees the command: the handler raises, the entry stays pending.
Refused(w, s) ==
    /\ task[w][s].pc \in Commands
    /\ EndTask(w, s)
    /\ Fault("error")
    /\ UNCHANGED <<broker, mode, loop, runs>>

-----------------------------------------------------------------------------
(* Processes and time *)

Crash(w) ==
    /\ mode[w] # "down"
    /\ Fault("crash")
    /\ mode' = [mode EXCEPT ![w] = "down"]
    /\ loop' = [loop EXCEPT ![w] = Over]
    /\ inflight' = [inflight EXCEPT ![w] = {}]
    /\ task' = [task EXCEPT ![w] = [s \in Slots |-> Free]]
    /\ UNCHANGED <<broker, runs>>

Restart(w) ==
    /\ mode[w] = "down"
    /\ mode' = [mode EXCEPT ![w] = "up"]
    /\ loop' = [loop EXCEPT ![w] = Polling]
    /\ UNCHANGED <<broker, inflight, task, runs, faults>>

\* SIGTERM or SIGINT sets the stop event.
Stop(w) ==
    /\ mode[w] = "up"
    /\ Fault("stop")
    /\ mode' = [mode EXCEPT ![w] = "stopping"]
    /\ UNCHANGED <<broker, loop, inflight, task, runs>>

\* BROKER_MIN_IDLE_MS pass and no live worker keeps the entry.
BecomeStale(j) ==
    /\ place[j] = "pending"
    /\ ~stale[j]
    /\ ~Kept(j)
    /\ stale' = [stale EXCEPT ![j] = TRUE]
    /\ UNCHANGED <<status, log, place, count, dead, workers, runs, faults>>

\* The same although a live worker holds the entry: it could not reach the broker for that long.
Lapse(j) ==
    /\ place[j] = "pending"
    /\ ~stale[j]
    /\ Kept(j)
    /\ Fault("lapse")
    /\ stale' = [stale EXCEPT ![j] = TRUE]
    /\ UNCHANGED <<status, log, place, count, dead, workers, runs>>

\* EVENTS_TTL_S pass with no worker on the job: its hash and its events are gone.
Expire(j) ==
    /\ place[j] \in {"fresh", "pending"}
    /\ status[j] # "none"
    /\ ~Kept(j)
    /\ \A w \in Workers, s \in Slots : task[w][s].job # j
    /\ Fault("expiry")
    /\ status' = [status EXCEPT ![j] = "none"]
    /\ log' = [log EXCEPT ![j] = <<>>]
    /\ UNCHANGED <<place, count, stale, dead, workers, runs>>

-----------------------------------------------------------------------------
LoopStep(w) ==
    \/ \E j \in Jobs : ReadNew(w, j) \/ Claim(w, j)
    \/ ReadCount(w)
    \/ Dispatch(w)
    \/ EndLoop(w)
    \/ Exit(w)

TaskStep(w, s) ==
    \/ ReadStatus(w, s)
    \/ MarkRunning(w, s)
    \/ EndRun(w, s)
    \/ LookBack(w, s)
    \/ Publish(w, s)
    \/ MarkFinished(w, s)
    \/ Park(w, s)
    \/ Ack(w, s)

Next ==
    \/ \E j \in Jobs : Submit(j) \/ BecomeStale(j) \/ Lapse(j) \/ Expire(j)
    \/ \E w \in Workers :
         \/ LoopStep(w)
         \/ Touch(w)
         \/ Crash(w)
         \/ Restart(w)
         \/ Stop(w)
         \/ \E s \in Slots : TaskStep(w, s) \/ Part(w, s) \/ Refused(w, s)

Spec == Init /\ [][Next]_vars

\* The event loop runs every ready task, a run ends (its model calls have timeouts and its
\* steps a recursion limit), time passes, and `restart: unless-stopped` restarts a process.
Fairness ==
    /\ \A j \in Jobs : WF_vars(BecomeStale(j))
    /\ \A w \in Workers :
         /\ WF_vars(LoopStep(w))
         /\ WF_vars(Touch(w))
         /\ WF_vars(Restart(w))
         /\ \A s \in Slots : WF_vars(TaskStep(w, s))

FairSpec == Spec /\ Fairness

-----------------------------------------------------------------------------
(* Properties *)

TypeOK ==
    /\ status \in [Jobs -> Statuses]
    /\ log \in [Jobs -> Seq(Outcomes \cup {"part"})]
    /\ place \in [Jobs -> {"absent", "fresh", "pending", "acked"}]
    /\ count \in [Jobs -> Nat]
    /\ stale \in [Jobs -> BOOLEAN]
    /\ dead \subseteq Jobs
    /\ mode \in [Workers -> {"up", "stopping", "down"}]
    /\ loop \in [Workers -> Loop]
    /\ inflight \in [Workers -> SUBSET Jobs]
    /\ task \in [Workers -> [Slots -> Task]]
    /\ runs \in [Jobs -> Nat]
    /\ faults \in [FaultKinds -> Nat]

\* reclaim.py 6: keep_claimed touches the jobs a worker still runs, "so none is reclaimed from
\* under it": while no worker lapses, an entry is in the hands of one task or one loop only,
\* whatever crashes, lost replies, sweeps and drains happen.
OneHolder ==
    /\ \A v, w \in Workers : \A r, s \in Slots :
         Busy(v, r) /\ Busy(w, s) /\ task[v][r].job = task[w][s].job => v = w /\ r = s
    /\ \A v, w \in Workers :
         loop[v].job # NoJob =>
           /\ loop[v].job = loop[w].job => v = w
           /\ \A s \in Slots : task[w][s].job # loop[v].job

\* handler.py 11: "A job delivered again is never run again once it started".
StartedOnce == \A j \in Jobs : runs[j] <= 1

\* handler.py 11-12: a redelivered job that already published `done` or `error` only has its
\* status brought up to date, so nothing follows a terminal event in the stream but the
\* JOB_ABANDONED of a job delivered too often.
OutcomeIsLast ==
    \A j \in Jobs : \A i, k \in DOMAIN log[j] :
        i < k /\ log[j][i] \in Outcomes => log[j][k] = "abandoned"

\* events.py 35: a terminal event is "always its last event". Stated of every job, including
\* one delivered too often.
TerminalIsLast ==
    \A j \in Jobs : \A i \in DOMAIN log[j] : log[j][i] \in Outcomes => i = Len(log[j])

\* finish publishes before it marks: a client that reads a finished status finds an outcome of
\* that kind in the stream, even after lapses, when two workers handle the job at once.
FinishedWasPublished ==
    \A j \in Jobs :
        /\ status[j] = "done" => Said(j, "done")
        /\ status[j] = "failed" => \E out \in Outcomes \ {"done"} : Said(j, out)

\* consumer.py 7-8: an entry leaves the pending list only once its job is finished, or is on
\* jobs:dead when nobody can be told of it: no job is lost between two workers.
AckedIsSettled ==
    \A j \in Jobs : place[j] = "acked" =>
        IF j \in Malformed THEN j \in dead ELSE status[j] \in Finished

\* consumer.py 130: "The client hears first": a job parked on jobs:dead has a JOB_ABANDONED in
\* its stream, as long as the job's records are kept.
DeadWasTold ==
    \A j \in dead \ Malformed : Said(j, "abandoned") \/ status[j] = "none"

\* A finished job is never shown as queued or running again.
NeverReopened ==
    [][\A j \in Jobs : status[j] \in Finished => status'[j] \in Finished]_vars

-----------------------------------------------------------------------------
(* The inductive invariant behind these properties, while no worker lapses and nothing expires *)

\* An entry in somebody's hands is pending and not idle, and its holder is alive.
Custody ==
    /\ \A w \in Workers, s \in Slots : Busy(w, s) =>
         /\ mode[w] # "down"
         /\ task[w][s].job \in inflight[w]
         /\ place[task[w][s].job] = "pending"
         /\ ~stale[task[w][s].job]
    /\ \A w \in Workers : loop[w].job # NoJob =>
         /\ mode[w] # "down"
         /\ place[loop[w].job] = "pending"
         /\ ~stale[loop[w].job]
         /\ loop[w].at = "holding" => loop[w].count = count[loop[w].job]
    /\ \A j \in Jobs : stale[j] => place[j] = "pending"

HasOutcome(j) == \E i \in DOMAIN log[j] : log[j][i] \in Outcomes

\* What the broker holds about a job agrees: the status, the stream, the count and jobs:dead.
Record(j) ==
    /\ status[j] = "none" <=> place[j] = "absent"
    /\ place[j] \in {"absent", "fresh"} => count[j] = 0
    /\ status[j] \in {"none", "queued"} => runs[j] = 0
    /\ status[j] \in {"none", "queued"} /\ HasOutcome(j) => count[j] > MaxDeliveries
    /\ Said(j, "abandoned") => count[j] > MaxDeliveries
    /\ runs[j] <= 1
    /\ \A i, k \in DOMAIN log[j] :
         i < k /\ log[j][i] \in Outcomes => log[j][k] = "abandoned"
    /\ status[j] = "done" => Said(j, "done")
    /\ status[j] = "failed" => \E out \in Outcomes \ {"done"} : Said(j, out)
    /\ place[j] = "acked" => IF j \in Malformed THEN j \in dead ELSE status[j] \in Finished
    /\ j \in dead \ Malformed => Said(j, "abandoned")

\* What a task knows about its job from the commands it has already issued.
Knows(w, s) ==
    LET t == task[w][s]
        j == t.job
    IN IF t.after = "ack"
       THEN /\ j \notin Malformed
            /\ count[j] <= MaxDeliveries
            /\ t.pc # "park"
            /\ t.pc = "markRun" => status[j] = "queued"
            /\ t.pc \in {"run", "lookback", "publish", "mark"} => status[j] = "running"
            /\ t.pc \in {"run", "publish"} => ~HasOutcome(j)
            /\ t.pc = "publish" => t.out # "abandoned"
            /\ t.pc = "mark" => Said(j, t.out)
            /\ t.pc = "ack" => status[j] \in Finished
       ELSE /\ t.pc \in {"publish", "mark", "park", "ack"}
            /\ t.pc = "ack" => j \in dead
            /\ j \in Malformed => t.pc \in {"park", "ack"}
            /\ j \notin Malformed =>
                 /\ count[j] > MaxDeliveries
                 /\ t.out = "abandoned"
                 /\ t.pc # "publish" => Said(j, "abandoned")
                 /\ t.pc \in {"park", "ack"} => status[j] \in Finished

\* Together: what every reachable state satisfies when no worker lapses and nothing expires.
IInv ==
    /\ TypeOK
    /\ OneHolder
    /\ Custody
    /\ \A j \in Jobs : Record(j)
    /\ \A w \in Workers, s \in Slots : Busy(w, s) => Knows(w, s)

-----------------------------------------------------------------------------
(* What the queue promises: JobLife *)

FirstOutcome(j) ==
    IF \E i \in DOMAIN log[j] : log[j][i] \in Outcomes
    THEN log[j][CHOOSE i \in DOMAIN log[j] :
                  /\ log[j][i] \in Outcomes
                  /\ \A k \in DOMAIN log[j] : log[j][k] \in Outcomes => i <= k]
    ELSE NoOutcome

StageOf(j) ==
    IF place[j] = "absent" THEN "absent"
    ELSE IF place[j] = "acked" THEN "settled"
    ELSE IF FirstOutcome(j) # NoOutcome THEN "answered"
    ELSE IF runs[j] > 0 THEN "started"
    ELSE "waiting"

Life == INSTANCE JobLife WITH
            stage  <- [j \in Jobs |-> StageOf(j)],
            answer <- [j \in Jobs |-> FirstOutcome(j)]

\* While no worker lapses, every step is a step of JobLife or none: a job starts at most once,
\* gets one answer, the first, and is settled after it.
ImplementsJobLife == Life!Spec

\* Under the fairness above every submitted job is answered and settled.
ImplementsFairJobLife == Life!FairSpec

=============================================================================
