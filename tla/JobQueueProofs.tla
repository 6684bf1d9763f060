--------------------------- MODULE JobQueueProofs ---------------------------
(***************************************************************************)
(* Theorems about JobQueue, for any jobs, workers, slots and fault         *)
(* budgets: its types; the safety properties while no worker lapses and    *)
(* no record expires under a pending job (Calm); what holds even when two  *)
(* workers handle one job at once: the client hears before a status or     *)
(* jobs:dead says so (Told); and JobLife, which JobQueue implements.       *)
(***************************************************************************)
EXTENDS JobQueue, TLAPS

-----------------------------------------------------------------------------
(* Facts about the values the actions write *)

LEMMA PollingType == Polling \in Loop /\ Over \in Loop /\ Free \in Task
  BY DEF Loop, Task

LEMMA InHand ==
  ASSUME NEW l \in Loop
  PROVE  IF l.at \in {"claimed", "holding"}
         THEN l = [at |-> l.at, job |-> l.job, count |-> l.count] /\ l.job \in Jobs /\ l.count \in Nat
         ELSE l \in {Polling, Over} /\ l.job = NoJob
  <1>1. CASE l \in {Polling, Over}
    BY <1>1 DEF Polling, Over
  <1>2. CASE l \in [at : {"claimed", "holding"}, job : Jobs, count : Nat]
    BY <1>2
  <1>3. QED
    BY <1>1, <1>2 DEF Loop

LEMMA BusyTask ==
  ASSUME NEW t \in Task
  PROVE  IF t.pc = "free"
         THEN t = Free /\ t.job = NoJob
         ELSE t \in Steps /\ (t.pc \in {"publish", "mark"} => t.out \in Outcomes)
  <1>1. CASE t = Free
    BY <1>1 DEF Free
  <1>2. CASE t \in Steps /\ (t.pc \in {"publish", "mark"} => t.out \in Outcomes)
    BY <1>2 DEF Steps, Commands
  <1>3. QED
    BY <1>1, <1>2 DEF Task

LEMMA LogType ==
  ASSUME NEW j \in Jobs, NEW e \in Outcomes \cup {"part"},
         log \in [Jobs -> Seq(Outcomes \cup {"part"})],
         log' = [log EXCEPT ![j] = Append(@, e)]
  PROVE  log' \in [Jobs -> Seq(Outcomes \cup {"part"})]
  <1> DEFINE S == Outcomes \cup {"part"}
  <1> HIDE DEF S
  <1>1. ASSUME NEW q \in Seq(S), NEW x \in S
        PROVE  Append(q, x) \in Seq(S)
    OBVIOUS
  <1>2. e \in S /\ log[j] \in Seq(S)
    BY DEF S
  <1>3. Append(log[j], e) \in Seq(S)
    BY <1>1, <1>2
  <1>4. QED
    BY <1>3 DEF S

LEMMA FirstStepType ==
  ASSUME NEW j \in Jobs, NEW c \in Nat
  PROVE  FirstStep(j, c) \in Task
  BY DEF FirstStep, Task, Steps, Commands, Outcomes, NoOutcome

\* A fault only counts up its kind.
LEMMA FaultType ==
  ASSUME NEW k \in FaultKinds, faults \in [FaultKinds -> Nat], Fault(k)
  PROVE  faults' \in [FaultKinds -> Nat]
  BY DEF Fault

LEMMA ReplyType ==
  ASSUME NEW w \in Workers, NEW l \in Loop, TypeOK, Reply(w, l)
  PROVE  loop' \in [Workers -> Loop] /\ faults' \in [FaultKinds -> Nat]
  <1>1. "error" \in FaultKinds
    BY DEF FaultKinds
  <1>2. QED
    BY <1>1, FaultType, PollingType DEF Reply, TypeOK

LEMMA EndTaskType ==
  ASSUME NEW w \in Workers, NEW s \in Slots, TypeOK, EndTask(w, s)
  PROVE  /\ task' \in [Workers -> [Slots -> Task]]
         /\ inflight' \in [Workers -> SUBSET Jobs]
  BY PollingType DEF EndTask, TypeOK

LEMMA ContinueType ==
  ASSUME NEW w \in Workers, NEW s \in Slots, NEW t \in Task, TypeOK, Continue(w, s, t)
  PROVE  /\ task' \in [Workers -> [Slots -> Task]]
         /\ inflight' \in [Workers -> SUBSET Jobs]
         /\ faults' \in [FaultKinds -> Nat]
  <1>1. CASE task' = [task EXCEPT ![w][s] = t] /\ UNCHANGED <<inflight, faults>>
    BY <1>1 DEF TypeOK
  <1>2. CASE EndTask(w, s) /\ Fault("error")
    <2>1. "error" \in FaultKinds /\ faults \in [FaultKinds -> Nat]
      BY DEF FaultKinds, TypeOK
    <2>2. faults' \in [FaultKinds -> Nat]
      BY <1>2, <2>1, FaultType
    <2>3. QED
      BY <1>2, <2>2, EndTaskType
  <1>3. QED
    BY <1>1, <1>2 DEF Continue

-----------------------------------------------------------------------------
(* Type correctness *)

LEMMA InitType == Init => TypeOK
  BY DEF Init, TypeOK, Statuses, FaultKinds, Task, Loop

LEMMA LoopStepType ==
  ASSUME NEW w \in Workers, TypeOK, LoopStep(w)
  PROVE  TypeOK'
  <1>1. ASSUME NEW j \in Jobs, ReadNew(w, j)
        PROVE  TypeOK'
    <2>1. [at |-> "holding", job |-> j, count |-> 1] \in Loop
      BY DEF Loop
    <2>2. loop' \in [Workers -> Loop] /\ faults' \in [FaultKinds -> Nat]
      BY <1>1, <2>1, ReplyType DEF ReadNew
    <2>3. QED
      BY <1>1, <2>2 DEF ReadNew, TypeOK
  <1>2. ASSUME NEW j \in Jobs, Claim(w, j)
        PROVE  TypeOK'
    <2>1. [at |-> "claimed", job |-> j, count |-> 0] \in Loop
      BY DEF Loop
    <2>2. loop' \in [Workers -> Loop] /\ faults' \in [FaultKinds -> Nat]
      BY <1>2, <2>1, ReplyType DEF Claim
    <2>3. QED
      BY <1>2, <2>2 DEF Claim, TypeOK
  <1>3. CASE ReadCount(w)
    <2> DEFINE j == loop[w].job
               l == IF place[j] = "pending"
                    THEN [at |-> "holding", job |-> j, count |-> count[j]]
                    ELSE Polling
    <2>0. loop[w] \in Loop /\ count \in [Jobs -> Nat]
      BY DEF TypeOK
    <2>1. l \in Loop
      BY <1>3, <2>0, InHand, PollingType DEF ReadCount, Loop
    <2>2. Reply(w, l)
      BY <1>3 DEF ReadCount
    <2>3. loop' \in [Workers -> Loop] /\ faults' \in [FaultKinds -> Nat]
      BY <2>1, <2>2, ReplyType
    <2>4. QED
      BY <1>3, <2>3 DEF ReadCount, TypeOK, broker
  <1>4. CASE Dispatch(w)
    <2>1. PICK s \in Slots :
            task' = [task EXCEPT ![w][s] = FirstStep(loop[w].job, loop[w].count)]
      BY <1>4 DEF Dispatch
    <2>2. loop[w].job \in Jobs /\ loop[w].count \in Nat
      <3>1. loop[w] \in Loop
        BY DEF TypeOK
      <3>2. QED
        BY <1>4, <3>1, InHand DEF Dispatch
    <2>3. FirstStep(loop[w].job, loop[w].count) \in Task
      BY <2>2, FirstStepType
    <2>4. task' \in [Workers -> [Slots -> Task]]
      BY <2>1, <2>3 DEF TypeOK
    <2>5. QED
      BY <1>4, <2>2, <2>4, PollingType DEF Dispatch, TypeOK, broker
  <1>5. CASE EndLoop(w)
    BY <1>5, PollingType DEF EndLoop, TypeOK, broker
  <1>6. CASE Exit(w)
    BY <1>6 DEF Exit, TypeOK, broker
  <1>7. QED
    BY <1>1, <1>2, <1>3, <1>4, <1>5, <1>6 DEF LoopStep

\* A task goes on with the fields of its record changed.
LEMMA TaskChange ==
  ASSUME NEW t \in Task, t.pc # "free", NEW pc \in Commands \cup {"run"}, NEW out \in Outcomes
  PROVE  /\ (pc \in {"publish", "mark"} => t.out \in Outcomes) => [t EXCEPT !.pc = pc] \in Task
         /\ [t EXCEPT !.pc = pc, !.out = out] \in Task
  BY BusyTask DEF Task, Steps

LEMMA TaskStepType ==
  ASSUME NEW w \in Workers, NEW s \in Slots, TypeOK, TaskStep(w, s)
  PROVE  TypeOK'
  <1> DEFINE t == task[w][s]
             j == t.job
  <1>1. t \in Task
    BY DEF TypeOK
  <1>2. t.pc # "free"
    BY DEF TaskStep, ReadStatus, MarkRunning, EndRun, LookBack, Publish, MarkFinished, Park, Ack, At
  <1>3. /\ t.job \in Jobs
        /\ t.after \in {"ack", "park"}
        /\ t.pc \in {"publish", "mark"} => t.out \in Outcomes
    BY <1>1, <1>2, BusyTask DEF Steps
  <1>4. /\ \A c \in Commands \cup {"run"} :
             (c \in {"publish", "mark"} => t.out \in Outcomes) => [t EXCEPT !.pc = c] \in Task
        /\ \A c \in Commands \cup {"run"}, out \in Outcomes :
             [t EXCEPT !.pc = c, !.out = out] \in Task
    <2>1. ASSUME NEW c \in Commands \cup {"run"}, c \in {"publish", "mark"} => t.out \in Outcomes
          PROVE  [t EXCEPT !.pc = c] \in Task
      <3>1. PICK out \in Outcomes : TRUE
        BY DEF Outcomes
      <3>2. QED
        BY <1>1, <1>2, <2>1, TaskChange
    <2>2. QED
      BY <1>1, <1>2, <2>1, TaskChange
  <1>5. CASE ReadStatus(w, s)
    <2> DEFINE c == IF status[j] \in Finished THEN "ack"
                    ELSE IF status[j] = "running" THEN "lookback"
                    ELSE "markRun"
    <2>1. c \in Commands /\ c \notin {"publish", "mark"}
      BY DEF Commands
    <2>2. [t EXCEPT !.pc = c] \in Task
      BY <1>4, <2>1
    <2>3. Continue(w, s, [t EXCEPT !.pc = c])
      BY <1>5 DEF ReadStatus
    <2>4. QED
      BY <1>5, <2>2, <2>3, ContinueType DEF ReadStatus, TypeOK, broker
  <1>6. CASE MarkRunning(w, s)
    <2>1. [t EXCEPT !.pc = "run"] \in Task
      BY <1>4
    <2>2. /\ task' \in [Workers -> [Slots -> Task]]
          /\ inflight' \in [Workers -> SUBSET Jobs]
          /\ faults' \in [FaultKinds -> Nat]
      <3>1. CASE /\ task' = [task EXCEPT ![w][s].pc = "run"]
                 /\ UNCHANGED <<inflight, faults>>
        BY <2>1, <3>1 DEF TypeOK
      <3>2. CASE EndTask(w, s) /\ Fault("error")
        BY <3>2, EndTaskType, FaultType DEF FaultKinds, TypeOK
      <3>3. QED
        BY <1>6, <3>1, <3>2 DEF MarkRunning
    <2>3. runs' \in [Jobs -> Nat] /\ status' \in [Jobs -> Statuses]
      <3>1. runs' \in [Jobs -> Nat]
        BY <1>3, <1>6 DEF MarkRunning, TypeOK
      <3>2. status' \in [Jobs -> Statuses]
        BY <1>3, <1>6 DEF MarkRunning, TypeOK, Statuses
      <3>3. QED
        BY <3>1, <3>2
    <2>4. QED
      BY <1>6, <2>2, <2>3 DEF MarkRunning, TypeOK
  <1>7. CASE EndRun(w, s)
    <2>1. PICK out \in {"done", "error"} :
            task' = [task EXCEPT ![w][s] = [@ EXCEPT !.pc = "publish", !.out = out]]
      BY <1>7 DEF EndRun
    <2>2. [t EXCEPT !.pc = "publish", !.out = out] \in Task
      BY <1>4 DEF Commands, Outcomes
    <2>3. QED
      BY <1>7, <2>1, <2>2 DEF EndRun, TypeOK, broker
  <1>8. CASE LookBack(w, s)
    <2> DEFINE last == LastTerminal(j)
               c == IF last = NoOutcome THEN "publish" ELSE "mark"
               out == IF last = NoOutcome THEN "interrupted" ELSE last
    <2>1. c \in Commands /\ out \in Outcomes
      BY DEF Commands, Outcomes, LastTerminal, NoOutcome
    <2>2. [t EXCEPT !.pc = c, !.out = out] \in Task
      BY <1>4, <2>1
    <2>3. Continue(w, s, [t EXCEPT !.pc = c, !.out = out])
      BY <1>8 DEF LookBack
    <2>4. QED
      BY <1>8, <2>2, <2>3, ContinueType DEF LookBack, TypeOK, broker
  <1>9. CASE Publish(w, s)
    <2>0. t.out \in Outcomes
      BY <1>3, <1>9 DEF Publish, At
    <2>1. [t EXCEPT !.pc = "mark"] \in Task /\ Continue(w, s, [t EXCEPT !.pc = "mark"])
      BY <1>4, <1>9, <2>0 DEF Commands, Publish
    <2>2. log' \in [Jobs -> Seq(Outcomes \cup {"part"})]
      BY <1>3, <1>9, <2>0, LogType DEF Publish, TypeOK
    <2>3. QED
      BY <1>9, <2>1, <2>2, ContinueType DEF Publish, TypeOK
  <1>10. CASE MarkFinished(w, s)
    <2>1. [t EXCEPT !.pc = t.after] \in Task
      BY <1>3, <1>4 DEF Commands
    <2>2. Continue(w, s, [t EXCEPT !.pc = t.after])
      BY <1>10 DEF MarkFinished
    <2>3. status' \in [Jobs -> Statuses]
      BY <1>10 DEF MarkFinished, TypeOK, Statuses, StatusOf
    <2>4. QED
      BY <1>10, <2>1, <2>2, <2>3, ContinueType DEF MarkFinished, TypeOK
  <1>11. CASE Park(w, s)
    <2>1. [t EXCEPT !.pc = "ack"] \in Task /\ Continue(w, s, [t EXCEPT !.pc = "ack"])
      BY <1>4, <1>11 DEF Commands, Park
    <2>2. QED
      BY <1>3, <1>11, <2>1, ContinueType DEF Park, TypeOK
  <1>12. CASE Ack(w, s)
    BY <1>12, EndTaskType DEF Ack, TypeOK
  <1>13. QED
    BY <1>5, <1>6, <1>7, <1>8, <1>9, <1>10, <1>11, <1>12 DEF TaskStep

LEMMA ProcessStepType ==
  ASSUME NEW w \in Workers, TypeOK, Touch(w) \/ Crash(w) \/ Restart(w) \/ Stop(w)
  PROVE  TypeOK'
  <1>1. CASE Touch(w)
    BY <1>1 DEF Touch, TypeOK, workers
  <1>2. CASE Crash(w)
    <2>1. faults' \in [FaultKinds -> Nat]
      BY <1>2, FaultType DEF Crash, TypeOK, FaultKinds
    <2>2. QED
      BY <1>2, <2>1, PollingType DEF Crash, TypeOK, broker
  <1>3. CASE Restart(w)
    BY <1>3, PollingType DEF Restart, TypeOK, broker
  <1>4. CASE Stop(w)
    <2>1. faults' \in [FaultKinds -> Nat]
      BY <1>4, FaultType DEF Stop, TypeOK, FaultKinds
    <2>2. QED
      BY <1>4, <2>1 DEF Stop, TypeOK, broker
  <1>5. QED
    BY <1>1, <1>2, <1>3, <1>4

LEMMA SlotStepType ==
  ASSUME NEW w \in Workers, NEW s \in Slots, TypeOK, Part(w, s) \/ Refused(w, s)
  PROVE  TypeOK'
  <1>1. CASE Part(w, s)
    <2>1. task[w][s] \in Task /\ task[w][s].pc = "run"
      BY <1>1 DEF Part, At, TypeOK
    <2>2. task[w][s].job \in Jobs
      BY <2>1, BusyTask DEF Steps
    <2>3. log' \in [Jobs -> Seq(Outcomes \cup {"part"})]
      BY <1>1, <2>2, LogType DEF Part, TypeOK
    <2>4. QED
      BY <1>1, <2>3 DEF Part, TypeOK, workers
  <1>2. CASE Refused(w, s)
    <2>1. faults' \in [FaultKinds -> Nat]
      BY <1>2, FaultType DEF Refused, TypeOK, FaultKinds
    <2>2. QED
      BY <1>2, <2>1, EndTaskType DEF Refused, TypeOK, broker
  <1>3. QED
    BY <1>1, <1>2

LEMMA JobStepType ==
  ASSUME NEW j \in Jobs, TypeOK, Submit(j) \/ BecomeStale(j) \/ Lapse(j) \/ Expire(j)
  PROVE  TypeOK'
  <1>1. CASE Submit(j)
    BY <1>1 DEF Submit, TypeOK, Statuses, workers
  <1>2. CASE BecomeStale(j)
    BY <1>2 DEF BecomeStale, TypeOK, workers
  <1>3. CASE Lapse(j)
    <2>1. faults' \in [FaultKinds -> Nat]
      BY <1>3, FaultType DEF Lapse, TypeOK, FaultKinds
    <2>2. QED
      BY <1>3, <2>1 DEF Lapse, TypeOK, workers
  <1>4. CASE Expire(j)
    <2>1. faults' \in [FaultKinds -> Nat]
      BY <1>4, FaultType DEF Expire, TypeOK, FaultKinds
    <2>2. QED
      BY <1>4, <2>1 DEF Expire, TypeOK, Statuses, workers
  <1>5. QED
    BY <1>1, <1>2, <1>3, <1>4

LEMMA NextType == TypeOK /\ [Next]_vars => TypeOK'
  <1> SUFFICES ASSUME TypeOK, [Next]_vars
               PROVE  TypeOK'
    OBVIOUS
  <1>1. CASE UNCHANGED vars
    BY <1>1 DEF vars, TypeOK
  <1>2. CASE Next
    BY <1>2, LoopStepType, TaskStepType, ProcessStepType, SlotStepType, JobStepType DEF Next
  <1>3. QED
    BY <1>1, <1>2

\* Every reachable state is well typed; in particular a task about to publish or mark has chosen
\* its outcome, and the loop has an entry in hand exactly when it is past its read.
THEOREM TypeCorrect == Spec => []TypeOK
  BY InitType, NextType, PTL DEF Spec

-----------------------------------------------------------------------------
(* The safety properties, from the inductive invariant IInv *)

\* No worker fails to keep the entries it handles and no record expires under a pending job.
Calm == MaxFaults["lapse"] = 0 /\ MaxFaults["expiry"] = 0

LEMMA CalmFaults ==
  ASSUME Calm, TypeOK
  PROVE  ~Fault("lapse") /\ ~Fault("expiry")
  BY DEF Calm, TypeOK, Fault, CanFail, FaultKinds

-----------------------------------------------------------------------------
(* Frames *)

\* Record(j) reads only what the broker holds about j, and how often j was run.
LEMMA RecordFrame ==
  ASSUME NEW j \in Jobs, Record(j),
         status'[j] = status[j], log'[j] = log[j], place'[j] = place[j], count'[j] = count[j],
         runs'[j] = runs[j], (j \in dead') <=> (j \in dead)
  PROVE  Record(j)'
  BY DEF Record, Said, HasOutcome

\* Knows(w, s) reads only the task and what the broker holds about its job.
LEMMA KnowsFrame ==
  ASSUME NEW w \in Workers, NEW s \in Slots, Knows(w, s),
         task'[w][s] = task[w][s],
         status'[task[w][s].job] = status[task[w][s].job],
         log'[task[w][s].job] = log[task[w][s].job],
         count'[task[w][s].job] = count[task[w][s].job],
         task[w][s].job \in dead => task[w][s].job \in dead'
  PROVE  Knows(w, s)'
  BY DEF Knows, Said, HasOutcome

\* A step that changes nothing on the broker and only moves hands keeps all records.
LEMMA RecordsFrame ==
  ASSUME \A j \in Jobs : Record(j), UNCHANGED <<status, log, place, count, dead, runs>>
  PROVE  \A j \in Jobs : Record(j)'
  BY RecordFrame

\* A slot's task goes on knowing what it knew in a step that changes neither.
LEMMA KnowsAllFrame ==
  ASSUME \A w \in Workers, s \in Slots : Busy(w, s) => Knows(w, s),
         UNCHANGED <<status, log, count, dead>>,
         \A w \in Workers, s \in Slots : Busy(w, s)' => task'[w][s] = task[w][s]
  PROVE  \A w \in Workers, s \in Slots : Busy(w, s)' => Knows(w, s)'
  BY KnowsFrame DEF Busy

\* The job of a busy slot and the job in a loop's hand are jobs; the others are NoJob.
LEMMA Hands ==
  ASSUME TypeOK
  PROVE  /\ \A w \in Workers, s \in Slots :
              IF Busy(w, s) THEN task[w][s].job \in Jobs
              ELSE task[w][s] = Free /\ task[w][s].job = NoJob
         /\ \A w \in Workers :
              IF loop[w].at \in {"claimed", "holding"}
              THEN loop[w].job \in Jobs /\ loop[w].count \in Nat
              ELSE loop[w].job = NoJob
  <1>1. ASSUME NEW w \in Workers, NEW s \in Slots
        PROVE  IF Busy(w, s) THEN task[w][s].job \in Jobs
               ELSE task[w][s] = Free /\ task[w][s].job = NoJob
    <2>1. task[w][s] \in Task
      BY DEF TypeOK
    <2>2. QED
      BY <2>1, BusyTask DEF Busy, Steps
  <1>2. ASSUME NEW w \in Workers
        PROVE  IF loop[w].at \in {"claimed", "holding"}
               THEN loop[w].job \in Jobs /\ loop[w].count \in Nat
               ELSE loop[w].job = NoJob
    <2>1. loop[w] \in Loop
      BY DEF TypeOK
    <2>2. QED
      BY <2>1, InHand
  <1>3. QED
    BY <1>1, <1>2

-----------------------------------------------------------------------------
(* The loop's steps preserve the invariant *)

\* A reply puts the delivery in the loop's hand, or nothing if it is lost.
LEMMA ReplyCases ==
  ASSUME NEW w \in Workers, NEW l \in Loop, TypeOK, Reply(w, l)
  PROVE  /\ \A v \in Workers \ {w} : loop'[v] = loop[v]
         /\ loop'[w] = l \/ loop'[w] = Polling
  BY DEF Reply, TypeOK

LEMMA ReadNewInv ==
  ASSUME NEW w \in Workers, NEW j \in Jobs, IInv, ReadNew(w, j)
  PROVE  IInv'
  <1> DEFINE l == [at |-> "holding", job |-> j, count |-> 1]
  <1>1. TypeOK /\ TypeOK'
    BY LoopStepType DEF LoopStep, IInv
  <1>2. l \in Loop
    BY DEF Loop
  <1>3. /\ \A v \in Workers \ {w} : loop'[v] = loop[v]
        /\ loop'[w] = l \/ loop'[w] = Polling
    BY <1>1, <1>2, ReplyCases DEF ReadNew
  <1>4. /\ \A v \in Workers, s \in Slots : Busy(v, s) => task[v][s].job # j
        /\ \A v \in Workers : loop[v].job # j
    BY <1>1, Hands, JobsAssumption DEF IInv, Custody, ReadNew
  <1>5. OneHolder'
    BY <1>1, <1>3, <1>4, Hands DEF IInv, OneHolder, ReadNew, Busy, Polling
  <1>6. Custody'
    <2>1. ASSUME NEW v \in Workers, NEW s \in Slots, Busy(v, s)'
          PROVE  /\ mode'[v] # "down"
                 /\ task'[v][s].job \in inflight'[v]
                 /\ place'[task'[v][s].job] = "pending"
                 /\ ~stale'[task'[v][s].job]
      <3>1. Busy(v, s) /\ task'[v][s] = task[v][s] /\ task[v][s].job \in Jobs \ {j}
        BY <1>1, <1>4, <2>1, Hands DEF ReadNew, Busy
      <3>2. QED
        BY <1>1, <3>1 DEF IInv, Custody, ReadNew, TypeOK
    <2>2. ASSUME NEW v \in Workers, loop'[v].job # NoJob
          PROVE  /\ mode'[v] # "down"
                 /\ place'[loop'[v].job] = "pending"
                 /\ ~stale'[loop'[v].job]
                 /\ loop'[v].at = "holding" => loop'[v].count = count'[loop'[v].job]
      <3>1. CASE v = w
        BY <1>1, <1>3, <2>2, <3>1 DEF ReadNew, CanRead, Polling, TypeOK
      <3>2. CASE v # w
        <4>1. loop'[v] = loop[v] /\ loop[v].job \in Jobs \ {j}
          BY <1>1, <1>3, <1>4, <2>2, <3>2, Hands
        <4>2. QED
          BY <1>1, <2>2, <4>1 DEF IInv, Custody, ReadNew, TypeOK
      <3>3. QED
        BY <3>1, <3>2
    <2>3. ASSUME NEW i \in Jobs, stale'[i]
          PROVE  place'[i] = "pending"
      BY <1>1, <2>3 DEF IInv, Custody, ReadNew, TypeOK
    <2>4. QED
      BY <2>1, <2>2, <2>3 DEF Custody, Busy
  <1>7. ASSUME NEW i \in Jobs
        PROVE  Record(i)'
    <2>1. CASE i # j
      BY <1>1, <2>1, RecordFrame DEF IInv, ReadNew, TypeOK
    <2>2. CASE i = j
      <3>1. Record(j) /\ count[j] \in Nat /\ MaxDeliveries \in Nat \ {0}
        BY <1>1, JobsAssumption DEF IInv, TypeOK
      <3>2. /\ status'[j] = status[j] /\ log'[j] = log[j] /\ runs'[j] = runs[j] /\ dead' = dead
            /\ place'[j] = "pending" /\ place[j] # "absent"
            /\ count'[j] = 1
        BY <1>1 DEF ReadNew, TypeOK
      <3>3. QED
        BY <2>2, <3>1, <3>2 DEF Record, Said, HasOutcome, ReadNew
    <2>3. QED
      BY <2>1, <2>2
  <1>8. ASSUME NEW v \in Workers, NEW s \in Slots, Busy(v, s)'
        PROVE  Knows(v, s)'
    <2>1. Busy(v, s) /\ task'[v][s] = task[v][s]
      BY <1>8 DEF ReadNew, Busy
    <2>2. task[v][s].job \in Jobs \ {j}
      BY <1>1, <1>4, <2>1, Hands
    <2>3. QED
      BY <1>1, <2>1, <2>2, KnowsFrame DEF IInv, ReadNew, TypeOK
  <1>9. QED
    BY <1>1, <1>5, <1>6, <1>7, <1>8 DEF IInv

LEMMA ClaimInv ==
  ASSUME NEW w \in Workers, NEW j \in Jobs, IInv, Claim(w, j)
  PROVE  IInv'
  <1> DEFINE l == [at |-> "claimed", job |-> j, count |-> 0]
  <1>1. TypeOK /\ TypeOK'
    BY LoopStepType DEF LoopStep, IInv
  <1>2. l \in Loop
    BY DEF Loop
  <1>3. /\ \A v \in Workers \ {w} : loop'[v] = loop[v]
        /\ loop'[w] = l \/ loop'[w] = Polling
    BY <1>1, <1>2, ReplyCases DEF Claim
  <1>4. /\ \A v \in Workers, s \in Slots : Busy(v, s) => task[v][s].job # j
        /\ \A v \in Workers : loop[v].job # j
    BY <1>1, Hands, JobsAssumption DEF IInv, Custody, Claim
  <1>5. OneHolder'
    BY <1>1, <1>3, <1>4, Hands DEF IInv, OneHolder, Claim, Busy, Polling
  <1>6. Custody'
    <2>1. ASSUME NEW v \in Workers, NEW s \in Slots, Busy(v, s)'
          PROVE  /\ mode'[v] # "down"
                 /\ task'[v][s].job \in inflight'[v]
                 /\ place'[task'[v][s].job] = "pending"
                 /\ ~stale'[task'[v][s].job]
      <3>1. Busy(v, s) /\ task'[v][s] = task[v][s] /\ task[v][s].job \in Jobs \ {j}
        BY <1>1, <1>4, <2>1, Hands DEF Claim, Busy
      <3>2. QED
        BY <1>1, <3>1 DEF IInv, Custody, Claim, TypeOK
    <2>2. ASSUME NEW v \in Workers, loop'[v].job # NoJob
          PROVE  /\ mode'[v] # "down"
                 /\ place'[loop'[v].job] = "pending"
                 /\ ~stale'[loop'[v].job]
                 /\ loop'[v].at = "holding" => loop'[v].count = count'[loop'[v].job]
      <3>1. CASE v = w
        BY <1>1, <1>3, <2>2, <3>1 DEF Claim, CanRead, Polling, TypeOK
      <3>2. CASE v # w
        <4>1. loop'[v] = loop[v] /\ loop[v].job \in Jobs \ {j}
          BY <1>1, <1>3, <1>4, <2>2, <3>2, Hands
        <4>2. QED
          BY <1>1, <2>2, <4>1 DEF IInv, Custody, Claim, TypeOK
      <3>3. QED
        BY <3>1, <3>2
    <2>3. ASSUME NEW i \in Jobs, stale'[i]
          PROVE  place'[i] = "pending"
      BY <1>1, <2>3 DEF IInv, Custody, Claim, TypeOK
    <2>4. QED
      BY <2>1, <2>2, <2>3 DEF Custody, Busy
  <1>7. ASSUME NEW i \in Jobs
        PROVE  Record(i)'
    <2>1. CASE i # j
      BY <1>1, <2>1, RecordFrame DEF IInv, Claim, TypeOK
    <2>2. CASE i = j
      <3>1. Record(j) /\ count[j] \in Nat /\ MaxDeliveries \in Nat \ {0}
        BY <1>1, JobsAssumption DEF IInv, TypeOK
      <3>2. /\ status'[j] = status[j] /\ log'[j] = log[j] /\ runs'[j] = runs[j] /\ dead' = dead
            /\ place'[j] = "pending" /\ place[j] # "absent"
            /\ count'[j] = count[j] + 1
        BY <1>1 DEF Claim, TypeOK
      <3>3. QED
        BY <2>2, <3>1, <3>2 DEF Record, Said, HasOutcome
    <2>3. QED
      BY <2>1, <2>2
  <1>8. ASSUME NEW v \in Workers, NEW s \in Slots, Busy(v, s)'
        PROVE  Knows(v, s)'
    <2>1. Busy(v, s) /\ task'[v][s] = task[v][s]
      BY <1>8 DEF Claim, Busy
    <2>2. task[v][s].job \in Jobs \ {j}
      BY <1>1, <1>4, <2>1, Hands
    <2>3. QED
      BY <1>1, <2>1, <2>2, KnowsFrame DEF IInv, Claim, TypeOK
  <1>9. QED
    BY <1>1, <1>5, <1>6, <1>7, <1>8 DEF IInv

LEMMA ReadCountInv ==
  ASSUME NEW w \in Workers, IInv, ReadCount(w)
  PROVE  IInv'
  <1> DEFINE j == loop[w].job
             l == [at |-> "holding", job |-> j, count |-> count[j]]
  <1>1. TypeOK /\ TypeOK'
    BY LoopStepType DEF LoopStep, IInv
  <1>2. j \in Jobs /\ place[j] = "pending" /\ j # NoJob
    BY <1>1, Hands, JobsAssumption DEF IInv, Custody, ReadCount
  <1>3. /\ \A v \in Workers \ {w} : loop'[v] = loop[v]
        /\ loop'[w] = l \/ loop'[w] = Polling
    <2>1. l \in Loop
      BY <1>1, <1>2 DEF Loop, TypeOK
    <2>2. Reply(w, l)
      BY <1>2 DEF ReadCount
    <2>3. QED
      BY <1>1, <2>1, <2>2, ReplyCases
  <1>4. OneHolder'
    BY <1>1, <1>2, <1>3 DEF IInv, OneHolder, ReadCount, Busy, Polling
  <1>5. Custody'
    BY <1>1, <1>2, <1>3 DEF IInv, Custody, ReadCount, Busy, Polling, broker
  <1>6. QED
    BY <1>1, <1>4, <1>5, RecordsFrame, KnowsAllFrame DEF IInv, ReadCount, broker

LEMMA DispatchInv ==
  ASSUME NEW w \in Workers, IInv, Dispatch(w)
  PROVE  IInv'
  <1> DEFINE j == loop[w].job
             t == FirstStep(loop[w].job, loop[w].count)
  <1>1. TypeOK /\ TypeOK'
    BY LoopStepType DEF LoopStep, IInv
  <1>2. j \in Jobs /\ j # NoJob /\ place[j] = "pending" /\ ~stale[j] /\ loop[w].count = count[j]
    BY <1>1, Hands, JobsAssumption DEF IInv, Custody, Dispatch
  <1>3. PICK s \in Slots : ~Busy(w, s) /\ task' = [task EXCEPT ![w][s] = t]
    BY DEF Dispatch
  <1>4. /\ task'[w][s] = t
        /\ \A v \in Workers, r \in Slots : v # w \/ r # s => task'[v][r] = task[v][r]
    BY <1>1, <1>3 DEF TypeOK
  <1>5. t.job = j /\ t.pc # "free"
    BY DEF FirstStep
  <1>6. /\ \A v \in Workers, r \in Slots : task[v][r].job # j
        /\ \A v \in Workers \ {w} : loop[v].job # j
    BY <1>2 DEF IInv, OneHolder
  <1>7. loop'[w] = Polling /\ \A v \in Workers \ {w} : loop'[v] = loop[v]
    BY <1>1 DEF Dispatch, TypeOK
  <1>8. OneHolder'
    BY <1>1, <1>2, <1>4, <1>5, <1>6, <1>7 DEF IInv, OneHolder, Busy, Polling
  <1>9. Custody'
    <2>1. /\ mode' = mode /\ place' = place /\ stale' = stale /\ count' = count
          /\ mode[w] # "down"
          /\ inflight'[w] = inflight[w] \cup {j}
          /\ \A v \in Workers \ {w} : inflight'[v] = inflight[v]
      BY <1>1 DEF Dispatch, broker, TypeOK
    <2>2. ASSUME NEW v \in Workers, NEW r \in Slots, Busy(v, r)'
          PROVE  /\ mode'[v] # "down" /\ task'[v][r].job \in inflight'[v]
                 /\ place'[task'[v][r].job] = "pending" /\ ~stale'[task'[v][r].job]
      <3>1. CASE v = w /\ r = s
        BY <1>2, <1>4, <1>5, <2>1, <3>1
      <3>2. CASE v # w \/ r # s
        BY <1>4, <2>1, <2>2, <3>2 DEF IInv, Custody, Busy
      <3>3. QED
        BY <3>1, <3>2
    <2>3. ASSUME NEW v \in Workers, loop'[v].job # NoJob
          PROVE  /\ mode'[v] # "down" /\ place'[loop'[v].job] = "pending"
                 /\ ~stale'[loop'[v].job]
                 /\ loop'[v].at = "holding" => loop'[v].count = count'[loop'[v].job]
      BY <1>7, <2>1, <2>3 DEF IInv, Custody, Polling
    <2>4. QED
      BY <2>1, <2>2, <2>3 DEF IInv, Custody
  <1>10. ASSUME NEW v \in Workers, NEW r \in Slots, Busy(v, r)'
         PROVE  Knows(v, r)'
    <2>1. CASE v = w /\ r = s
      <3>1. count'[j] = count[j] /\ task'[v][r] = t
        BY <1>4, <2>1 DEF Dispatch, broker
      <3>2. t.job = j /\ count[j] \in Nat /\ MaxDeliveries \in Nat
        BY <1>1, <1>2, <1>5, JobsAssumption DEF TypeOK
      <3>3. CASE j \in Malformed
        <4>1. t.pc = "park" /\ t.after = "park"
          BY <3>3 DEF FirstStep
        <4>2. QED
          BY <3>1, <3>2, <3>3, <4>1 DEF Knows
      <3>4. CASE j \notin Malformed /\ count[j] > MaxDeliveries
        <4>1. t.pc = "publish" /\ t.after = "park" /\ t.out = "abandoned"
          BY <1>2, <3>4 DEF FirstStep
        <4>2. QED
          BY <3>1, <3>2, <3>4, <4>1 DEF Knows
      <3>5. CASE j \notin Malformed /\ count[j] <= MaxDeliveries
        <4>1. t.pc = "status" /\ t.after = "ack"
          BY <1>2, <3>2, <3>5 DEF FirstStep
        <4>2. QED
          BY <3>1, <3>2, <3>5, <4>1 DEF Knows
      <3>6. QED
        BY <3>2, <3>3, <3>4, <3>5
    <2>2. CASE ~(v = w /\ r = s)
      BY <1>1, <1>4, <1>10, <2>2, KnowsFrame DEF IInv, Dispatch, Busy, broker
    <2>3. QED
      BY <2>1, <2>2
  <1>11. QED
    BY <1>1, <1>8, <1>9, <1>10, RecordsFrame DEF IInv, Dispatch, broker

LEMMA EndLoopInv ==
  ASSUME NEW w \in Workers, IInv, EndLoop(w) \/ Exit(w)
  PROVE  IInv'
  <1>1. TypeOK /\ TypeOK'
    BY LoopStepType DEF LoopStep, IInv
  <1>2. CASE EndLoop(w)
    <2>1. loop'[w] = Over /\ \A v \in Workers \ {w} : loop'[v] = loop[v]
      BY <1>1, <1>2 DEF EndLoop, TypeOK
    <2>2. OneHolder'
      BY <1>1, <1>2, <2>1 DEF IInv, OneHolder, EndLoop, Busy, Over
    <2>3. Custody'
      BY <1>1, <1>2, <2>1 DEF IInv, Custody, EndLoop, Busy, Over, broker
    <2>4. QED
      BY <1>1, <1>2, <2>2, <2>3, RecordsFrame, KnowsAllFrame DEF IInv, EndLoop, broker
  <1>3. CASE Exit(w)
    <2>1. OneHolder'
      BY <1>1, <1>3 DEF IInv, OneHolder, Exit, Busy
    <2>2. loop[w].job = NoJob
      BY <1>1, <1>3, Hands DEF Exit
    <2>3. Custody'
      BY <1>1, <1>3, <2>2 DEF IInv, Custody, Exit, Busy, broker, TypeOK
    <2>4. QED
      BY <1>1, <1>3, <2>1, <2>3, RecordsFrame, KnowsAllFrame DEF IInv, Exit, broker
  <1>4. QED
    BY <1>2, <1>3

LEMMA LoopStepInv ==
  ASSUME NEW w \in Workers, IInv, LoopStep(w)
  PROVE  IInv'
  BY ReadNewInv, ClaimInv, ReadCountInv, DispatchInv, EndLoopInv DEF LoopStep

-----------------------------------------------------------------------------
(* A task's steps preserve the invariant *)

\* Slot s of w goes on with the same job, or is free and the entry left in flight by nobody.
Moves(w, s) ==
    \/ /\ Busy(w, s)' /\ task'[w][s].job = task[w][s].job
       /\ inflight' = inflight
       /\ place'[task[w][s].job] = "pending" /\ ~stale'[task[w][s].job]
    \/ /\ task'[w][s] = Free
       /\ inflight' = [inflight EXCEPT ![w] = @ \ {task[w][s].job}]

\* Nothing but slot s of w and what the broker holds about its job changes.
OnlyJob(w, s) ==
    /\ UNCHANGED <<mode, loop, count>>
    /\ \A v \in Workers, r \in Slots : v # w \/ r # s => task'[v][r] = task[v][r]
    /\ \A i \in Jobs \ {task[w][s].job} :
         /\ status'[i] = status[i] /\ log'[i] = log[i] /\ place'[i] = place[i]
         /\ stale'[i] = stale[i] /\ runs'[i] = runs[i] /\ (i \in dead' <=> i \in dead)
    /\ \A i \in Jobs : stale'[i] => place'[i] = "pending"

\* Such a step leaves the invariant to be shown of that job and that slot only.
LEMMA TaskFrame ==
  ASSUME NEW w \in Workers, NEW s \in Slots, NEW j \in Jobs, IInv, TypeOK', Busy(w, s),
         j = task[w][s].job, Moves(w, s), OnlyJob(w, s),
         Record(j)',
         Busy(w, s)' => Knows(w, s)'
  PROVE  IInv'
  <1>1. TypeOK /\ j \in Jobs /\ j # NoJob /\ place[j] = "pending" /\ ~stale[j]
    BY Hands, JobsAssumption DEF IInv, Custody
  <1>2. /\ \A v \in Workers, r \in Slots : v # w \/ r # s => task[v][r].job # j
        /\ \A v \in Workers : loop[v].job # j
    <2>1. ASSUME NEW v \in Workers, NEW r \in Slots, v # w \/ r # s
          PROVE  task[v][r].job # j
      BY <1>1, <2>1, Hands DEF IInv, OneHolder
    <2>2. ASSUME NEW v \in Workers
          PROVE  loop[v].job # j
      BY <1>1 DEF IInv, OneHolder
    <2>3. QED
      BY <2>1, <2>2
  <1>3. OneHolder'
    <2>1. ASSUME NEW v \in Workers, NEW x \in Workers, NEW r \in Slots, NEW q \in Slots,
                 Busy(v, r)', Busy(x, q)', task'[v][r].job = task'[x][q].job
          PROVE  v = x /\ r = q
      BY <1>1, <1>2, <2>1 DEF IInv, OneHolder, OnlyJob, Moves, Busy, Free
    <2>2. ASSUME NEW v \in Workers, NEW x \in Workers, loop'[v].job # NoJob
          PROVE  /\ loop'[v].job = loop'[x].job => v = x
                 /\ \A q \in Slots : task'[x][q].job # loop'[v].job
      BY <1>1, <1>2, <2>2 DEF IInv, OneHolder, OnlyJob, Moves, Free
    <2>3. QED
      BY <2>1, <2>2 DEF OneHolder, Busy
  <1>4. Custody'
    <2>1. ASSUME NEW v \in Workers, NEW r \in Slots, Busy(v, r)'
          PROVE  /\ mode'[v] # "down"
                 /\ task'[v][r].job \in inflight'[v]
                 /\ place'[task'[v][r].job] = "pending"
                 /\ ~stale'[task'[v][r].job]
      <3>1. CASE v = w /\ r = s
        BY <2>1, <3>1 DEF IInv, Custody, OnlyJob, Moves, Busy, Free
      <3>2. CASE v # w \/ r # s
        <4>1. Busy(v, r) /\ task'[v][r] = task[v][r] /\ task[v][r].job \in Jobs \ {j}
          BY <1>1, <1>2, <2>1, <3>2, Hands DEF OnlyJob, Busy
        <4>2. task[v][r].job \in inflight[v] => task[v][r].job \in inflight'[v]
          <5>1. CASE inflight' = inflight
            BY <5>1
          <5>2. CASE inflight' = [inflight EXCEPT ![w] = @ \ {task[w][s].job}]
            BY <1>1, <4>1, <5>2 DEF TypeOK
          <5>3. QED
            BY <5>1, <5>2 DEF Moves
        <4>3. QED
          BY <4>1, <4>2 DEF IInv, Custody, OnlyJob
      <3>3. QED
        BY <3>1, <3>2
    <2>2. ASSUME NEW v \in Workers, loop'[v].job # NoJob
          PROVE  /\ mode'[v] # "down"
                 /\ place'[loop'[v].job] = "pending"
                 /\ ~stale'[loop'[v].job]
                 /\ loop'[v].at = "holding" => loop'[v].count = count'[loop'[v].job]
      <3>1. loop'[v] = loop[v] /\ loop[v].job \in Jobs \ {j}
        BY <1>1, <1>2, <2>2, Hands DEF OnlyJob
      <3>2. QED
        BY <2>2, <3>1 DEF IInv, Custody, OnlyJob
    <2>3. QED
      BY <2>1, <2>2 DEF Custody, OnlyJob, Busy
  <1>5. ASSUME NEW i \in Jobs
        PROVE  Record(i)'
    <2>1. CASE i = j
      BY <2>1
    <2>2. CASE i # j
      BY <2>2, RecordFrame DEF IInv, OnlyJob
    <2>3. QED
      BY <2>1, <2>2
  <1>6. ASSUME NEW v \in Workers, NEW r \in Slots, Busy(v, r)'
        PROVE  Knows(v, r)'
    <2>1. CASE v = w /\ r = s
      BY <1>6, <2>1
    <2>2. CASE v # w \/ r # s
      <3>1. Busy(v, r) /\ task'[v][r] = task[v][r] /\ task[v][r].job \in Jobs \ {j}
        BY <1>1, <1>2, <1>6, <2>2, Hands DEF OnlyJob, Busy
      <3>2. QED
        BY <3>1, KnowsFrame DEF IInv, OnlyJob
    <2>3. QED
      BY <2>1, <2>2
  <1>7. QED
    BY <1>3, <1>4, <1>5, <1>6 DEF IInv

\* What a command's two replies do to the task: it goes on as t, or the slot is free.
LEMMA ContinueMoves ==
  ASSUME NEW w \in Workers, NEW s \in Slots, NEW t, IInv, Busy(w, s),
         Continue(w, s, t), t.job = task[w][s].job, t.pc # "free", UNCHANGED <<place, stale>>
  PROVE  /\ Moves(w, s)
         /\ Busy(w, s)' => task'[w][s] = t
         /\ \A v \in Workers, r \in Slots : v # w \/ r # s => task'[v][r] = task[v][r]
  <1>1. /\ \A v \in Workers, r \in Slots : v # w \/ r # s => task'[v][r] = task[v][r]
        /\ \/ task'[w][s] = t /\ inflight' = inflight
           \/ /\ task'[w][s] = Free
              /\ inflight' = [inflight EXCEPT ![w] = @ \ {task[w][s].job}]
    BY DEF Continue, EndTask, IInv, TypeOK
  <1>2. place[task[w][s].job] = "pending" /\ ~stale[task[w][s].job]
    BY DEF IInv, Custody
  <1>3. QED
    BY <1>1, <1>2 DEF Moves, Busy, Free

LEMMA ReadStatusInv ==
  ASSUME NEW w \in Workers, NEW s \in Slots, IInv, ReadStatus(w, s)
  PROVE  IInv'
  <1>1. TypeOK /\ TypeOK' /\ Busy(w, s)
    BY TaskStepType DEF TaskStep, IInv, ReadStatus, At, Busy
  <1>2. PICK j \in Jobs : j = task[w][s].job
    BY <1>1, Hands
  <1>3. PICK t : /\ t = [task[w][s] EXCEPT !.pc = IF status[j] \in Finished THEN "ack"
                                                  ELSE IF status[j] = "running" THEN "lookback"
                                                  ELSE "markRun"]
                 /\ Continue(w, s, t)
    BY <1>2 DEF ReadStatus
  <1>4. task[w][s] \in Steps /\ task[w][s].pc = "status"
    BY <1>1, BusyTask DEF ReadStatus, At, TypeOK, Busy
  <1>5. /\ t.job = j /\ t.after = task[w][s].after /\ t.out = task[w][s].out
        /\ t.pc = IF status[j] \in Finished THEN "ack"
                  ELSE IF status[j] = "running" THEN "lookback" ELSE "markRun"
    BY <1>2, <1>3, <1>4 DEF Steps
  <1>6. /\ Moves(w, s)
        /\ Busy(w, s)' => task'[w][s] = t
        /\ \A v \in Workers, r \in Slots : v # w \/ r # s => task'[v][r] = task[v][r]
    <2>1. t.job = task[w][s].job /\ t.pc # "free"
      BY <1>2, <1>5
    <2>2. UNCHANGED <<place, stale>>
      BY DEF ReadStatus, broker
    <2>3. Continue(w, s, t) /\ Busy(w, s)
      BY <1>1, <1>3
    <2>4. QED
      BY <2>1, <2>2, <2>3, ContinueMoves
  <1>7. OnlyJob(w, s)
    BY <1>6 DEF OnlyJob, ReadStatus, broker, IInv, Custody
  <1>8. Record(j)'
    BY RecordFrame DEF IInv, ReadStatus, broker
  <1>9. ASSUME Busy(w, s)'
        PROVE  Knows(w, s)'
    <2>1. Knows(w, s) /\ Record(j) /\ place[j] = "pending" /\ status[j] \in Statuses
      BY <1>1, <1>2 DEF IInv, Custody, TypeOK
    <2>2. status[j] \in Finished \cup {"running", "queued"}
      BY <2>1 DEF Record, Statuses, Finished
    <2>3. task'[w][s] = t /\ status' = status /\ count' = count
      BY <1>6, <1>9 DEF ReadStatus, broker
    <2>4. task[w][s].after = "ack" /\ j \notin Malformed /\ count[j] <= MaxDeliveries
      BY <1>2, <1>4, <2>1 DEF Knows
    <2>5. QED
      BY <1>5, <2>2, <2>3, <2>4 DEF Knows, Finished
  <1>10. QED
    BY <1>1, <1>2, <1>6, <1>7, <1>8, <1>9, TaskFrame

\* What is known of job j in the busy slot s of w.
Handles(w, s, j) ==
    /\ j = task[w][s].job
    /\ task[w][s] \in Steps /\ task[w][s] \in Task
    /\ Knows(w, s) /\ Record(j)
    /\ place[j] = "pending" /\ ~stale[j]
    /\ status[j] \in Statuses \ {"none"} /\ count[j] \in Nat /\ runs[j] \in Nat
    /\ log[j] \in Seq(Outcomes \cup {"part"})

LEMMA TaskFacts ==
  ASSUME NEW w \in Workers, NEW s \in Slots, IInv, Busy(w, s)
  PROVE  \E j \in Jobs : Handles(w, s, j)
  <1>1. task[w][s].job \in Jobs /\ task[w][s] \in Task
    BY Hands DEF IInv, TypeOK
  <1>2. task[w][s] \in Steps
    BY <1>1, BusyTask DEF Busy
  <1>3. Record(task[w][s].job) /\ place[task[w][s].job] = "pending" /\ ~stale[task[w][s].job]
    BY <1>1 DEF IInv, Custody
  <1>4. status[task[w][s].job] # "none"
    BY <1>3 DEF Record
  <1>5. QED
    BY <1>1, <1>2, <1>3, <1>4 DEF Handles, IInv, TypeOK

\* What a record says of the stream stays when the stream does.
LEMMA SameStream ==
  ASSUME NEW j \in Jobs, Record(j), log'[j] = log[j]
  PROVE  /\ HasOutcome(j)' <=> HasOutcome(j)
         /\ \A e : Said(j, e)' <=> Said(j, e)
         /\ \A i, k \in DOMAIN log'[j] :
              i < k /\ log'[j][i] \in Outcomes => log'[j][k] = "abandoned"
  <1>1. (HasOutcome(j)' <=> HasOutcome(j)) /\ \A e : Said(j, e)' <=> Said(j, e)
    BY DEF HasOutcome, Said
  <1>2. \A i, k \in DOMAIN log'[j] :
          i < k /\ log'[j][i] \in Outcomes => log'[j][k] = "abandoned"
    BY DEF Record
  <1>3. QED
    BY <1>1, <1>2

LEMMA MarkRunningInv ==
  ASSUME NEW w \in Workers, NEW s \in Slots, IInv, MarkRunning(w, s)
  PROVE  IInv'
  <1>1. TypeOK /\ TypeOK' /\ Busy(w, s)
    BY TaskStepType DEF TaskStep, IInv, MarkRunning, At, Busy
  <1>2. PICK j \in Jobs : Handles(w, s, j)
    BY <1>1, TaskFacts
  <1>3. task[w][s].after = "ack"
    BY <1>2 DEF Knows, MarkRunning, At, Steps, Handles
  <1>4. /\ j \notin Malformed /\ count[j] <= MaxDeliveries /\ status[j] = "queued"
        /\ runs[j] = 0 /\ ~HasOutcome(j)
    BY <1>2, <1>3, JobsAssumption DEF Knows, Record, MarkRunning, At, Handles
  <1>5. /\ \/ task'[w][s] = [task[w][s] EXCEPT !.pc = "run"] /\ inflight' = inflight
              /\ runs' = [runs EXCEPT ![j] = @ + 1]
           \/ /\ task'[w][s] = Free /\ runs' = runs
              /\ inflight' = [inflight EXCEPT ![w] = @ \ {j}]
        /\ \A v \in Workers, r \in Slots : v # w \/ r # s => task'[v][r] = task[v][r]
    <2>1. j = task[w][s].job
      BY <1>2 DEF Handles
    <2>2. CASE task' = [task EXCEPT ![w][s].pc = "run"]
      BY <1>1, <2>1, <2>2 DEF MarkRunning, EndTask, TypeOK
    <2>3. CASE task' # [task EXCEPT ![w][s].pc = "run"]
      BY <1>1, <2>1, <2>3 DEF MarkRunning, EndTask, TypeOK
    <2>4. QED
      BY <2>2, <2>3
  <1>6. Moves(w, s)
    BY <1>2, <1>5 DEF Moves, MarkRunning, Busy, Steps, Free, Handles
  <1>7. OnlyJob(w, s)
    BY <1>1, <1>2, <1>5 DEF OnlyJob, MarkRunning, IInv, Custody, TypeOK, Handles
  <1>8. /\ status'[j] = "running" /\ log'[j] = log[j] /\ place'[j] = "pending"
        /\ count'[j] = count[j] /\ dead' = dead /\ runs'[j] \in {0, 1}
    BY <1>1, <1>2, <1>4, <1>5 DEF MarkRunning, TypeOK, Handles
  <1>9. Record(j)'
    <2>1. /\ HasOutcome(j)' <=> HasOutcome(j)
          /\ \A e : Said(j, e)' <=> Said(j, e)
          /\ \A i, k \in DOMAIN log'[j] :
               i < k /\ log'[j][i] \in Outcomes => log'[j][k] = "abandoned"
      BY <1>2, <1>8, SameStream DEF Handles
    <2>2. /\ status'[j] \notin {"none", "queued", "done", "failed"} /\ place'[j] = "pending"
          /\ runs'[j] <= 1 /\ ~Said(j, "abandoned")
      <3>1. ~Said(j, "abandoned")
        BY <1>4 DEF HasOutcome, Said, Outcomes
      <3>2. QED
        BY <1>8, <3>1
    <2>3. j \in dead \ Malformed => Said(j, "abandoned")
      BY <1>2 DEF Record, Handles
    <2>4. QED
      BY <1>8, <2>1, <2>2, <2>3 DEF Record
  <1>10. ASSUME Busy(w, s)'
         PROVE  Knows(w, s)'
    <2>1. /\ task'[w][s].job = j /\ task'[w][s].pc = "run" /\ task'[w][s].after = "ack"
      BY <1>2, <1>3, <1>5, <1>10 DEF Busy, Free, Steps, Handles
    <2>2. QED
      BY <1>4, <1>8, <2>1 DEF Knows, HasOutcome
  <1>11. QED
    BY <1>1, <1>2, <1>6, <1>7, <1>9, <1>10, TaskFrame DEF Handles

LEMMA EndRunInv ==
  ASSUME NEW w \in Workers, NEW s \in Slots, IInv, EndRun(w, s)
  PROVE  IInv'
  <1>1. TypeOK /\ TypeOK' /\ Busy(w, s)
    BY TaskStepType DEF TaskStep, IInv, EndRun, At, Busy
  <1>2. PICK j \in Jobs : Handles(w, s, j)
    BY <1>1, TaskFacts
  <1>3. PICK out \in {"done", "error"} :
            task' = [task EXCEPT ![w][s] = [@ EXCEPT !.pc = "publish", !.out = out]]
    BY DEF EndRun
  <1>4. /\ task'[w][s].job = j /\ task'[w][s].pc = "publish" /\ task'[w][s].out = out
        /\ task'[w][s].after = task[w][s].after
        /\ \A v \in Workers, r \in Slots : v # w \/ r # s => task'[v][r] = task[v][r]
    BY <1>1, <1>2, <1>3 DEF TypeOK, Steps, Handles
  <1>5. Moves(w, s) /\ OnlyJob(w, s)
    BY <1>2, <1>4 DEF Moves, OnlyJob, EndRun, broker, Busy, IInv, Custody, Handles
  <1>6. Record(j)'
    BY <1>2, RecordFrame DEF EndRun, broker, Handles
  <1>7. Knows(w, s)'
    <2>1. task[w][s].after = "ack"
      BY <1>2 DEF Knows, EndRun, At, Handles
    <2>2. /\ j \notin Malformed /\ count[j] <= MaxDeliveries /\ status[j] = "running"
          /\ ~HasOutcome(j)
      BY <1>2, <2>1 DEF Knows, EndRun, At, Handles
    <2>3. status' = status /\ count' = count /\ log' = log
      BY DEF EndRun, broker
    <2>4. QED
      BY <1>4, <2>1, <2>2, <2>3 DEF Knows, HasOutcome
  <1>8. QED
    BY <1>1, <1>2, <1>5, <1>6, <1>7, TaskFrame DEF Handles

\* Where a stream's first outcome is followed only by JOB_ABANDONED, the latest event tells
\* whether it holds an outcome.
LEMMA LatestTells ==
  ASSUME NEW j \in Jobs, Record(j), log[j] \in Seq(Outcomes \cup {"part"})
  PROVE  /\ HasOutcome(j) => Latest(j) \in Outcomes
         /\ Latest(j) \in Outcomes => Said(j, Latest(j))
  <1>1. DOMAIN log[j] = 1..Len(log[j]) /\ Len(log[j]) \in Nat
    OBVIOUS
  <1>2. CASE log[j] = <<>>
    BY <1>2 DEF HasOutcome, Latest, Outcomes
  <1>3. CASE log[j] # <<>>
    <2>1. Len(log[j]) \in DOMAIN log[j] /\ Latest(j) = log[j][Len(log[j])]
      BY <1>1, <1>3 DEF Latest
    <2>2. ASSUME NEW i \in DOMAIN log[j], log[j][i] \in Outcomes
          PROVE  Latest(j) \in Outcomes
      <3>1. CASE i = Len(log[j])
        BY <2>1, <2>2, <3>1
      <3>2. CASE i < Len(log[j])
        BY <2>1, <2>2, <3>2 DEF Record, Outcomes
      <3>3. QED
        BY <1>1, <3>1, <3>2
    <2>3. QED
      BY <2>1, <2>2 DEF HasOutcome, Said
  <1>4. QED
    BY <1>2, <1>3

LEMMA LookBackInv ==
  ASSUME NEW w \in Workers, NEW s \in Slots, IInv, LookBack(w, s)
  PROVE  IInv'
  <1>1. TypeOK /\ TypeOK' /\ Busy(w, s)
    BY TaskStepType DEF TaskStep, IInv, LookBack, At, Busy
  <1>2. PICK j \in Jobs : Handles(w, s, j)
    BY <1>1, TaskFacts
  <1>3. PICK t : /\ t = [task[w][s] EXCEPT
                           !.pc  = IF LastTerminal(j) = NoOutcome THEN "publish" ELSE "mark",
                           !.out = IF LastTerminal(j) = NoOutcome THEN "interrupted"
                                   ELSE LastTerminal(j)]
                 /\ Continue(w, s, t)
    BY <1>2 DEF LookBack, Handles
  <1>4. /\ t.job = j /\ t.after = task[w][s].after
        /\ t.pc = IF LastTerminal(j) = NoOutcome THEN "publish" ELSE "mark"
        /\ t.out = IF LastTerminal(j) = NoOutcome THEN "interrupted" ELSE LastTerminal(j)
    BY <1>2, <1>3 DEF Handles, Steps
  <1>5. /\ Moves(w, s)
        /\ Busy(w, s)' => task'[w][s] = t
        /\ \A v \in Workers, r \in Slots : v # w \/ r # s => task'[v][r] = task[v][r]
    <2>1. t.job = task[w][s].job /\ t.pc # "free"
      BY <1>2, <1>4 DEF Handles
    <2>2. UNCHANGED <<place, stale>>
      BY DEF LookBack, broker
    <2>3. Continue(w, s, t) /\ Busy(w, s)
      BY <1>1, <1>3
    <2>4. QED
      BY <2>1, <2>2, <2>3, ContinueMoves
  <1>6. OnlyJob(w, s)
    BY <1>5 DEF OnlyJob, LookBack, broker, IInv, Custody
  <1>7. Record(j)'
    BY <1>2, RecordFrame DEF LookBack, broker, Handles
  <1>8. ASSUME Busy(w, s)'
        PROVE  Knows(w, s)'
    <2>1. task'[w][s] = t /\ status' = status /\ count' = count /\ log' = log
      BY <1>5, <1>8 DEF LookBack, broker
    <2>2. task[w][s].after = "ack"
      BY <1>2 DEF Knows, LookBack, At, Handles, Steps
    <2>3. j \notin Malformed /\ count[j] <= MaxDeliveries /\ status[j] = "running"
      BY <1>2, <2>2 DEF Knows, LookBack, At, Handles
    <2>4. /\ LastTerminal(j) = NoOutcome => ~HasOutcome(j)
          /\ LastTerminal(j) # NoOutcome => Said(j, LastTerminal(j))
      BY <1>2, LatestTells DEF LastTerminal, NoOutcome, Outcomes, Handles
    <2>5. QED
      BY <1>4, <2>1, <2>2, <2>3, <2>4 DEF Knows, HasOutcome, Said
  <1>9. QED
    BY <1>1, <1>2, <1>5, <1>6, <1>7, <1>8, TaskFrame DEF Handles

\* What a publication adds to a stream.
LEMMA Published ==
  ASSUME NEW j \in Jobs, NEW e, log[j] \in Seq(Outcomes \cup {"part"}),
         log'[j] = Append(log[j], e)
  PROVE  /\ DOMAIN log'[j] = DOMAIN log[j] \cup {Len(log[j]) + 1}
         /\ \A i \in DOMAIN log[j] : log'[j][i] = log[j][i] /\ i < Len(log[j]) + 1
         /\ log'[j][Len(log[j]) + 1] = e
         /\ \A x : Said(j, x)' <=> Said(j, x) \/ x = e
         /\ HasOutcome(j)' <=> HasOutcome(j) \/ e \in Outcomes
  <1>1. DOMAIN log[j] = 1..Len(log[j]) /\ Len(log[j]) \in Nat
    OBVIOUS
  <1>2. /\ DOMAIN log'[j] = DOMAIN log[j] \cup {Len(log[j]) + 1}
        /\ \A i \in DOMAIN log[j] : log'[j][i] = log[j][i] /\ i < Len(log[j]) + 1
        /\ log'[j][Len(log[j]) + 1] = e
    BY <1>1
  <1>3. QED
    BY <1>2 DEF Said, HasOutcome

LEMMA PublishInv ==
  ASSUME NEW w \in Workers, NEW s \in Slots, IInv, Publish(w, s)
  PROVE  IInv'
  <1>1. TypeOK /\ TypeOK' /\ Busy(w, s)
    BY TaskStepType DEF TaskStep, IInv, Publish, At, Busy
  <1>2. PICK j \in Jobs : Handles(w, s, j)
    BY <1>1, TaskFacts
  <1>3. PICK t : t = [task[w][s] EXCEPT !.pc = "mark"] /\ Continue(w, s, t)
    BY <1>2 DEF Publish, Handles
  <1>4. PICK out \in Outcomes : out = task[w][s].out
    BY <1>2 DEF Handles, Task, Free, Publish, At
  <1>5. t.job = j /\ t.after = task[w][s].after /\ t.pc = "mark" /\ t.out = out
    BY <1>2, <1>3, <1>4 DEF Handles, Steps
  <1>6. /\ Moves(w, s)
        /\ Busy(w, s)' => task'[w][s] = t
        /\ \A v \in Workers, r \in Slots : v # w \/ r # s => task'[v][r] = task[v][r]
    <2>1. t.job = task[w][s].job /\ t.pc # "free"
      BY <1>2, <1>5 DEF Handles
    <2>2. UNCHANGED <<place, stale>>
      BY DEF Publish
    <2>3. Continue(w, s, t) /\ Busy(w, s)
      BY <1>1, <1>3
    <2>4. QED
      BY <2>1, <2>2, <2>3, ContinueMoves
  <1>7. /\ log'[j] = Append(log[j], out)
        /\ UNCHANGED <<status, place, count, stale, dead, mode, loop, runs>>
    BY <1>1, <1>2, <1>4 DEF Publish, Handles, TypeOK
  <1>8. OnlyJob(w, s)
    BY <1>1, <1>2, <1>6 DEF OnlyJob, Publish, IInv, Custody, TypeOK, Handles
  <1>9. /\ DOMAIN log'[j] = DOMAIN log[j] \cup {Len(log[j]) + 1}
        /\ \A i \in DOMAIN log[j] : log'[j][i] = log[j][i] /\ i < Len(log[j]) + 1
        /\ log'[j][Len(log[j]) + 1] = out
        /\ \A x : Said(j, x)' <=> Said(j, x) \/ x = out
        /\ HasOutcome(j)' <=> HasOutcome(j) \/ out \in Outcomes
    BY <1>2, <1>7, Published DEF Handles
  <1>10. CASE task[w][s].after = "ack"
    <2>1. /\ j \notin Malformed /\ count[j] <= MaxDeliveries /\ status[j] = "running"
          /\ ~HasOutcome(j) /\ out # "abandoned"
      BY <1>2, <1>4, <1>10 DEF Knows, Publish, At, Handles
    <2>2. \A i, k \in DOMAIN log'[j] :
            i < k /\ log'[j][i] \in Outcomes => log'[j][k] = "abandoned"
      <3>1. Len(log[j]) \in Nat /\ DOMAIN log[j] \subseteq Nat
        BY <1>2 DEF Handles
      <3>2. \A i \in DOMAIN log[j] : log'[j][i] \notin Outcomes
        BY <1>9, <2>1 DEF HasOutcome
      <3>3. QED
        BY <1>9, <3>1, <3>2
    <2>3. Record(j)'
      BY <1>2, <1>7, <1>9, <2>1, <2>2 DEF Record, Handles
    <2>4. Busy(w, s)' => Knows(w, s)'
      BY <1>5, <1>6, <1>7, <1>9, <1>10, <2>1 DEF Knows
    <2>5. QED
      BY <1>1, <1>2, <1>6, <1>8, <2>3, <2>4, TaskFrame DEF Handles
  <1>11. CASE task[w][s].after = "park"
    <2>1. j \notin Malformed /\ count[j] > MaxDeliveries /\ out = "abandoned"
      BY <1>2, <1>4, <1>11 DEF Knows, Publish, At, Handles
    <2>2. \A i, k \in DOMAIN log'[j] :
            i < k /\ log'[j][i] \in Outcomes => log'[j][k] = "abandoned"
      BY <1>2, <1>9, <2>1 DEF Record, Handles
    <2>3. Record(j)'
      BY <1>2, <1>7, <1>9, <2>1, <2>2 DEF Record, Handles
    <2>4. Busy(w, s)' => Knows(w, s)'
      BY <1>5, <1>6, <1>7, <1>9, <1>11, <2>1 DEF Knows
    <2>5. QED
      BY <1>1, <1>2, <1>6, <1>8, <2>3, <2>4, TaskFrame DEF Handles
  <1>12. QED
    BY <1>2, <1>10, <1>11 DEF Handles, Steps

LEMMA MarkFinishedInv ==
  ASSUME NEW w \in Workers, NEW s \in Slots, IInv, MarkFinished(w, s)
  PROVE  IInv'
  <1>1. TypeOK /\ TypeOK' /\ Busy(w, s)
    BY TaskStepType DEF TaskStep, IInv, MarkFinished, At, Busy
  <1>2. PICK j \in Jobs : Handles(w, s, j)
    BY <1>1, TaskFacts
  <1>3. PICK t : t = [task[w][s] EXCEPT !.pc = task[w][s].after] /\ Continue(w, s, t)
    BY <1>2 DEF MarkFinished, Handles
  <1>4. PICK out \in Outcomes : out = task[w][s].out
    BY <1>2 DEF Handles, Task, Free, MarkFinished, At
  <1>5. /\ t.job = j /\ t.after = task[w][s].after /\ t.pc = t.after /\ t.out = out
        /\ t.after \in {"ack", "park"}
    BY <1>2, <1>3, <1>4 DEF Handles, Steps
  <1>6. /\ Moves(w, s)
        /\ Busy(w, s)' => task'[w][s] = t
        /\ \A v \in Workers, r \in Slots : v # w \/ r # s => task'[v][r] = task[v][r]
    <2>1. t.job = task[w][s].job /\ t.pc # "free"
      BY <1>2, <1>5 DEF Handles
    <2>2. UNCHANGED <<place, stale>>
      BY DEF MarkFinished
    <2>3. Continue(w, s, t) /\ Busy(w, s)
      BY <1>1, <1>3
    <2>4. QED
      BY <2>1, <2>2, <2>3, ContinueMoves
  <1>7. /\ status'[j] = StatusOf(out)
        /\ UNCHANGED <<log, place, count, stale, dead, mode, loop, runs>>
    BY <1>1, <1>2, <1>4 DEF MarkFinished, Handles, TypeOK
  <1>8. OnlyJob(w, s)
    BY <1>1, <1>2, <1>6 DEF OnlyJob, MarkFinished, IInv, Custody, TypeOK, Handles
  <1>9. Said(j, out)
    BY <1>2, <1>4 DEF Knows, MarkFinished, At, Handles, Steps
  <1>10. Record(j)'
    <2>1. /\ HasOutcome(j)' <=> HasOutcome(j)
          /\ \A e : Said(j, e)' <=> Said(j, e)
          /\ \A i, k \in DOMAIN log'[j] :
               i < k /\ log'[j][i] \in Outcomes => log'[j][k] = "abandoned"
      BY <1>2, <1>7, SameStream DEF Handles
    <2>2. /\ status'[j] \in {"done", "failed"}
          /\ status'[j] = "done" => out = "done"
          /\ status'[j] = "failed" => out \in Outcomes \ {"done"}
      BY <1>4, <1>7 DEF StatusOf
    <2>3. Record(j) /\ place[j] = "pending" /\ runs'[j] = runs[j] /\ runs[j] <= 1
      BY <1>2, <1>7 DEF Record, Handles
    <2>4. QED
      BY <1>7, <1>9, <2>1, <2>2, <2>3 DEF Record
  <1>11. ASSUME Busy(w, s)'
         PROVE  Knows(w, s)'
    <2>1. task'[w][s] = t /\ status'[j] \in Finished
      BY <1>6, <1>7, <1>11 DEF StatusOf, Finished
    <2>2. CASE t.after = "ack"
      <3>1. j \notin Malformed /\ count[j] <= MaxDeliveries
        BY <1>2, <1>5, <2>2 DEF Knows, Handles
      <3>2. QED
        BY <1>5, <1>7, <2>1, <2>2, <3>1 DEF Knows
    <2>3. CASE t.after = "park"
      <3>1. j \notin Malformed /\ count[j] > MaxDeliveries /\ out = "abandoned"
        BY <1>2, <1>4, <1>5, <2>3 DEF Knows, MarkFinished, At, Handles
      <3>2. QED
        BY <1>5, <1>7, <1>9, <2>1, <2>3, <3>1 DEF Knows, Said
    <2>4. QED
      BY <1>5, <2>2, <2>3
  <1>12. QED
    BY <1>1, <1>2, <1>6, <1>8, <1>10, <1>11, TaskFrame DEF Handles

LEMMA ParkInv ==
  ASSUME NEW w \in Workers, NEW s \in Slots, IInv, Park(w, s)
  PROVE  IInv'
  <1>1. TypeOK /\ TypeOK' /\ Busy(w, s)
    BY TaskStepType DEF TaskStep, IInv, Park, At, Busy
  <1>2. PICK j \in Jobs : Handles(w, s, j)
    BY <1>1, TaskFacts
  <1>3. PICK t : t = [task[w][s] EXCEPT !.pc = "ack"] /\ Continue(w, s, t)
    BY <1>2 DEF Park, Handles
  <1>4. /\ t.job = j /\ t.after = task[w][s].after /\ t.pc = "ack" /\ t.out = task[w][s].out
        /\ t.after = "park"
    BY <1>2, <1>3 DEF Handles, Steps, Knows, Park, At
  <1>5. /\ Moves(w, s)
        /\ Busy(w, s)' => task'[w][s] = t
        /\ \A v \in Workers, r \in Slots : v # w \/ r # s => task'[v][r] = task[v][r]
    <2>1. t.job = task[w][s].job /\ t.pc # "free"
      BY <1>2, <1>4 DEF Handles
    <2>2. UNCHANGED <<place, stale>>
      BY DEF Park
    <2>3. Continue(w, s, t) /\ Busy(w, s)
      BY <1>1, <1>3
    <2>4. QED
      BY <2>1, <2>2, <2>3, ContinueMoves
  <1>6. dead' = dead \cup {j} /\ UNCHANGED <<status, log, place, count, stale, mode, loop, runs>>
    BY <1>2 DEF Park, Handles
  <1>7. OnlyJob(w, s)
    BY <1>2, <1>5, <1>6 DEF OnlyJob, IInv, Custody, Handles
  <1>8. j \notin Malformed =>
          /\ count[j] > MaxDeliveries /\ task[w][s].out = "abandoned" /\ Said(j, "abandoned")
          /\ status[j] \in Finished
    BY <1>2, <1>4 DEF Knows, Park, At, Handles
  <1>9. Record(j)'
    <2>1. /\ HasOutcome(j)' <=> HasOutcome(j)
          /\ \A e : Said(j, e)' <=> Said(j, e)
          /\ \A i, k \in DOMAIN log'[j] :
               i < k /\ log'[j][i] \in Outcomes => log'[j][k] = "abandoned"
      BY <1>2, <1>6, SameStream DEF Handles
    <2>2. Record(j) /\ place[j] = "pending" /\ (j \notin Malformed => Said(j, "abandoned"))
      BY <1>2, <1>8 DEF Handles
    <2>3. QED
      BY <1>6, <2>1, <2>2 DEF Record
  <1>10. Busy(w, s)' => Knows(w, s)'
    BY <1>4, <1>5, <1>6, <1>8 DEF Knows, Said
  <1>11. QED
    BY <1>1, <1>2, <1>5, <1>7, <1>9, <1>10, TaskFrame DEF Handles

LEMMA AckInv ==
  ASSUME NEW w \in Workers, NEW s \in Slots, IInv, Ack(w, s)
  PROVE  IInv'
  <1>1. TypeOK /\ TypeOK' /\ Busy(w, s)
    BY TaskStepType DEF TaskStep, IInv, Ack, At, Busy
  <1>2. PICK j \in Jobs : Handles(w, s, j)
    BY <1>1, TaskFacts
  <1>3. /\ task'[w][s] = Free /\ inflight' = [inflight EXCEPT ![w] = @ \ {j}]
        /\ \A v \in Workers, r \in Slots : v # w \/ r # s => task'[v][r] = task[v][r]
    BY <1>1, <1>2 DEF Ack, EndTask, Handles, TypeOK
  <1>4. place'[j] = "acked" /\ UNCHANGED <<status, log, count, dead, mode, loop, runs>>
    BY <1>1, <1>2 DEF Ack, Handles, TypeOK
  <1>5. Moves(w, s) /\ OnlyJob(w, s)
    <2>1. Moves(w, s)
      BY <1>2, <1>3 DEF Moves, Handles
    <2>2. /\ place' = [place EXCEPT ![j] = "acked"]
          /\ stale' = [stale EXCEPT ![j] = FALSE]
      BY <1>2 DEF Ack, Handles
    <2>3. ~stale'[j] /\ \A i \in Jobs \ {j} : place'[i] = place[i] /\ stale'[i] = stale[i]
      BY <1>1, <2>2 DEF TypeOK
    <2>4. OnlyJob(w, s)
      BY <1>2, <1>3, <1>4, <2>3 DEF OnlyJob, IInv, Custody, Handles
    <2>5. QED
      BY <2>1, <2>4
  <1>6. IF j \in Malformed THEN j \in dead ELSE status[j] \in Finished
    BY <1>2 DEF Knows, Ack, At, Handles
  <1>7. Record(j)'
    <2>1. /\ HasOutcome(j)' <=> HasOutcome(j)
          /\ \A e : Said(j, e)' <=> Said(j, e)
          /\ \A i, k \in DOMAIN log'[j] :
               i < k /\ log'[j][i] \in Outcomes => log'[j][k] = "abandoned"
      BY <1>2, <1>4, SameStream DEF Handles
    <2>2. Record(j) /\ place[j] = "pending" /\ place'[j] \notin {"absent", "fresh"}
      BY <1>2, <1>4 DEF Handles
    <2>3. QED
      BY <1>4, <1>6, <2>1, <2>2 DEF Record
  <1>8. ~Busy(w, s)'
    BY <1>3 DEF Busy, Free
  <1>9. QED
    BY <1>1, <1>2, <1>5, <1>7, <1>8, TaskFrame DEF Handles

LEMMA TaskStepInv ==
  ASSUME NEW w \in Workers, NEW s \in Slots, IInv, TaskStep(w, s)
  PROVE  IInv'
  BY ReadStatusInv, MarkRunningInv, EndRunInv, LookBackInv, PublishInv, MarkFinishedInv, ParkInv,
     AckInv DEF TaskStep

\* Progress events, and commands the broker never saw.
LEMMA PartInv ==
  ASSUME NEW w \in Workers, NEW s \in Slots, IInv, Part(w, s)
  PROVE  IInv'
  <1>1. TypeOK /\ TypeOK' /\ Busy(w, s)
    BY SlotStepType DEF IInv, Part, At, Busy
  <1>2. PICK j \in Jobs : Handles(w, s, j)
    BY <1>1, TaskFacts
  <1>3. /\ log'[j] = Append(log[j], "part")
        /\ UNCHANGED <<status, place, count, stale, dead, mode, loop, inflight, task, runs>>
    BY <1>1, <1>2 DEF Part, Handles, TypeOK, workers
  <1>4. /\ task[w][s].after = "ack" /\ j \notin Malformed /\ count[j] <= MaxDeliveries
        /\ status[j] = "running" /\ ~HasOutcome(j)
    <2>1. task[w][s].after = "ack"
      BY <1>2 DEF Knows, Part, At, Handles, Steps
    <2>2. QED
      BY <1>2, <2>1 DEF Knows, Part, At, Handles
  <1>5. Moves(w, s) /\ OnlyJob(w, s)
    <2>1. Moves(w, s)
      BY <1>1, <1>2, <1>3 DEF Moves, Handles, Busy
    <2>2. \A i \in Jobs \ {j} : log'[i] = log[i]
      BY <1>1, <1>2 DEF Part, Handles, TypeOK
    <2>3. OnlyJob(w, s)
      BY <1>2, <1>3, <2>2 DEF OnlyJob, IInv, Custody, Handles
    <2>4. QED
      BY <2>1, <2>3
  <1>6. /\ DOMAIN log'[j] = DOMAIN log[j] \cup {Len(log[j]) + 1}
        /\ \A i \in DOMAIN log[j] : log'[j][i] = log[j][i] /\ i < Len(log[j]) + 1
        /\ log'[j][Len(log[j]) + 1] = "part"
        /\ \A x : Said(j, x)' <=> Said(j, x) \/ x = "part"
        /\ HasOutcome(j)' <=> HasOutcome(j) \/ "part" \in Outcomes
    BY <1>2, <1>3, Published DEF Handles
  <1>7. ~HasOutcome(j)'
    BY <1>4, <1>6 DEF Outcomes
  <1>8. Record(j)'
    <2>1. \A i, k \in DOMAIN log'[j] :
            i < k /\ log'[j][i] \in Outcomes => log'[j][k] = "abandoned"
      BY <1>7 DEF HasOutcome
    <2>2. QED
      BY <1>2, <1>3, <1>4, <1>6, <1>7, <2>1 DEF Record, Handles
  <1>9. Knows(w, s)'
    BY <1>2, <1>3, <1>4, <1>7 DEF Knows, Handles, Part, At
  <1>10. QED
    BY <1>1, <1>2, <1>5, <1>8, <1>9, TaskFrame DEF Handles

LEMMA RefusedInv ==
  ASSUME NEW w \in Workers, NEW s \in Slots, IInv, Refused(w, s)
  PROVE  IInv'
  <1>1. TypeOK /\ TypeOK' /\ Busy(w, s)
    BY SlotStepType DEF IInv, Refused, Busy, Commands
  <1>2. PICK j \in Jobs : Handles(w, s, j)
    BY <1>1, TaskFacts
  <1>3. /\ task'[w][s] = Free /\ inflight' = [inflight EXCEPT ![w] = @ \ {j}]
        /\ \A v \in Workers, r \in Slots : v # w \/ r # s => task'[v][r] = task[v][r]
        /\ UNCHANGED <<broker, mode, loop, runs>>
    BY <1>1, <1>2 DEF Refused, EndTask, Handles, TypeOK
  <1>4. Moves(w, s) /\ OnlyJob(w, s)
    BY <1>2, <1>3 DEF Moves, OnlyJob, broker, IInv, Custody, Handles
  <1>5. Record(j)'
    BY <1>2, <1>3, RecordFrame DEF broker, Handles
  <1>6. ~Busy(w, s)'
    BY <1>3 DEF Busy, Free
  <1>7. QED
    BY <1>1, <1>2, <1>4, <1>5, <1>6, TaskFrame DEF Handles

-----------------------------------------------------------------------------
(* Processes, time and the other jobs preserve the invariant *)

LEMMA TouchInv ==
  ASSUME NEW w \in Workers, IInv, Touch(w)
  PROVE  IInv'
  <1>1. TypeOK /\ TypeOK'
    BY ProcessStepType DEF IInv
  <1>2. \A j \in Jobs : stale'[j] => stale[j]
    BY <1>1 DEF Touch
  <1>3. OneHolder'
    BY DEF IInv, OneHolder, Touch, workers, Busy
  <1>4. Custody'
    <2>1. ASSUME NEW v \in Workers, NEW s \in Slots, Busy(v, s)
          PROVE  task[v][s].job \in Jobs /\ ~stale'[task[v][s].job]
      BY <1>1, <1>2, <2>1, Hands DEF IInv, Custody
    <2>2. ASSUME NEW v \in Workers, loop[v].job # NoJob
          PROVE  loop[v].job \in Jobs /\ ~stale'[loop[v].job]
      BY <1>1, <1>2, <2>2, Hands DEF IInv, Custody
    <2>3. QED
      BY <1>2, <2>1, <2>2 DEF IInv, Custody, Touch, workers, Busy
  <1>5. QED
    BY <1>1, <1>3, <1>4, RecordsFrame, KnowsAllFrame DEF IInv, Touch, workers

LEMMA CrashInv ==
  ASSUME NEW w \in Workers, IInv, Crash(w)
  PROVE  IInv'
  <1>1. TypeOK /\ TypeOK'
    BY ProcessStepType DEF IInv
  <1>2. /\ loop'[w] = Over /\ \A v \in Workers \ {w} : loop'[v] = loop[v]
        /\ inflight' = [inflight EXCEPT ![w] = {}]
        /\ \A s \in Slots : task'[w][s] = Free
        /\ \A v \in Workers \ {w}, s \in Slots : task'[v][s] = task[v][s]
        /\ mode'[w] = "down" /\ \A v \in Workers \ {w} : mode'[v] = mode[v]
        /\ UNCHANGED broker
    BY <1>1 DEF Crash, TypeOK
  <1>3. \A v \in Workers, s \in Slots : Busy(v, s)' => v # w /\ task'[v][s] = task[v][s]
    BY <1>2 DEF Busy, Free
  <1>4. OneHolder'
    <2>1. ASSUME NEW v \in Workers, NEW x \in Workers, NEW r \in Slots, NEW q \in Slots,
                 Busy(v, r)', Busy(x, q)', task'[v][r].job = task'[x][q].job
          PROVE  v = x /\ r = q
      BY <1>3, <2>1 DEF IInv, OneHolder, Busy
    <2>2. ASSUME NEW v \in Workers, NEW x \in Workers, loop'[v].job # NoJob
          PROVE  /\ loop'[v].job = loop'[x].job => v = x
                 /\ \A q \in Slots : task'[x][q].job # loop'[v].job
      <3>1. v # w /\ loop'[v] = loop[v]
        BY <1>2, <2>2 DEF Over
      <3>2. QED
        BY <1>2, <2>2, <3>1 DEF IInv, OneHolder, Over, Free
    <2>3. QED
      BY <2>1, <2>2 DEF OneHolder, Busy
  <1>5. Custody'
    <2>1. ASSUME NEW v \in Workers, NEW s \in Slots, Busy(v, s)'
          PROVE  /\ mode'[v] # "down"
                 /\ task'[v][s].job \in inflight'[v]
                 /\ place'[task'[v][s].job] = "pending"
                 /\ ~stale'[task'[v][s].job]
      BY <1>1, <1>2, <1>3, <2>1 DEF IInv, Custody, Busy, broker, TypeOK
    <2>2. ASSUME NEW v \in Workers, loop'[v].job # NoJob
          PROVE  /\ mode'[v] # "down"
                 /\ place'[loop'[v].job] = "pending"
                 /\ ~stale'[loop'[v].job]
                 /\ loop'[v].at = "holding" => loop'[v].count = count'[loop'[v].job]
      BY <1>1, <1>2, <2>2 DEF IInv, Custody, broker, Over
    <2>3. QED
      BY <1>2, <2>1, <2>2 DEF IInv, Custody, Busy, broker
  <1>6. QED
    BY <1>1, <1>3, <1>4, <1>5, RecordsFrame, KnowsAllFrame DEF IInv, Crash, broker

LEMMA RestartInv ==
  ASSUME NEW w \in Workers, IInv, Restart(w) \/ Stop(w)
  PROVE  IInv'
  <1>1. TypeOK /\ TypeOK'
    BY ProcessStepType DEF IInv
  <1>2. CASE Restart(w)
    <2>1. /\ loop'[w] = Polling /\ \A v \in Workers \ {w} : loop'[v] = loop[v]
          /\ mode'[w] = "up" /\ \A v \in Workers \ {w} : mode'[v] = mode[v]
          /\ UNCHANGED <<broker, inflight, task, runs>>
      BY <1>1, <1>2 DEF Restart, TypeOK
    <2>2. OneHolder'
      BY <2>1 DEF IInv, OneHolder, Busy, Polling
    <2>3. Custody'
      BY <2>1 DEF IInv, Custody, Busy, Polling, broker
    <2>4. QED
      BY <1>1, <2>1, <2>2, <2>3, RecordsFrame, KnowsAllFrame DEF IInv, broker
  <1>3. CASE Stop(w)
    <2>1. /\ mode'[w] # "down" /\ \A v \in Workers \ {w} : mode'[v] = mode[v]
          /\ UNCHANGED <<broker, loop, inflight, task, runs>>
      BY <1>1, <1>3 DEF Stop, TypeOK
    <2>2. OneHolder'
      BY <2>1 DEF IInv, OneHolder, Busy
    <2>3. Custody'
      BY <2>1 DEF IInv, Custody, Busy, broker
    <2>4. QED
      BY <1>1, <2>1, <2>2, <2>3, RecordsFrame, KnowsAllFrame DEF IInv, broker
  <1>4. QED
    BY <1>2, <1>3

\* Nobody has a job in hand that is absent, fresh or idle too long.
LEMMA NotInHand ==
  ASSUME NEW j \in Jobs, IInv, place[j] # "pending" \/ ~Kept(j)
  PROVE  /\ \A w \in Workers, s \in Slots : Busy(w, s) => task[w][s].job # j
         /\ \A w \in Workers : loop[w].job # j
  <1>1. CASE place[j] # "pending"
    BY <1>1, JobsAssumption DEF IInv, Custody
  <1>2. CASE ~Kept(j)
    BY <1>2, JobsAssumption DEF IInv, Custody, Kept
  <1>3. QED
    BY <1>1, <1>2

LEMMA SubmitInv ==
  ASSUME NEW j \in Jobs, IInv, Submit(j)
  PROVE  IInv'
  <1>1. TypeOK /\ TypeOK'
    BY JobStepType DEF IInv
  <1>2. /\ \A w \in Workers, s \in Slots : Busy(w, s) => task[w][s].job \in Jobs \ {j}
        /\ \A w \in Workers : loop[w].job # NoJob => loop[w].job \in Jobs \ {j}
    BY <1>1, NotInHand, Hands DEF Submit
  <1>3. OneHolder'
    BY DEF IInv, OneHolder, Submit, workers, Busy
  <1>4. Custody'
    <2>1. \A i \in Jobs \ {j} : place'[i] = place[i]
      BY <1>1 DEF Submit, TypeOK
    <2>2. ~stale[j]
      BY DEF IInv, Custody, Submit
    <2>3. QED
      BY <1>2, <2>1, <2>2 DEF IInv, Custody, Submit, workers, Busy
  <1>5. ASSUME NEW i \in Jobs
        PROVE  Record(i)'
    <2>1. CASE i = j
      <3>1. /\ status'[j] = "queued" /\ place'[j] = "fresh"
            /\ UNCHANGED <<log, count, dead, runs>>
        BY <1>1 DEF Submit, TypeOK
      <3>2. Record(j) /\ place[j] = "absent" /\ status[j] = "none"
        BY DEF IInv, Submit, Record
      <3>3. QED
        BY <2>1, <3>1, <3>2, JobsAssumption DEF Record, Said, HasOutcome
    <2>2. CASE i # j
      BY <1>1, <2>2, RecordFrame DEF IInv, Submit, TypeOK
    <2>3. QED
      BY <2>1, <2>2
  <1>6. ASSUME NEW w \in Workers, NEW s \in Slots, Busy(w, s)'
        PROVE  Knows(w, s)'
    <2>1. task'[w][s] = task[w][s] /\ Busy(w, s)
      BY <1>6 DEF Submit, workers, Busy
    <2>2. status'[task[w][s].job] = status[task[w][s].job]
      BY <1>1, <1>2, <2>1 DEF Submit, TypeOK
    <2>3. QED
      BY <2>1, <2>2, KnowsFrame DEF IInv, Submit
  <1>7. QED
    BY <1>1, <1>3, <1>4, <1>5, <1>6 DEF IInv

LEMMA BecomeStaleInv ==
  ASSUME NEW j \in Jobs, IInv, BecomeStale(j)
  PROVE  IInv'
  <1>1. TypeOK /\ TypeOK'
    BY JobStepType DEF IInv
  <1>2. /\ \A w \in Workers, s \in Slots : Busy(w, s) => task[w][s].job \in Jobs \ {j}
        /\ \A w \in Workers : loop[w].job # NoJob => loop[w].job \in Jobs \ {j}
    BY <1>1, NotInHand, Hands DEF BecomeStale
  <1>3. OneHolder'
    BY DEF IInv, OneHolder, BecomeStale, workers, Busy
  <1>4. Custody'
    <2>1. \A i \in Jobs \ {j} : stale'[i] = stale[i]
      BY <1>1 DEF BecomeStale, TypeOK
    <2>2. QED
      BY <1>2, <2>1 DEF IInv, Custody, BecomeStale, workers, Busy
  <1>5. QED
    BY <1>1, <1>3, <1>4, RecordsFrame, KnowsAllFrame DEF IInv, BecomeStale, workers

-----------------------------------------------------------------------------
(* The invariant, and what follows from it *)

LEMMA InitInv == Init => IInv
  <1> SUFFICES ASSUME Init
               PROVE  IInv
    OBVIOUS
  <1>1. TypeOK
    BY InitType
  <1>2. \A w \in Workers, s \in Slots : ~Busy(w, s) /\ task[w][s].job = NoJob
    BY DEF Init, Busy, Free
  <1>3. \A w \in Workers : loop[w].job = NoJob
    BY DEF Init, Polling
  <1>4. OneHolder /\ Custody
    BY <1>2, <1>3 DEF OneHolder, Custody, Init
  <1>5. ASSUME NEW j \in Jobs
        PROVE  Record(j)
    BY DEF Record, Said, HasOutcome, Init
  <1>6. QED
    BY <1>1, <1>2, <1>4, <1>5 DEF IInv

LEMMA NextInv == Calm /\ IInv /\ [Next]_vars => IInv'
  <1> SUFFICES ASSUME Calm, IInv, [Next]_vars
               PROVE  IInv'
    OBVIOUS
  <1>1. CASE UNCHANGED vars
    <2>1. TypeOK' /\ OneHolder' /\ Custody'
      BY <1>1 DEF vars, IInv, TypeOK, OneHolder, Custody, Busy
    <2>2. QED
      BY <1>1, <2>1, RecordsFrame, KnowsAllFrame DEF vars, IInv
  <1>2. CASE \E j \in Jobs : Submit(j) \/ BecomeStale(j)
    BY <1>2, SubmitInv, BecomeStaleInv
  <1>3. CASE \E j \in Jobs : Lapse(j) \/ Expire(j)
    BY <1>3, CalmFaults DEF Lapse, Expire, IInv
  <1>4. CASE \E w \in Workers : LoopStep(w) \/ Touch(w) \/ Crash(w) \/ Restart(w) \/ Stop(w)
    BY <1>4, LoopStepInv, TouchInv, CrashInv, RestartInv
  <1>5. CASE \E w \in Workers, s \in Slots : TaskStep(w, s) \/ Part(w, s) \/ Refused(w, s)
    BY <1>5, TaskStepInv, PartInv, RefusedInv
  <1>6. QED
    BY <1>1, <1>2, <1>3, <1>4, <1>5 DEF Next

\* While no worker lapses and nothing expires, every reachable state satisfies IInv: whoever has
\* an entry in hand is alive and alone with it, and knows what the broker holds about its job.
THEOREM Invariance == ASSUME Calm PROVE Spec => []IInv
  <1>1. IInv /\ [Next]_vars => IInv'
    BY NextInv
  <1>2. QED
    BY <1>1, InitInv, PTL DEF Spec

\* An entry is in the hands of one task or one loop only, for any number of workers, slots, jobs,
\* crashes, stops and lost replies (keep_claimed, Consumer.run).
THEOREM OneHolderHolds == ASSUME Calm PROVE Spec => []OneHolder
  <1>1. IInv => OneHolder
    BY DEF IInv
  <1>2. QED
    BY <1>1, Invariance, PTL

\* _execute begins at most once on a job, however often it is delivered (JobHandler.run).
THEOREM StartedOnceHolds == ASSUME Calm PROVE Spec => []StartedOnce
  <1>1. IInv => StartedOnce
    BY DEF IInv, Record, StartedOnce
  <1>2. QED
    BY <1>1, Invariance, PTL

\* Nothing but JOB_ABANDONED follows an outcome in a job's stream (finish, _redelivered, dead).
THEOREM OutcomeIsLastHolds == ASSUME Calm PROVE Spec => []OutcomeIsLast
  <1>1. IInv => OutcomeIsLast
    BY DEF IInv, Record, OutcomeIsLast
  <1>2. QED
    BY <1>1, Invariance, PTL

\* An acknowledged job is finished, or on jobs:dead when its payload does not parse (handle).
THEOREM AckedIsSettledHolds == ASSUME Calm PROVE Spec => []AckedIsSettled
  <1>1. IInv => AckedIsSettled
    BY DEF IInv, Record, AckedIsSettled
  <1>2. QED
    BY <1>1, Invariance, PTL

\* The four actions that write a status.
LEMMA StatusWriters ==
  ASSUME [Next]_vars
  PROVE  \/ status' = status
         \/ \E i \in Jobs : Submit(i) \/ Expire(i)
         \/ \E w \in Workers, s \in Slots : MarkRunning(w, s) \/ MarkFinished(w, s)
  <1>1. CASE UNCHANGED vars
    BY <1>1 DEF vars
  <1>2. CASE \E j \in Jobs : Submit(j) \/ BecomeStale(j) \/ Lapse(j) \/ Expire(j)
    BY <1>2 DEF BecomeStale, Lapse
  <1>3. CASE \E w \in Workers : LoopStep(w)
    BY <1>3 DEF LoopStep, ReadNew, Claim, ReadCount, Dispatch, EndLoop, Exit, broker
  <1>4. CASE \E w \in Workers : Touch(w) \/ Crash(w) \/ Restart(w) \/ Stop(w)
    BY <1>4 DEF Touch, Crash, Restart, Stop, broker
  <1>5. CASE \E w \in Workers, s \in Slots : TaskStep(w, s)
    BY <1>5 DEF TaskStep, ReadStatus, EndRun, LookBack, Publish, Park, Ack, broker
  <1>6. CASE \E w \in Workers, s \in Slots : Part(w, s) \/ Refused(w, s)
    BY <1>6 DEF Part, Refused, broker
  <1>7. QED
    BY <1>1, <1>2, <1>3, <1>4, <1>5, <1>6 DEF Next

\* A step that changes a finished job's status marks it finished: `running` is only written to a
\* queued job, and `queued` to one that was never submitted.
LEMMA StepNeverReopens ==
  ASSUME Calm, IInv, [Next]_vars, NEW j \in Jobs, status[j] \in Finished
  PROVE  status'[j] \in Finished
  <1>1. TypeOK /\ Record(j)
    BY DEF IInv
  <1>2. CASE status'[j] = status[j]
    BY <1>2
  <1>3. CASE \E i \in Jobs : Submit(i)
    <2>1. PICK i \in Jobs : Submit(i)
      BY <1>3
    <2>2. Record(i) /\ status[i] = "none"
      BY <2>1 DEF IInv, Record, Submit
    <2>3. QED
      BY <1>1, <2>1, <2>2 DEF Submit, TypeOK, Finished
  <1>4. CASE \E w \in Workers, s \in Slots : MarkRunning(w, s)
    <2>1. PICK w \in Workers, s \in Slots : MarkRunning(w, s)
      BY <1>4
    <2>2. Busy(w, s) /\ task[w][s].pc = "markRun"
      BY <2>1 DEF MarkRunning, At, Busy
    <2>3. PICK i \in Jobs : Handles(w, s, i)
      BY <2>2, TaskFacts
    <2>4. status[i] = "queued"
      BY <2>2, <2>3 DEF Handles, Knows, Steps
    <2>5. QED
      BY <1>1, <2>1, <2>3, <2>4 DEF MarkRunning, Handles, TypeOK, Finished
  <1>5. CASE \E w \in Workers, s \in Slots : MarkFinished(w, s)
    BY <1>1, <1>5 DEF MarkFinished, TypeOK, StatusOf, Finished
  <1>6. CASE \E i \in Jobs : Expire(i)
    BY <1>1, <1>6, CalmFaults DEF Expire
  <1>7. QED
    BY <1>2, <1>3, <1>4, <1>5, <1>6, StatusWriters

\* A finished job is never shown as queued or running again.
THEOREM NeverReopenedHolds == ASSUME Calm PROVE Spec => NeverReopened
  <1>1. IInv /\ [Next]_vars => [\A j \in Jobs : status[j] \in Finished => status'[j] \in Finished]_vars
    BY StepNeverReopens
  <1>2. QED
    BY <1>1, Invariance, PTL DEF Spec, NeverReopened

-----------------------------------------------------------------------------
(* The client hears before a status or jobs:dead says so *)

\* No record expires under a pending job.
NoExpiry == MaxFaults["expiry"] = 0

\* A task about to mark an outcome has published it; one about to park a job that parses has told
\* the client it was abandoned.
TaskTold(w, s) ==
    LET t == task[w][s] IN
    /\ t.pc = "mark" => Said(t.job, t.out)
    /\ t.after = "park" /\ t.job \notin Malformed =>
         /\ t.out = "abandoned"
         /\ t.pc \in {"publish", "mark", "park", "ack"}
         /\ t.pc \in {"park", "ack"} => Said(t.job, "abandoned")
    /\ t.pc = "park" => t.after = "park"

\* Unless records expire, the stream of a parked job keeps its last event.
ParkedTold == NoExpiry => \A j \in dead \ Malformed : Said(j, "abandoned")

Told ==
    /\ TypeOK
    /\ FinishedWasPublished
    /\ ParkedTold
    /\ \A w \in Workers, s \in Slots : Busy(w, s) => TaskTold(w, s)

\* A stream only grows.
LEMMA Grows ==
  ASSUME NEW j \in Jobs, log[j] \in Seq(Outcomes \cup {"part"}), NEW e, NEW x,
         log'[j] = log[j] \/ log'[j] = Append(log[j], e), Said(j, x)
  PROVE  Said(j, x)'
  <1>1. CASE log'[j] = log[j]
    BY <1>1 DEF Said
  <1>2. CASE log'[j] = Append(log[j], e)
    BY <1>2, Published
  <1>3. QED
    BY <1>1, <1>2

\* A step in which streams only grow, no status or dead letter is written and no task moves but
\* to where it is told.
LEMMA ToldFrame ==
  ASSUME Told, TypeOK', UNCHANGED <<status, dead>>,
         \A j \in Jobs : \A x : Said(j, x) => Said(j, x)',
         \A w \in Workers, s \in Slots :
            Busy(w, s)' => task'[w][s] = task[w][s] \/ TaskTold(w, s)'
  PROVE  Told'
  <1>1. FinishedWasPublished'
    BY DEF Told, FinishedWasPublished
  <1>2. ParkedTold'
    BY DEF Told, ParkedTold, TypeOK
  <1>3. ASSUME NEW w \in Workers, NEW s \in Slots, Busy(w, s)'
        PROVE  TaskTold(w, s)'
    <2>1. CASE task'[w][s] = task[w][s]
      <3>1. Busy(w, s) /\ task[w][s].job \in Jobs /\ TaskTold(w, s)
        BY <1>3, <2>1, Hands DEF Busy, Told
      <3>2. QED
        BY <2>1, <3>1 DEF TaskTold
    <2>2. CASE TaskTold(w, s)'
      BY <2>2
    <2>3. QED
      BY <1>3, <2>1, <2>2
  <1>4. QED
    BY <1>1, <1>2, <1>3 DEF Told

\* After a command's reply every busy slot has the task it had, but one that may have gone on.
LEMMA ContinueOne ==
  ASSUME TypeOK, NEW w \in Workers, NEW s \in Slots, NEW t, Continue(w, s, t)
  PROVE  \A v \in Workers, r \in Slots :
            Busy(v, r)' => task'[v][r] = task[v][r] \/ (v = w /\ r = s /\ task'[v][r] = t)
  BY DEF Continue, EndTask, TypeOK, Busy, Free

LEMMA EndTaskOne ==
  ASSUME TypeOK, NEW w \in Workers, NEW s \in Slots, EndTask(w, s)
  PROVE  \A v \in Workers, r \in Slots : Busy(v, r)' => task'[v][r] = task[v][r]
  BY DEF EndTask, TypeOK, Busy, Free

\* The steps of the loop, of processes and of time tell and record nothing.
LEMMA LoopStepTold ==
  ASSUME Told, TypeOK', NEW w \in Workers, LoopStep(w)
  PROVE  Told'
  <1>1. CASE Dispatch(w)
    <2>1. loop[w].job \in Jobs
      BY <1>1, Hands DEF Dispatch, Told
    <2>2. PICK s \in Slots :
            task' = [task EXCEPT ![w][s] = FirstStep(loop[w].job, loop[w].count)]
      BY <1>1 DEF Dispatch
    <2>3. TaskTold(w, s)'
      <3>1. task'[w][s] = FirstStep(loop[w].job, loop[w].count)
        BY <2>2 DEF Told, TypeOK
      <3>2. QED
        BY <2>1, <3>1 DEF TaskTold, FirstStep
    <2>4. \A v \in Workers, r \in Slots : task'[v][r] = task[v][r] \/ (v = w /\ r = s)
      BY <2>2 DEF Told, TypeOK
    <2>5. QED
      BY <1>1, <2>3, <2>4, ToldFrame DEF Dispatch, broker, Said
  <1>2. CASE ~Dispatch(w)
    <2>1. UNCHANGED <<status, log, dead, task>>
      BY <1>2 DEF LoopStep, ReadNew, Claim, ReadCount, EndLoop, Exit, broker
    <2>2. \A v \in Workers, s \in Slots : task'[v][s] = task[v][s]
      BY <2>1
    <2>3. \A j \in Jobs : \A x : Said(j, x) => Said(j, x)'
      BY <2>1 DEF Said
    <2>4. QED
      BY <2>1, <2>2, <2>3, ToldFrame
  <1>3. QED
    BY <1>1, <1>2

LEMMA ProcessStepTold ==
  ASSUME Told, TypeOK', NEW w \in Workers, Touch(w) \/ Crash(w) \/ Restart(w) \/ Stop(w)
  PROVE  Told'
  <1>1. UNCHANGED <<status, log, dead>>
    BY DEF Touch, Crash, Restart, Stop, broker
  <1>2. \A v \in Workers, s \in Slots : Busy(v, s)' => task'[v][s] = task[v][s]
    <2>1. CASE Crash(w)
      BY <2>1 DEF Crash, Told, TypeOK, Busy, Free
    <2>2. CASE Touch(w) \/ Restart(w) \/ Stop(w)
      BY <2>2 DEF Touch, Restart, Stop, workers
    <2>3. QED
      BY <2>1, <2>2
  <1>3. QED
    BY <1>1, <1>2, ToldFrame DEF Said

LEMMA JobStepTold ==
  ASSUME Told, TypeOK', NEW j \in Jobs, Submit(j) \/ BecomeStale(j) \/ Lapse(j)
  PROVE  Told'
  <1>1. CASE Submit(j)
    <2>1. FinishedWasPublished' /\ ParkedTold'
      BY <1>1 DEF Told, TypeOK, Submit, FinishedWasPublished, ParkedTold, Said
    <2>2. \A w \in Workers, s \in Slots : Busy(w, s)' => TaskTold(w, s)'
      BY <1>1 DEF Told, Submit, workers, Busy, TaskTold, Said
    <2>3. QED
      BY <2>1, <2>2 DEF Told
  <1>2. CASE BecomeStale(j) \/ Lapse(j)
    BY <1>2, ToldFrame DEF BecomeStale, Lapse, workers, Said
  <1>3. QED
    BY <1>1, <1>2

\* Records expire under no task, so no task relies on them.
LEMMA ExpireTold ==
  ASSUME Told, TypeOK', NEW j \in Jobs, Expire(j)
  PROVE  Told'
  <1>1. /\ status' = [status EXCEPT ![j] = "none"] /\ log' = [log EXCEPT ![j] = <<>>]
        /\ UNCHANGED <<dead, task>>
    BY DEF Expire, workers
  <1>2. \A i \in Jobs \ {j} : status'[i] = status[i] /\ log'[i] = log[i]
    BY <1>1 DEF Told, TypeOK
  <1>3. FinishedWasPublished'
    <2>1. status'[j] = "none"
      BY <1>1 DEF Told, TypeOK
    <2>2. QED
      BY <1>2, <2>1 DEF Told, FinishedWasPublished, Said
  <1>4. ~NoExpiry
    BY DEF NoExpiry, Expire, Fault, CanFail, Told, TypeOK, FaultKinds
  <1>5. ASSUME NEW w \in Workers, NEW s \in Slots, Busy(w, s)'
        PROVE  TaskTold(w, s)'
    <2>1. Busy(w, s) /\ task[w][s].job \in Jobs \ {j} /\ TaskTold(w, s)
      BY <1>1, <1>5, Hands DEF Busy, Told, Expire
    <2>2. QED
      BY <1>1, <1>2, <2>1 DEF TaskTold, Said
  <1>6. QED
    BY <1>3, <1>4, <1>5 DEF Told, ParkedTold

\* The steps of a task.
LEMMA ReadStatusTold ==
  ASSUME Told, TypeOK', NEW w \in Workers, NEW s \in Slots, ReadStatus(w, s)
  PROVE  Told'
  <1>1. PICK pc \in {"ack", "lookback", "markRun"} : Continue(w, s, [task[w][s] EXCEPT !.pc = pc])
    BY DEF ReadStatus
  <1>2. Busy(w, s) /\ task[w][s] \in Steps /\ task[w][s].pc = "status" /\ TaskTold(w, s)
    BY BusyTask DEF ReadStatus, At, Busy, Told, TypeOK
  <1>3. task'[w][s] = [task[w][s] EXCEPT !.pc = pc] => TaskTold(w, s)'
    BY <1>2 DEF TaskTold, Steps
  <1>4. \A v \in Workers, r \in Slots : Busy(v, r)' => task'[v][r] = task[v][r] \/ TaskTold(v, r)'
    BY <1>1, <1>3, ContinueOne DEF Told
  <1>5. QED
    BY <1>4, ToldFrame DEF ReadStatus, broker, Said

LEMMA MarkRunningTold ==
  ASSUME Told, TypeOK', NEW w \in Workers, NEW s \in Slots, MarkRunning(w, s)
  PROVE  Told'
  <1>1. Busy(w, s) /\ task[w][s] \in Steps /\ task[w][s].pc = "markRun" /\ TaskTold(w, s)
    BY BusyTask DEF MarkRunning, At, Busy, Told, TypeOK
  <1>2. FinishedWasPublished' /\ ParkedTold'
    BY DEF Told, TypeOK, MarkRunning, FinishedWasPublished, ParkedTold, Said
  <1>3. ASSUME NEW v \in Workers, NEW r \in Slots, Busy(v, r)', task'[v][r] = task[v][r]
        PROVE  TaskTold(v, r)'
    BY <1>3 DEF Told, Busy, TaskTold, MarkRunning, Said
  <1>4. CASE task' = [task EXCEPT ![w][s].pc = "run"]
    <2>1. /\ task'[w][s].pc = "run" /\ task'[w][s].after = task[w][s].after
          /\ task'[w][s].job = task[w][s].job
      BY <1>1, <1>4 DEF Told, TypeOK, Steps
    <2>2. TaskTold(w, s)'
      BY <1>1, <2>1 DEF TaskTold
    <2>3. \A v \in Workers, r \in Slots : task'[v][r] = task[v][r] \/ (v = w /\ r = s)
      BY <1>4 DEF Told, TypeOK
    <2>4. QED
      BY <1>2, <1>3, <2>2, <2>3 DEF Told
  <1>5. CASE EndTask(w, s)
    <2>1. \A v \in Workers, r \in Slots : Busy(v, r)' => task'[v][r] = task[v][r]
      BY <1>5, EndTaskOne DEF Told
    <2>2. QED
      BY <1>2, <1>3, <2>1 DEF Told
  <1>6. QED
    BY <1>4, <1>5 DEF MarkRunning

LEMMA EndRunTold ==
  ASSUME Told, TypeOK', NEW w \in Workers, NEW s \in Slots, EndRun(w, s)
  PROVE  Told'
  <1>1. PICK out \in {"done", "error"} :
            task' = [task EXCEPT ![w][s] = [@ EXCEPT !.pc = "publish", !.out = out]]
    BY DEF EndRun
  <1>2. task[w][s] \in Steps /\ task[w][s].pc = "run" /\ TaskTold(w, s)
    BY BusyTask DEF EndRun, At, Busy, Told, TypeOK
  <1>3. task'[w][s] = [task[w][s] EXCEPT !.pc = "publish", !.out = out]
    BY <1>1 DEF Told, TypeOK
  <1>4. TaskTold(w, s)'
    BY <1>2, <1>3 DEF TaskTold, Steps
  <1>5. \A v \in Workers, r \in Slots : task'[v][r] = task[v][r] \/ (v = w /\ r = s)
    BY <1>1 DEF Told, TypeOK
  <1>6. QED
    BY <1>4, <1>5, ToldFrame DEF EndRun, broker, Said

\* The latest event is in the stream.
LEMMA LatestSaid ==
  ASSUME NEW j \in Jobs, log[j] \in Seq(Outcomes \cup {"part"}), Latest(j) \in Outcomes
  PROVE  Said(j, Latest(j))
  <1>1. CASE log[j] = <<>>
    BY <1>1 DEF Latest, Outcomes
  <1>2. CASE log[j] # <<>>
    <2>1. Len(log[j]) \in DOMAIN log[j] /\ Latest(j) = log[j][Len(log[j])]
      BY <1>2 DEF Latest
    <2>2. QED
      BY <2>1 DEF Said
  <1>3. QED
    BY <1>1, <1>2

LEMMA LookBackTold ==
  ASSUME Told, TypeOK', NEW w \in Workers, NEW s \in Slots, LookBack(w, s)
  PROVE  Told'
  <1>1. Busy(w, s) /\ task[w][s] \in Steps /\ task[w][s].pc = "lookback" /\ TaskTold(w, s)
    BY BusyTask DEF LookBack, At, Busy, Told, TypeOK
  <1>2. PICK j \in Jobs : j = task[w][s].job
    BY <1>1 DEF Steps
  <1>3. PICK t : /\ t = [task[w][s] EXCEPT
                           !.pc  = IF LastTerminal(j) = NoOutcome THEN "publish" ELSE "mark",
                           !.out = IF LastTerminal(j) = NoOutcome THEN "interrupted"
                                   ELSE LastTerminal(j)]
                 /\ Continue(w, s, t)
    BY <1>2 DEF LookBack
  <1>4. /\ t.job = j /\ t.after = task[w][s].after
        /\ t.pc = IF LastTerminal(j) = NoOutcome THEN "publish" ELSE "mark"
        /\ t.out = IF LastTerminal(j) = NoOutcome THEN "interrupted" ELSE LastTerminal(j)
    BY <1>1, <1>2, <1>3 DEF Steps
  <1>5. LastTerminal(j) # NoOutcome => Said(j, LastTerminal(j))
    BY LatestSaid DEF LastTerminal, Told, TypeOK
  <1>6. task'[w][s] = t => TaskTold(w, s)'
    <2>1. log' = log
      BY DEF LookBack, broker
    <2>2. QED
      BY <1>1, <1>2, <1>4, <1>5, <2>1 DEF TaskTold, Said
  <1>7. \A v \in Workers, r \in Slots : Busy(v, r)' => task'[v][r] = task[v][r] \/ TaskTold(v, r)'
    BY <1>3, <1>6, ContinueOne DEF Told
  <1>8. QED
    BY <1>7, ToldFrame DEF LookBack, broker, Said

LEMMA PublishTold ==
  ASSUME Told, TypeOK', NEW w \in Workers, NEW s \in Slots, Publish(w, s)
  PROVE  Told'
  <1>1. Busy(w, s) /\ task[w][s] \in Steps /\ task[w][s].pc = "publish" /\ TaskTold(w, s)
    BY BusyTask DEF Publish, At, Busy, Told, TypeOK
  <1>2. PICK j \in Jobs : j = task[w][s].job
    BY <1>1 DEF Steps
  <1>3. PICK t : t = [task[w][s] EXCEPT !.pc = "mark"] /\ Continue(w, s, t)
    BY DEF Publish
  <1>4. /\ log'[j] = Append(log[j], task[w][s].out)
        /\ \A i \in Jobs \ {j} : log'[i] = log[i]
        /\ UNCHANGED <<status, dead>>
    BY <1>2 DEF Publish, Told, TypeOK
  <1>5. \A i \in Jobs : \A x : Said(i, x) => Said(i, x)'
    BY <1>4, Grows DEF Told, TypeOK
  <1>6. PICK out : out = task[w][s].out /\ Said(j, out)'
    <2>1. PICK out : out = task[w][s].out
      OBVIOUS
    <2>2. log'[j] = Append(log[j], out)
      BY <1>4, <2>1
    <2>3. Said(j, out)'
      BY <2>2, Published DEF Told, TypeOK
    <2>4. QED
      BY <2>1, <2>3
  <1>7. ASSUME task'[w][s] = t
        PROVE  TaskTold(w, s)'
    <2>1. /\ task'[w][s].pc = "mark" /\ task'[w][s].out = out /\ task'[w][s].job = j
          /\ task'[w][s].after = task[w][s].after
      BY <1>1, <1>2, <1>3, <1>6, <1>7 DEF Steps
    <2>2. task[w][s].after = "park" /\ j \notin Malformed => out = "abandoned"
      BY <1>1, <1>2, <1>6 DEF TaskTold
    <2>3. QED
      BY <1>6, <2>1, <2>2 DEF TaskTold, Said
  <1>8. \A v \in Workers, r \in Slots : Busy(v, r)' => task'[v][r] = task[v][r] \/ TaskTold(v, r)'
    BY <1>3, <1>7, ContinueOne DEF Told
  <1>9. QED
    BY <1>4, <1>5, <1>8, ToldFrame

LEMMA MarkFinishedTold ==
  ASSUME Told, TypeOK', NEW w \in Workers, NEW s \in Slots, MarkFinished(w, s)
  PROVE  Told'
  <1>1. /\ Busy(w, s) /\ task[w][s] \in Steps /\ task[w][s].pc = "mark"
        /\ task[w][s].out \in Outcomes /\ TaskTold(w, s)
    BY BusyTask DEF MarkFinished, At, Busy, Told, TypeOK, Task, Free
  <1>2. PICK j \in Jobs : j = task[w][s].job
    BY <1>1 DEF Steps
  <1>3. PICK t : t = [task[w][s] EXCEPT !.pc = task[w][s].after] /\ Continue(w, s, t)
    BY DEF MarkFinished
  <1>4. /\ status'[j] = StatusOf(task[w][s].out)
        /\ \A i \in Jobs \ {j} : status'[i] = status[i]
        /\ UNCHANGED <<log, dead>>
    BY <1>2 DEF MarkFinished, Told, TypeOK
  <1>5. Said(j, task[w][s].out)
    BY <1>1, <1>2 DEF TaskTold
  <1>6. FinishedWasPublished'
    <2>1. ASSUME NEW i \in Jobs
          PROVE  /\ status'[i] = "done" => Said(i, "done")
                 /\ status'[i] = "failed" => \E out \in Outcomes \ {"done"} : Said(i, out)
      BY <1>1, <1>4, <1>5 DEF StatusOf, Told, FinishedWasPublished
    <2>2. QED
      BY <1>4, <2>1 DEF FinishedWasPublished, Said
  <1>7. ParkedTold'
    BY <1>4 DEF Told, ParkedTold, Said
  <1>8. ASSUME task'[w][s] = t
        PROVE  TaskTold(w, s)'
    <2>1. /\ task'[w][s].pc = task[w][s].after /\ task'[w][s].out = task[w][s].out
          /\ task'[w][s].job = j /\ task'[w][s].after = task[w][s].after
          /\ task[w][s].after \in {"ack", "park"}
      BY <1>1, <1>2, <1>3, <1>8 DEF Steps
    <2>2. QED
      BY <1>1, <1>2, <1>4, <1>5, <2>1 DEF TaskTold, Said
  <1>9. ASSUME NEW v \in Workers, NEW r \in Slots, Busy(v, r)'
        PROVE  TaskTold(v, r)'
    <2>1. CASE task'[v][r] = task[v][r]
      BY <1>4, <1>9, <2>1 DEF Told, Busy, TaskTold, Said
    <2>2. CASE task'[v][r] # task[v][r]
      BY <1>3, <1>8, <1>9, <2>2, ContinueOne DEF Told
    <2>3. QED
      BY <2>1, <2>2
  <1>10. QED
    BY <1>6, <1>7, <1>9 DEF Told

LEMMA ParkTold ==
  ASSUME Told, TypeOK', NEW w \in Workers, NEW s \in Slots, Park(w, s)
  PROVE  Told'
  <1>1. Busy(w, s) /\ task[w][s] \in Steps /\ task[w][s].pc = "park" /\ TaskTold(w, s)
    BY BusyTask DEF Park, At, Busy, Told, TypeOK
  <1>2. PICK j \in Jobs : j = task[w][s].job
    BY <1>1 DEF Steps
  <1>3. PICK t : t = [task[w][s] EXCEPT !.pc = "ack"] /\ Continue(w, s, t)
    BY DEF Park
  <1>4. dead' = dead \cup {j} /\ UNCHANGED <<status, log>>
    BY <1>2 DEF Park
  <1>5. task[w][s].after = "park" /\ (j \notin Malformed => Said(j, "abandoned"))
    BY <1>1, <1>2 DEF TaskTold
  <1>6. FinishedWasPublished' /\ ParkedTold'
    BY <1>4, <1>5 DEF Told, FinishedWasPublished, ParkedTold, Said
  <1>7. task'[w][s] = t => TaskTold(w, s)'
    BY <1>1, <1>2, <1>3, <1>4, <1>5 DEF TaskTold, Said, Steps
  <1>8. ASSUME NEW v \in Workers, NEW r \in Slots, Busy(v, r)'
        PROVE  TaskTold(v, r)'
    <2>1. CASE task'[v][r] = task[v][r]
      BY <1>4, <1>8, <2>1 DEF Told, Busy, TaskTold, Said
    <2>2. CASE task'[v][r] # task[v][r]
      BY <1>3, <1>7, <1>8, <2>2, ContinueOne DEF Told
    <2>3. QED
      BY <2>1, <2>2
  <1>9. QED
    BY <1>6, <1>8 DEF Told

\* An ack, a refused command and a progress event.
LEMMA OtherStepTold ==
  ASSUME Told, TypeOK', NEW w \in Workers, NEW s \in Slots,
         Ack(w, s) \/ Refused(w, s) \/ Part(w, s)
  PROVE  Told'
  <1>1. CASE Ack(w, s) \/ Refused(w, s)
    <2>1. UNCHANGED <<status, log, dead>>
      BY <1>1 DEF Ack, Refused, broker
    <2>2. EndTask(w, s)
      BY <1>1 DEF Ack, Refused
    <2>3. \A v \in Workers, r \in Slots : Busy(v, r)' => task'[v][r] = task[v][r]
      BY <2>2, EndTaskOne DEF Told
    <2>4. \A j \in Jobs : \A x : Said(j, x) => Said(j, x)'
      BY <2>1 DEF Said
    <2>5. QED
      BY <2>1, <2>3, <2>4, ToldFrame
  <1>2. CASE Part(w, s)
    <2>1. \A j \in Jobs : log'[j] = log[j] \/ log'[j] = Append(log[j], "part")
      BY <1>2 DEF Part, Told, TypeOK
    <2>2. \A j \in Jobs : \A x : Said(j, x) => Said(j, x)'
      BY <2>1, Grows DEF Told, TypeOK
    <2>3. UNCHANGED <<status, dead, task>>
      BY <1>2 DEF Part, workers
    <2>4. \A v \in Workers, r \in Slots : task'[v][r] = task[v][r]
      BY <2>3
    <2>5. QED
      BY <2>2, <2>3, <2>4, ToldFrame
  <1>3. QED
    BY <1>1, <1>2

LEMMA InitTold == Init => Told
  <1> SUFFICES ASSUME Init
               PROVE  Told
    OBVIOUS
  <1>1. TypeOK
    BY InitType
  <1>2. FinishedWasPublished /\ ParkedTold
    BY DEF Init, FinishedWasPublished, ParkedTold
  <1>3. \A w \in Workers, s \in Slots : ~Busy(w, s)
    BY DEF Init, Busy, Free
  <1>4. QED
    BY <1>1, <1>2, <1>3 DEF Told

LEMMA NextTold == Told /\ [Next]_vars => Told'
  <1> SUFFICES ASSUME Told, [Next]_vars
               PROVE  Told'
    OBVIOUS
  <1>1. TypeOK /\ TypeOK'
    BY NextType DEF Told
  <1>2. CASE UNCHANGED vars
    BY <1>1, <1>2, ToldFrame DEF vars, Said
  <1>3. CASE \E j \in Jobs : Submit(j) \/ BecomeStale(j) \/ Lapse(j) \/ Expire(j)
    BY <1>1, <1>3, JobStepTold, ExpireTold
  <1>4. CASE \E w \in Workers : LoopStep(w) \/ Touch(w) \/ Crash(w) \/ Restart(w) \/ Stop(w)
    BY <1>1, <1>4, LoopStepTold, ProcessStepTold
  <1>5. CASE \E w \in Workers, s \in Slots : TaskStep(w, s) \/ Part(w, s) \/ Refused(w, s)
    BY <1>1, <1>5, ReadStatusTold, MarkRunningTold, EndRunTold, LookBackTold, PublishTold,
       MarkFinishedTold, ParkTold, OtherStepTold DEF TaskStep
  <1>6. QED
    BY <1>2, <1>3, <1>4, <1>5 DEF Next

\* Every reachable state satisfies Told, whatever lapses and expires.
THEOREM ToldInvariance == Spec => []Told
  <1>1. Told /\ [Next]_vars => Told'
    BY NextTold
  <1>2. QED
    BY <1>1, InitTold, PTL DEF Spec

\* A finished status is never ahead of its event, even when workers lapse and two of them handle
\* one job at once (JobHandler.finish publishes before it marks).
THEOREM FinishedWasPublishedHolds == Spec => []FinishedWasPublished
  <1>1. Told => FinishedWasPublished
    BY DEF Told
  <1>2. QED
    BY <1>1, ToldInvariance, PTL

\* While no record expires, the client of a job on jobs:dead was told, even when workers lapse
\* (Consumer.handle).
THEOREM DeadWasToldHolds == ASSUME NoExpiry PROVE Spec => []DeadWasTold
  <1>1. Told => DeadWasTold
    BY DEF Told, ParkedTold, DeadWasTold
  <1>2. QED
    BY <1>1, ToldInvariance, PTL

-----------------------------------------------------------------------------
(* JobLife, step by step, while no worker lapses *)

\* The first of the outcomes in a stream.
IsFirst(events, i) ==
    /\ i \in DOMAIN events /\ events[i] \in Outcomes
    /\ \A k \in DOMAIN events : events[k] \in Outcomes => i <= k

HasFirst(j) == HasOutcome(j) => \E i \in DOMAIN log[j] : IsFirst(log[j], i)

\* A run gives `done` or an error of its own, and is counted before.
Ran(w, s) ==
    LET t == task[w][s] IN
    t.pc = "run" \/ (t.pc = "publish" /\ t.out \in {"done", "error"}) => runs[t.job] > 0

LifeInv ==
    /\ IInv
    /\ \A j \in Jobs : HasFirst(j) /\ (j \in Malformed => runs[j] = 0)
    /\ \A w \in Workers, s \in Slots : Busy(w, s) => Ran(w, s)

\* What FirstOutcome chooses.
FirstOf(events) ==
    IF \E i \in DOMAIN events : events[i] \in Outcomes
    THEN events[CHOOSE i \in DOMAIN events :
                  /\ events[i] \in Outcomes
                  /\ \A k \in DOMAIN events : events[k] \in Outcomes => i <= k]
    ELSE NoOutcome

LEMMA FirstChosen ==
  ASSUME NEW events \in Seq(Outcomes \cup {"part"})
  PROVE  /\ \A i : IsFirst(events, i) => FirstOf(events) = events[i]
         /\ (\A i \in DOMAIN events : events[i] \notin Outcomes) => FirstOf(events) = NoOutcome
  <1>1. DOMAIN events \subseteq Nat
    OBVIOUS
  <1>2. ASSUME NEW i, IsFirst(events, i)
        PROVE  FirstOf(events) = events[i]
    <2>1. \A k : IsFirst(events, k) => k = i
      BY <1>1, <1>2 DEF IsFirst
    <2>2. (CHOOSE k \in DOMAIN events :
             /\ events[k] \in Outcomes
             /\ \A m \in DOMAIN events : events[m] \in Outcomes => k <= m) = i
      BY <1>2, <2>1 DEF IsFirst
    <2>3. QED
      BY <1>2, <2>2 DEF FirstOf, IsFirst
  <1>3. QED
    BY <1>2 DEF FirstOf

\* The same of a job's stream.
LEMMA FirstHeard ==
  ASSUME NEW j \in Jobs, log[j] \in Seq(Outcomes \cup {"part"})
  PROVE  /\ FirstOutcome(j) = FirstOf(log[j])
         /\ ~HasOutcome(j) => FirstOutcome(j) = NoOutcome
         /\ HasOutcome(j) /\ HasFirst(j) => FirstOutcome(j) \in Outcomes
  <1>1. FirstOutcome(j) = FirstOf(log[j])
    BY DEF FirstOutcome, FirstOf
  <1>2. QED
    BY <1>1, FirstChosen DEF HasOutcome, HasFirst, IsFirst

\* A stream that is not written keeps its first outcome.
LEMMA FirstStays ==
  ASSUME NEW j \in Jobs, log'[j] = log[j]
  PROVE  /\ FirstOutcome(j)' = FirstOutcome(j) /\ (HasFirst(j) => HasFirst(j)')
         /\ HasOutcome(j)' = HasOutcome(j)
  BY DEF FirstOutcome, HasFirst, HasOutcome, IsFirst

\* The first outcome published is the one the client hears, and stays so.
LEMMA FirstPublished ==
  ASSUME NEW j \in Jobs, NEW e \in Outcomes \cup {"part"}, log[j] \in Seq(Outcomes \cup {"part"}),
         log'[j] = Append(log[j], e), HasFirst(j)
  PROVE  /\ HasFirst(j)'
         /\ HasOutcome(j) \/ e = "part" => FirstOutcome(j)' = FirstOutcome(j)
         /\ ~HasOutcome(j) /\ e # "part" => FirstOutcome(j)' = e
  <1> DEFINE n == Len(log[j]) + 1
             new == Append(log[j], e)
  <1>1. new \in Seq(Outcomes \cup {"part"}) /\ n \in Nat /\ DOMAIN log[j] \subseteq Nat
    OBVIOUS
  <1>2. /\ DOMAIN new = DOMAIN log[j] \cup {n}
        /\ \A i \in DOMAIN log[j] : new[i] = log[j][i] /\ i < n
        /\ new[n] = e
        /\ HasOutcome(j)' <=> HasOutcome(j) \/ e \in Outcomes
    BY Published
  <1>3. "part" \notin Outcomes
    BY DEF Outcomes
  <1>4. FirstOutcome(j)' = FirstOf(new) /\ FirstOutcome(j) = FirstOf(log[j])
    BY FirstHeard DEF FirstOutcome, FirstOf
  <1> HIDE DEF n
  <1>5. CASE HasOutcome(j)
    <2>1. PICK i \in DOMAIN log[j] : IsFirst(log[j], i)
      BY <1>5 DEF HasFirst
    <2>2. IsFirst(new, i) /\ new[i] = log[j][i]
      BY ONLY <1>1, <1>2, <2>1 DEF IsFirst
    <2>3. HasFirst(j)'
      BY <2>2 DEF HasFirst, IsFirst
    <2>4. FirstOf(new) = new[i] /\ FirstOf(log[j]) = log[j][i]
      BY <1>1, <2>1, <2>2, FirstChosen
    <2>5. QED
      BY <1>4, <1>5, <2>2, <2>3, <2>4
  <1>6. CASE ~HasOutcome(j) /\ e = "part"
    <2>1. \A i \in DOMAIN new : new[i] \notin Outcomes
      BY <1>2, <1>3, <1>6 DEF HasOutcome
    <2>2. FirstOf(new) = NoOutcome /\ FirstOutcome(j) = NoOutcome
      BY <1>1, <1>6, <2>1, FirstChosen, FirstHeard
    <2>3. QED
      BY <1>2, <1>3, <1>4, <1>6, <2>2 DEF HasFirst
  <1>7. CASE ~HasOutcome(j) /\ e # "part"
    <2>1. IsFirst(new, n)
      BY <1>1, <1>2, <1>7 DEF IsFirst, HasOutcome
    <2>2. FirstOf(new) = e
      BY <1>1, <1>2, <2>1, FirstChosen
    <2>3. HasFirst(j)'
      BY <2>1 DEF HasFirst, IsFirst
    <2>4. QED
      BY <1>4, <1>7, <2>2, <2>3
  <1>8. QED
    BY <1>5, <1>6, <1>7

\* A step is JobLife's if it moves one job as JobLife does, and none if it moves no job.
LEMMA LifeSteps ==
  ASSUME NEW j \in Jobs,
         \A i \in Jobs \ {j} : StageOf(i)' = StageOf(i) /\ FirstOutcome(i)' = FirstOutcome(i),
         \/ StageOf(j)' = StageOf(j) /\ FirstOutcome(j)' = FirstOutcome(j)
         \/ StageOf(j) = "absent" /\ StageOf(j)' = "waiting" /\ FirstOutcome(j)' = FirstOutcome(j)
         \/ StageOf(j) = "waiting" /\ StageOf(j)' = "started" /\ FirstOutcome(j)' = FirstOutcome(j)
         \/ /\ StageOf(j) = "answered" \/ (StageOf(j) = "waiting" /\ j \in Malformed)
            /\ StageOf(j)' = "settled" /\ FirstOutcome(j)' = FirstOutcome(j)
         \/ /\ \/ StageOf(j) = "started"
               \/ /\ StageOf(j) = "waiting" /\ j \notin Malformed
                  /\ FirstOutcome(j)' \in {"interrupted", "abandoned"}
            /\ StageOf(j)' = "answered" /\ FirstOutcome(j)' \in Outcomes
  PROVE  [Life!Next]_(Life!vars)
  <1> DEFINE stage == [i \in Jobs |-> StageOf(i)]
             answer == [i \in Jobs |-> FirstOutcome(i)]
  <1>1. /\ stage' = [stage EXCEPT ![j] = StageOf(j)']
        /\ answer' = [answer EXCEPT ![j] = FirstOutcome(j)']
        /\ stage[j] = StageOf(j)
    OBVIOUS
  <1>2. FirstOutcome(j)' = FirstOutcome(j) => answer' = answer
    OBVIOUS
  <1>3. CASE StageOf(j)' = StageOf(j) /\ FirstOutcome(j)' = FirstOutcome(j)
    BY <1>3 DEF Life!vars
  <1>4. CASE StageOf(j) = "absent" /\ StageOf(j)' = "waiting" /\ FirstOutcome(j)' = FirstOutcome(j)
    BY <1>1, <1>2, <1>4 DEF Life!Next, Life!Submit
  <1>5. CASE StageOf(j) = "waiting" /\ StageOf(j)' = "started" /\ FirstOutcome(j)' = FirstOutcome(j)
    BY <1>1, <1>2, <1>5 DEF Life!Next, Life!Start
  <1>6. CASE /\ StageOf(j) = "answered" \/ (StageOf(j) = "waiting" /\ j \in Malformed)
             /\ StageOf(j)' = "settled" /\ FirstOutcome(j)' = FirstOutcome(j)
    BY <1>1, <1>2, <1>6 DEF Life!Next, Life!Finish, Life!Settle
  <1>7. CASE /\ \/ StageOf(j) = "started"
                \/ /\ StageOf(j) = "waiting" /\ j \notin Malformed
                   /\ FirstOutcome(j)' \in {"interrupted", "abandoned"}
             /\ StageOf(j)' = "answered" /\ FirstOutcome(j)' \in Outcomes
    <2> DEFINE out == FirstOutcome(j)'
    <2>1. out \in {"done", "error", "interrupted", "abandoned"}
      BY <1>7 DEF Outcomes
    <2>2. Life!Answer(j, out)
      BY <1>1, <1>7 DEF Life!Answer
    <2>3. QED
      BY <2>1, <2>2 DEF Life!Next, Life!Finish
  <1>8. QED
    BY <1>3, <1>4, <1>5, <1>6, <1>7

\* A step keeps LifeInv and the lives of the other jobs if it writes one job's place, stream and
\* runs, forgets no run, and moves tasks only to where Ran holds.
LEMMA LifeFrame ==
  ASSUME LifeInv, IInv', NEW j \in Jobs,
         \A i \in Jobs \ {j} : place'[i] = place[i] /\ log'[i] = log[i] /\ runs'[i] = runs[i],
         HasFirst(j)', j \in Malformed => runs'[j] = 0, runs'[j] >= runs[j],
         \A w \in Workers, s \in Slots :
            Busy(w, s)' => task'[w][s] = task[w][s] \/ Ran(w, s)'
  PROVE  /\ LifeInv'
         /\ \A i \in Jobs \ {j} : StageOf(i)' = StageOf(i) /\ FirstOutcome(i)' = FirstOutcome(i)
  <1>1. \A i \in Jobs \ {j} : FirstOutcome(i)' = FirstOutcome(i) /\ HasFirst(i)'
    BY FirstStays DEF LifeInv
  <1>2. \A i \in Jobs \ {j} : StageOf(i)' = StageOf(i)
    BY <1>1 DEF StageOf
  <1>3. ASSUME NEW w \in Workers, NEW s \in Slots, Busy(w, s)', task'[w][s] = task[w][s]
        PROVE  Ran(w, s)'
    <2>1. Busy(w, s) /\ Ran(w, s)
      BY <1>3 DEF Busy, LifeInv
    <2>2. PICK i \in Jobs : i = task[w][s].job
      BY <2>1, Hands DEF LifeInv, IInv
    <2>3. runs'[i] >= runs[i] /\ runs[i] \in Nat /\ runs'[i] \in Nat
      <3>1. runs[i] \in Nat /\ runs'[i] \in Nat
        BY DEF LifeInv, IInv, TypeOK
      <3>2. CASE i = j
        BY <3>1, <3>2
      <3>3. CASE i # j
        BY <3>1, <3>3
      <3>4. QED
        BY <3>2, <3>3
    <2>4. runs[i] > 0 => runs'[i] > 0
      BY <2>3
    <2>5. QED
      BY <1>3, <2>1, <2>2, <2>4 DEF Ran
  <1>4. \A i \in Jobs : HasFirst(i)' /\ (i \in Malformed => runs'[i] = 0)
    BY <1>1 DEF LifeInv
  <1>5. QED
    BY <1>1, <1>2, <1>3, <1>4 DEF LifeInv

\* A step that writes no place, stream or runs is none of JobLife's.
LEMMA LifeQuiet ==
  ASSUME LifeInv, IInv', UNCHANGED <<place, log, runs>>,
         \A w \in Workers, s \in Slots :
            Busy(w, s)' => task'[w][s] = task[w][s] \/ Ran(w, s)'
  PROVE  LifeInv' /\ [Life!Next]_(Life!vars)
  <1>1. \A j \in Jobs : FirstOutcome(j)' = FirstOutcome(j) /\ HasFirst(j)'
    BY FirstStays DEF LifeInv
  <1>2. \A j \in Jobs : StageOf(j)' = StageOf(j)
    BY <1>1 DEF StageOf
  <1>3. UNCHANGED Life!vars
    BY <1>1, <1>2 DEF Life!vars
  <1>4. \A w \in Workers, s \in Slots : Busy(w, s)' => Ran(w, s)'
    BY DEF LifeInv, Busy, Ran
  <1>5. \A j \in Jobs : HasFirst(j)' /\ (j \in Malformed => runs'[j] = 0)
    BY <1>1 DEF LifeInv
  <1>6. QED
    BY <1>3, <1>4, <1>5 DEF LifeInv

\* A task about to do something else than run or publish a run's outcome relies on no run.
LEMMA NothingRan ==
  ASSUME NEW w \in Workers, NEW s \in Slots,
         \/ task'[w][s].pc \notin {"run", "publish"}
         \/ task'[w][s].pc = "publish" /\ task'[w][s].out \notin {"done", "error"}
  PROVE  Ran(w, s)'
  BY DEF Ran

\* The loop, a process, and an entry that becomes idle: a job that is read was waiting and is.
LEMMA LoopLife ==
  ASSUME LifeInv, IInv', NEW w \in Workers, LoopStep(w)
  PROVE  LifeInv' /\ [Life!Next]_(Life!vars)
  <1>1. ASSUME NEW j \in Jobs, ReadNew(w, j)
        PROVE  LifeInv' /\ [Life!Next]_(Life!vars)
    <2>1. /\ place[j] = "fresh" /\ place' = [place EXCEPT ![j] = "pending"]
          /\ UNCHANGED <<log, runs, task>>
      BY <1>1 DEF ReadNew
    <2>2. /\ place'[j] = "pending"
          /\ \A i \in Jobs \ {j} : place'[i] = place[i]
      BY <2>1 DEF LifeInv, IInv, TypeOK
    <2>3. FirstOutcome(j)' = FirstOutcome(j) /\ HasFirst(j)'
      BY <2>1, FirstStays DEF LifeInv
    <2>4. StageOf(j)' = StageOf(j)
      BY <2>1, <2>2, <2>3 DEF StageOf
    <2>5. j \in Malformed => runs'[j] = 0
      BY <2>1 DEF LifeInv
    <2>6. runs'[j] >= runs[j]
      BY <2>1 DEF LifeInv, IInv, TypeOK
    <2>7. LifeInv' /\ \A i \in Jobs \ {j} : StageOf(i)' = StageOf(i) /\ FirstOutcome(i)' = FirstOutcome(i)
      BY <2>1, <2>2, <2>3, <2>5, <2>6, LifeFrame
    <2>8. QED
      BY <2>3, <2>4, <2>7, LifeSteps
  <1>2. CASE Dispatch(w)
    <2>1. PICK s \in Slots :
            task' = [task EXCEPT ![w][s] = FirstStep(loop[w].job, loop[w].count)]
      BY <1>2 DEF Dispatch
    <2>2. task'[w][s] = FirstStep(loop[w].job, loop[w].count)
      BY <2>1 DEF LifeInv, IInv, TypeOK
    <2>3. Ran(w, s)'
      BY <2>2, NothingRan DEF FirstStep
    <2>4. \A v \in Workers, r \in Slots : task'[v][r] = task[v][r] \/ (v = w /\ r = s)
      BY <2>1 DEF LifeInv, IInv, TypeOK
    <2>5. QED
      BY <1>2, <2>3, <2>4, LifeQuiet DEF Dispatch, broker
  <1>3. CASE ~Dispatch(w) /\ ~\E j \in Jobs : ReadNew(w, j)
    <2>1. UNCHANGED <<place, log, runs, task>>
      BY <1>3 DEF LoopStep, Claim, ReadCount, EndLoop, Exit, broker
    <2>2. QED
      BY <2>1, LifeQuiet
  <1>4. QED
    BY <1>1, <1>2, <1>3

LEMMA ProcessLife ==
  ASSUME LifeInv, IInv', NEW w \in Workers, Touch(w) \/ Crash(w) \/ Restart(w) \/ Stop(w)
  PROVE  LifeInv' /\ [Life!Next]_(Life!vars)
  <1>1. UNCHANGED <<place, log, runs>>
    BY DEF Touch, Crash, Restart, Stop, broker
  <1>2. \A v \in Workers, s \in Slots : Busy(v, s)' => task'[v][s] = task[v][s]
    <2>1. CASE Crash(w)
      BY <2>1 DEF Crash, LifeInv, IInv, TypeOK, Busy, Free
    <2>2. CASE Touch(w) \/ Restart(w) \/ Stop(w)
      BY <2>2 DEF Touch, Restart, Stop, workers
    <2>3. QED
      BY <2>1, <2>2
  <1>3. QED
    BY <1>1, <1>2, LifeQuiet

\* A job waits from its submission on.
LEMMA JobLives ==
  ASSUME LifeInv, IInv', NEW j \in Jobs, Submit(j) \/ BecomeStale(j)
  PROVE  LifeInv' /\ [Life!Next]_(Life!vars)
  <1>1. CASE Submit(j)
    <2>1. /\ place[j] = "absent" /\ place' = [place EXCEPT ![j] = "fresh"]
          /\ UNCHANGED <<log, runs, task>>
      BY <1>1 DEF Submit, workers
    <2>2. place'[j] = "fresh" /\ \A i \in Jobs \ {j} : place'[i] = place[i]
      BY <2>1 DEF LifeInv, IInv, TypeOK
    <2>3. FirstOutcome(j)' = FirstOutcome(j) /\ HasFirst(j)'
      BY <2>1, FirstStays DEF LifeInv
    <2>4. runs[j] = 0 /\ ~HasOutcome(j)
      <3>1. Record(j) /\ count[j] = 0 /\ status[j] = "none" /\ MaxDeliveries \in Nat
        BY <2>1, JobsAssumption DEF LifeInv, IInv, Record
      <3>2. QED
        BY <3>1 DEF Record
    <2>5. FirstOutcome(j) = NoOutcome
      BY <2>4, FirstHeard DEF LifeInv, IInv, TypeOK
    <2>6. StageOf(j) = "absent" /\ StageOf(j)' = "waiting"
      BY <2>1, <2>2, <2>3, <2>4, <2>5 DEF StageOf
    <2>7. LifeInv' /\ \A i \in Jobs \ {j} : StageOf(i)' = StageOf(i) /\ FirstOutcome(i)' = FirstOutcome(i)
      BY <2>1, <2>2, <2>3, <2>4, LifeFrame
    <2>8. QED
      BY <2>3, <2>6, <2>7, LifeSteps
  <1>2. CASE BecomeStale(j)
    BY <1>2, LifeQuiet DEF BecomeStale, workers
  <1>3. QED
    BY <1>1, <1>2

\* The steps of a task that tell the client nothing and start no run.
LEMMA QuietTaskLife ==
  ASSUME LifeInv, IInv', NEW w \in Workers, NEW s \in Slots,
         \/ ReadStatus(w, s) \/ EndRun(w, s) \/ LookBack(w, s)
         \/ MarkFinished(w, s) \/ Park(w, s) \/ Refused(w, s)
  PROVE  LifeInv' /\ [Life!Next]_(Life!vars)
  <1>1. UNCHANGED <<place, log, runs>>
    BY DEF ReadStatus, EndRun, LookBack, MarkFinished, Park, Refused, broker
  <1>2. TypeOK /\ task[w][s] \in Task /\ Busy(w, s)
    BY DEF LifeInv, IInv, TypeOK, ReadStatus, EndRun, LookBack, MarkFinished, Park, Refused, At,
           Busy, Commands
  <1>3. task[w][s] \in Steps
    BY <1>2, BusyTask DEF Busy
  <1>4. CASE Refused(w, s)
    BY <1>1, <1>2, <1>4, EndTaskOne, LifeQuiet DEF Refused
  <1>5. CASE EndRun(w, s)
    <2>1. PICK out \in {"done", "error"} :
            task' = [task EXCEPT ![w][s] = [@ EXCEPT !.pc = "publish", !.out = out]]
      BY <1>5 DEF EndRun
    <2>2. task'[w][s] = [task[w][s] EXCEPT !.pc = "publish", !.out = out]
      BY <1>2, <2>1 DEF TypeOK
    <2>3. Ran(w, s)'
      <3>1. task[w][s].pc = "run" /\ Ran(w, s)
        BY <1>2, <1>5 DEF EndRun, At, LifeInv
      <3>2. task'[w][s].job = task[w][s].job
        BY <1>3, <2>2 DEF Steps
      <3>3. QED
        BY <1>1, <3>1, <3>2 DEF Ran
    <2>4. \A v \in Workers, r \in Slots : task'[v][r] = task[v][r] \/ (v = w /\ r = s)
      BY <1>2, <2>1 DEF TypeOK
    <2>5. QED
      BY <1>1, <2>3, <2>4, LifeQuiet
  <1>6. CASE \/ ReadStatus(w, s) \/ LookBack(w, s) \/ MarkFinished(w, s) \/ Park(w, s)
    <2>1. PICK t : /\ Continue(w, s, t)
                   /\ \/ t.pc \notin {"run", "publish"}
                      \/ t.pc = "publish" /\ t.out \notin {"done", "error"}
      <3>1. CASE ReadStatus(w, s)
        BY <1>3, <3>1 DEF ReadStatus, Steps
      <3>2. CASE LookBack(w, s)
        <4>1. \E pc \in {"publish", "mark"} : \E out :
                /\ Continue(w, s, [task[w][s] EXCEPT !.pc = pc, !.out = out])
                /\ pc = "publish" => out = "interrupted"
          BY <3>2 DEF LookBack
        <4>2. PICK pc \in {"publish", "mark"} :
                \E out : /\ Continue(w, s, [task[w][s] EXCEPT !.pc = pc, !.out = out])
                         /\ pc = "publish" => out = "interrupted"
          BY <4>1
        <4>3. PICK out : /\ Continue(w, s, [task[w][s] EXCEPT !.pc = pc, !.out = out])
                         /\ pc = "publish" => out = "interrupted"
          BY <4>2
        <4>4. /\ [task[w][s] EXCEPT !.pc = pc, !.out = out].pc = pc
              /\ [task[w][s] EXCEPT !.pc = pc, !.out = out].out = out
          BY <1>3 DEF Steps
        <4>5. QED
          BY <4>3, <4>4
      <3>3. CASE MarkFinished(w, s)
        BY <1>3, <3>3 DEF MarkFinished, Steps
      <3>4. CASE Park(w, s)
        BY <1>3, <3>4 DEF Park, Steps
      <3>5. QED
        BY <1>6, <3>1, <3>2, <3>3, <3>4
    <2>2. task'[w][s] = t => Ran(w, s)'
      BY <2>1, NothingRan
    <2>3. \A v \in Workers, r \in Slots : Busy(v, r)' => task'[v][r] = task[v][r] \/ Ran(v, r)'
      BY <1>2, <2>1, <2>2, ContinueOne
    <2>4. QED
      BY <1>1, <2>3, LifeQuiet
  <1>7. QED
    BY <1>4, <1>5, <1>6

\* A run starts once, and not of a job that does not parse.
LEMMA MarkRunningLife ==
  ASSUME LifeInv, IInv', NEW w \in Workers, NEW s \in Slots, MarkRunning(w, s)
  PROVE  LifeInv' /\ [Life!Next]_(Life!vars)
  <1>1. TypeOK /\ task[w][s] \in Task /\ Busy(w, s) /\ task[w][s].pc = "markRun" /\ IInv
    BY DEF LifeInv, IInv, TypeOK, MarkRunning, At, Busy
  <1>2. PICK j \in Jobs : Handles(w, s, j)
    BY <1>1, TaskFacts
  <1>3. /\ j = task[w][s].job /\ status[j] = "queued" /\ j \notin Malformed /\ runs[j] = 0
        /\ ~HasOutcome(j) /\ place[j] = "pending"
    <2>1. /\ j = task[w][s].job /\ Knows(w, s) /\ Record(j) /\ task[w][s] \in Steps
          /\ place[j] = "pending"
      BY <1>2 DEF Handles
    <2>2. status[j] = "queued" /\ j \notin Malformed /\ count[j] <= MaxDeliveries
      BY <1>1, <2>1 DEF Knows
    <2>3. ~(count[j] > MaxDeliveries)
      BY <2>2, JobsAssumption DEF LifeInv, IInv, TypeOK
    <2>4. QED
      BY <2>1, <2>2, <2>3 DEF Record
  <1>4. UNCHANGED <<place, log>>
    BY DEF MarkRunning
  <1>5. FirstOutcome(j)' = FirstOutcome(j) /\ FirstOutcome(j) = NoOutcome /\ HasFirst(j)'
    BY <1>1, <1>3, <1>4, FirstStays, FirstHeard DEF LifeInv, TypeOK
  <1>6. CASE EndTask(w, s) /\ UNCHANGED runs
    BY <1>1, <1>4, <1>6, EndTaskOne, LifeQuiet
  <1>7. CASE task' = [task EXCEPT ![w][s].pc = "run"] /\ runs' = [runs EXCEPT ![j] = @ + 1]
    <2>1. runs'[j] = 1 /\ \A i \in Jobs \ {j} : runs'[i] = runs[i]
      BY <1>1, <1>3, <1>7 DEF TypeOK
    <2>2. task'[w][s] = [task[w][s] EXCEPT !.pc = "run"]
      BY <1>1, <1>7 DEF TypeOK
    <2>3. task'[w][s].job = j
      BY <1>2, <2>2 DEF Handles, Steps
    <2>4. Ran(w, s)'
      BY <2>1, <2>3 DEF Ran
    <2>5. \A v \in Workers, r \in Slots : task'[v][r] = task[v][r] \/ (v = w /\ r = s)
      BY <1>1, <1>7 DEF TypeOK
    <2>6. StageOf(j) = "waiting" /\ StageOf(j)' = "started"
      BY <1>3, <1>4, <1>5, <2>1 DEF StageOf
    <2>7. LifeInv' /\ \A i \in Jobs \ {j} : StageOf(i)' = StageOf(i) /\ FirstOutcome(i)' = FirstOutcome(i)
      BY <1>3, <1>4, <1>5, <2>1, <2>4, <2>5, LifeFrame
    <2>8. QED
      BY <1>5, <2>6, <2>7, LifeSteps
  <1>8. QED
    BY <1>3, <1>6, <1>7 DEF MarkRunning

\* Progress is no answer.
LEMMA PartLife ==
  ASSUME LifeInv, IInv', NEW w \in Workers, NEW s \in Slots, Part(w, s)
  PROVE  LifeInv' /\ [Life!Next]_(Life!vars)
  <1>1. TypeOK /\ Busy(w, s) /\ IInv
    BY DEF LifeInv, IInv, Part, At, Busy
  <1>2. PICK j \in Jobs : j = task[w][s].job
    BY <1>1, Hands
  <1>3. /\ log'[j] = Append(log[j], "part") /\ \A i \in Jobs \ {j} : log'[i] = log[i]
        /\ log[j] \in Seq(Outcomes \cup {"part"}) /\ runs[j] \in Nat
        /\ UNCHANGED <<place, runs, task>>
    BY <1>1, <1>2 DEF Part, TypeOK, workers
  <1>4. FirstOutcome(j)' = FirstOutcome(j) /\ HasFirst(j)'
    BY <1>3, FirstPublished DEF LifeInv
  <1>5. StageOf(j)' = StageOf(j)
    BY <1>3, <1>4 DEF StageOf
  <1>6. j \in Malformed => runs'[j] = 0
    BY <1>3 DEF LifeInv
  <1>7. LifeInv' /\ \A i \in Jobs \ {j} : StageOf(i)' = StageOf(i) /\ FirstOutcome(i)' = FirstOutcome(i)
    BY <1>3, <1>4, <1>6, LifeFrame
  <1>8. QED
    BY <1>4, <1>5, <1>7, LifeSteps

\* The first outcome published answers the job; a later one changes nothing for the client.
LEMMA PublishLife ==
  ASSUME LifeInv, IInv', NEW w \in Workers, NEW s \in Slots, Publish(w, s)
  PROVE  LifeInv' /\ [Life!Next]_(Life!vars)
  <1>1. TypeOK /\ Busy(w, s) /\ task[w][s].pc = "publish" /\ IInv
    BY DEF LifeInv, IInv, Publish, At, Busy
  <1>2. PICK j \in Jobs : Handles(w, s, j)
    BY <1>1, TaskFacts
  <1>3. PICK out : out = task[w][s].out
    OBVIOUS
  <1>4. /\ j = task[w][s].job /\ out \in Outcomes /\ j \notin Malformed
        /\ place[j] = "pending" /\ log[j] \in Seq(Outcomes \cup {"part"}) /\ runs[j] \in Nat
    <2>1. /\ j = task[w][s].job /\ Knows(w, s) /\ task[w][s] \in Task /\ task[w][s] \in Steps
          /\ place[j] = "pending" /\ log[j] \in Seq(Outcomes \cup {"part"}) /\ runs[j] \in Nat
      BY <1>2 DEF Handles
    <2>2. out \in Outcomes
      BY <1>1, <1>3, <2>1, BusyTask
    <2>3. j \notin Malformed
      BY <1>1, <2>1 DEF Knows, Steps
    <2>4. QED
      BY <2>1, <2>2, <2>3
  <1>5. /\ log'[j] = Append(log[j], out) /\ \A i \in Jobs \ {j} : log'[i] = log[i]
        /\ UNCHANGED <<place, runs>>
    BY <1>1, <1>3, <1>4 DEF Publish, TypeOK
  <1>6. /\ HasFirst(j)' /\ HasFirst(j)
        /\ HasOutcome(j) => FirstOutcome(j)' = FirstOutcome(j)
        /\ ~HasOutcome(j) => FirstOutcome(j)' = out
    <2>1. out # "part"
      BY <1>4 DEF Outcomes
    <2>2. HasFirst(j)
      BY DEF LifeInv
    <2>3. QED
      BY <1>4, <1>5, <2>1, <2>2, FirstPublished
  <1>7. LifeInv' /\ \A i \in Jobs \ {j} : StageOf(i)' = StageOf(i) /\ FirstOutcome(i)' = FirstOutcome(i)
    <2>1. PICK t : t = [task[w][s] EXCEPT !.pc = "mark"] /\ Continue(w, s, t)
      BY DEF Publish
    <2>2. t.pc = "mark"
      BY <1>2, <2>1 DEF Handles, Steps
    <2>3. task'[w][s] = t => Ran(w, s)'
      BY <2>2, NothingRan
    <2>4. \A v \in Workers, r \in Slots : Busy(v, r)' => task'[v][r] = task[v][r] \/ Ran(v, r)'
      BY <1>1, <2>1, <2>3, ContinueOne
    <2>5. j \in Malformed => runs'[j] = 0
      BY <1>4
    <2>6. runs'[j] >= runs[j]
      BY <1>4, <1>5
    <2>7. QED
      BY <1>5, <1>6, <2>4, <2>5, <2>6, LifeFrame
  <1>8. CASE HasOutcome(j)
    <2>1. StageOf(j)' = StageOf(j)
      BY <1>5, <1>6, <1>8 DEF StageOf
    <2>2. QED
      BY <1>6, <1>7, <1>8, <2>1, LifeSteps
  <1>9. CASE ~HasOutcome(j)
    <2>1. FirstOutcome(j) = NoOutcome /\ NoOutcome \notin Outcomes
      BY <1>4, <1>9, FirstHeard DEF NoOutcome, Outcomes
    <2>2. StageOf(j) = (IF runs[j] > 0 THEN "started" ELSE "waiting")
      BY <1>4, <2>1 DEF StageOf
    <2>3. StageOf(j)' = "answered"
      BY <1>4, <1>5, <1>6, <1>9, <2>1 DEF StageOf
    <2>4. runs[j] > 0 \/ out \in {"interrupted", "abandoned"}
      <3>1. Ran(w, s)
        BY <1>1 DEF LifeInv
      <3>2. QED
        BY <1>1, <1>3, <1>4, <3>1 DEF Ran, Outcomes
    <2>5. QED
      BY <1>4, <1>6, <1>7, <1>9, <2>2, <2>3, <2>4, LifeSteps
  <1>10. QED
    BY <1>8, <1>9

\* A job is settled once it was answered, or if nobody can be answered about it.
LEMMA AckLife ==
  ASSUME LifeInv, IInv', NEW w \in Workers, NEW s \in Slots, Ack(w, s)
  PROVE  LifeInv' /\ [Life!Next]_(Life!vars)
  <1>1. TypeOK /\ Busy(w, s) /\ task[w][s].pc = "ack" /\ IInv
    BY DEF LifeInv, IInv, Ack, At, Busy
  <1>2. PICK j \in Jobs : Handles(w, s, j)
    BY <1>1, TaskFacts
  <1>3. /\ j = task[w][s].job /\ Knows(w, s) /\ Record(j) /\ task[w][s] \in Steps
        /\ place[j] = "pending" /\ log[j] \in Seq(Outcomes \cup {"part"}) /\ runs[j] \in Nat
    BY <1>2 DEF Handles
  <1>4. /\ place'[j] = "acked" /\ \A i \in Jobs \ {j} : place'[i] = place[i]
        /\ UNCHANGED <<log, runs>> /\ EndTask(w, s)
    BY <1>1, <1>3 DEF Ack, TypeOK
  <1>5. FirstOutcome(j)' = FirstOutcome(j) /\ HasFirst(j)' /\ HasFirst(j)
    BY <1>4, FirstStays DEF LifeInv
  <1>6. HasOutcome(j) \/ (j \in Malformed /\ runs[j] = 0)
    <2>1. CASE task[w][s].after = "ack"
      <3>1. status[j] \in Finished
        BY <1>1, <1>3, <2>1 DEF Knows
      <3>2. \E out \in Outcomes : Said(j, out)
        BY <1>3, <3>1 DEF Record, Finished, Outcomes
      <3>3. QED
        BY <3>2 DEF Said, HasOutcome
    <2>2. CASE task[w][s].after = "park" /\ j \notin Malformed
      <3>1. Said(j, "abandoned")
        BY <1>1, <1>3, <2>2 DEF Knows
      <3>2. QED
        BY <3>1 DEF Said, HasOutcome, Outcomes
    <2>3. CASE j \in Malformed
      BY <2>3 DEF LifeInv
    <2>4. QED
      BY <1>3, <2>1, <2>2, <2>3 DEF Steps
  <1>7. StageOf(j)' = "settled"
    BY <1>4 DEF StageOf
  <1>8. StageOf(j) = "answered" \/ (StageOf(j) = "waiting" /\ j \in Malformed)
    <2>1. NoOutcome \notin Outcomes
      BY DEF NoOutcome, Outcomes
    <2>2. CASE HasOutcome(j)
      BY <1>3, <1>5, <2>1, <2>2, FirstHeard DEF StageOf
    <2>3. CASE ~HasOutcome(j)
      BY <1>3, <1>6, <2>3, FirstHeard DEF StageOf
    <2>4. QED
      BY <2>2, <2>3
  <1>9. \A v \in Workers, r \in Slots : Busy(v, r)' => task'[v][r] = task[v][r]
    BY <1>1, <1>4, EndTaskOne
  <1>10. LifeInv' /\ \A i \in Jobs \ {j} : StageOf(i)' = StageOf(i) /\ FirstOutcome(i)' = FirstOutcome(i)
    <2>1. j \in Malformed => runs'[j] = 0
      BY <1>4 DEF LifeInv
    <2>2. runs'[j] >= runs[j]
      BY <1>3, <1>4
    <2>3. QED
      BY <1>4, <1>5, <1>9, <2>1, <2>2, LifeFrame
  <1>11. QED
    BY <1>5, <1>7, <1>8, <1>10, LifeSteps

LEMMA InitLife == Init => LifeInv /\ Life!Init
  <1> SUFFICES ASSUME Init
               PROVE  LifeInv /\ Life!Init
    OBVIOUS
  <1>1. IInv
    BY InitInv
  <1>2. \A j \in Jobs : ~HasOutcome(j) /\ FirstOutcome(j) = NoOutcome /\ StageOf(j) = "absent"
    <2>1. \A j \in Jobs : place[j] = "absent" /\ log[j] = <<>> /\ log[j] \in Seq(Outcomes \cup {"part"})
      BY InitType DEF Init, TypeOK
    <2>2. \A j \in Jobs : DOMAIN log[j] = {}
      <3>1. DOMAIN <<>> = {}
        OBVIOUS
      <3>2. QED
        BY <2>1, <3>1
    <2>3. \A j \in Jobs : ~HasOutcome(j)
      BY <2>2 DEF HasOutcome
    <2>4. QED
      BY <2>1, <2>3, FirstHeard DEF StageOf
  <1>3. \A w \in Workers, s \in Slots : ~Busy(w, s)
    BY DEF Init, Busy, Free
  <1>4. LifeInv
    BY <1>1, <1>2, <1>3 DEF LifeInv, HasFirst, Init
  <1>5. Life!Init
    BY <1>2 DEF Life!Init, NoOutcome
  <1>6. QED
    BY <1>4, <1>5

LEMMA NextLife == Calm /\ LifeInv /\ [Next]_vars => LifeInv' /\ [Life!Next]_(Life!vars)
  <1> SUFFICES ASSUME Calm, LifeInv, [Next]_vars
               PROVE  LifeInv' /\ [Life!Next]_(Life!vars)
    OBVIOUS
  <1>1. IInv'
    BY NextInv DEF LifeInv
  <1>2. CASE UNCHANGED vars
    <2>1. \A w \in Workers, s \in Slots : task'[w][s] = task[w][s]
      BY <1>2 DEF vars
    <2>2. UNCHANGED <<place, log, runs>>
      BY <1>2 DEF vars
    <2>3. QED
      BY <1>1, <2>1, <2>2, LifeQuiet
  <1>3. CASE \E j \in Jobs : Submit(j) \/ BecomeStale(j) \/ Lapse(j) \/ Expire(j)
    BY <1>1, <1>3, JobLives, CalmFaults DEF Lapse, Expire, LifeInv, IInv
  <1>4. CASE \E w \in Workers : LoopStep(w) \/ Touch(w) \/ Crash(w) \/ Restart(w) \/ Stop(w)
    BY <1>1, <1>4, LoopLife, ProcessLife
  <1>5. CASE \E w \in Workers, s \in Slots : TaskStep(w, s) \/ Part(w, s) \/ Refused(w, s)
    BY <1>1, <1>5, QuietTaskLife, MarkRunningLife, PublishLife, AckLife, PartLife DEF TaskStep
  <1>6. QED
    BY <1>2, <1>3, <1>4, <1>5 DEF Next

\* JobLife, for every number of jobs, workers and slots: while no worker lapses and no record
\* expires, a job is started at most once, gets one answer (the first outcome published, whatever
\* is published after it), and is never delivered again only once it was answered or cannot be.
THEOREM JobLifeImplemented == ASSUME Calm PROVE Spec => ImplementsJobLife
  <1>1. LifeInv /\ [Next]_vars => LifeInv' /\ [Life!Next]_(Life!vars)
    BY NextLife
  <1>2. QED
    BY <1>1, InitLife, PTL DEF Spec, ImplementsJobLife, Life!Spec

=============================================================================
