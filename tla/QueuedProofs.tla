---------------------------- MODULE QueuedProofs ----------------------------
(***************************************************************************)
(* Proofs about MCQueued, the ways a piece of work is begun once, for any  *)
(* numbers of conversations, tickers, jobs and requests, any crashes and   *)
(* any failed broker commands.                                             *)
(*                                                                         *)
(* Of DeskRuns: type correctness; that a research run going on is in the   *)
(* field of its ticker, unless it was reported or a start took the field;  *)
(* that no field is emptied before its run was reported; and what one      *)
(* conversation alone keeps (Solo), so that the desk of an investor with   *)
(* one conversation puts nobody on a company twice, unless two starts of   *)
(* it overlapped, one failed or outlived its turn.  Of SubmitOnce:         *)
(* identical requests share a job and a failed one is run again.  Of       *)
(* LocalRuns: the runs of a process are kept, waited for and reported once.*)
(***************************************************************************)
EXTENDS MCQueued, FiniteSetTheorems, Sequences, TLAPS

-----------------------------------------------------------------------------
(* DeskRuns: what a command of a call does *)

\* The commands a call issues before its job is in the field.
Unplaced == {"claim", "look", "check", "take"}

\* The call that goes on from c, if any does.
Goes(c, d) ==
    /\ d \in Call /\ d.ticker = c.ticker /\ d.job = c.job
    /\ calls' \subseteq (calls \ {c}) \cup {d}
    /\ d \in calls' =>
         /\ UNCHANGED turn
         /\ d.next = "undo" => c.next = "enqueue" /\ c.ticker \in loose' /\ UNCHANGED tracked
         /\ d.next = "enqueue" => tracked'[c.ticker] = c.job
         /\ d.next # "undo" => c.next # "undo" /\ UNCHANGED status
         /\ d.next \in Unplaced => c.next \in Unplaced /\ UNCHANGED tracked

\* What call c writes in the field of its company.
Writes(c) ==
    \/ c.next = "claim" /\ tracked[c.ticker] = NoJob /\ tracked'[c.ticker] = c.job
    \/ c.next = "take" /\ tracked'[c.ticker] = c.job
    \/ c.next = "undo" /\ tracked'[c.ticker] = NoJob

\* A call writes the field of its company and queues its job, and what it takes the field from is
\* ousted; the turn that waits for it goes on, or fails and leaves its other calls.
Effect(c) ==
    /\ UNCHANGED <<about, told, kept, crashes>>
    /\ ousted \subseteq ousted' /\ loose \subseteq loose'
    /\ \A k \in Tickers :
         \/ tracked'[k] = tracked[k]
         \/ k = c.ticker /\ Writes(c) /\ tracked[k] \in ousted' \cup {NoJob}
    /\ \A j \in Jobs :
         \/ status'[j] = status[j]
         \/ j = c.job /\ c.next = "enqueue" /\ status'[j] = "queued" /\ tracked' = tracked
    /\ \A t \in Threads :
         \/ turn'[t] = turn[t]
         \/ turn'[t] = Quiet /\ c \in CallsOf(t) /\ TickersOf(CallsOf(t) \ {c}) \subseteq loose'
    /\ \E d : Goes(c, d)

\* What a call in progress is.
LEMMA CallShape ==
    ASSUME TypeOK, NEW c \in calls
    PROVE  /\ c \in Call /\ c.ticker \in Tickers /\ c.job \in Jobs /\ c.job # NoJob
           /\ c.found \in Jobs \cup {NoJob} /\ c.next \in Commands
           /\ \A n \in Commands : LET d == [c EXCEPT !.next = n]
                                  IN  /\ d \in Call /\ d.next = n /\ d.ticker = c.ticker
                                      /\ d.job = c.job /\ d.found = c.found
BY DeskAssumption DEF TypeOK, Call

LEMMA CommandsAre == {"claim", "look", "check", "take", "enqueue", "undo"} \subseteq Commands
BY DEF Commands

\* The call that goes on from a look.
LEMMA LookShape ==
    ASSUME TypeOK, NEW c \in calls, Look(c)
    PROVE  \E d \in Call :
             /\ calls' = (calls \ {c}) \cup {d}
             /\ d.ticker = c.ticker /\ d.job = c.job /\ d.found = tracked[c.ticker]
             /\ d.next \in {"take", "check"}
             /\ d.next = "take" => d.found = NoJob
<1> DEFINE d == [c EXCEPT !.next = IF tracked[c.ticker] = NoJob THEN "take" ELSE "check",
                          !.found = tracked[c.ticker]]
<1>0. c \in Call /\ tracked[c.ticker] \in Jobs \cup {NoJob}
    BY CallShape DEF TypeOK
<1>1. d \in Call
    BY <1>0 DEF Call, Commands
<1>2. /\ d.ticker = c.ticker /\ d.job = c.job /\ d.found = tracked[c.ticker]
      /\ d.next \in {"take", "check"}
      /\ d.next = "take" => d.found = NoJob
    BY <1>0 DEF Call
<1>3. calls' = (calls \ {c}) \cup {d}
    BY DEF Look, GoOn
<1> QED
    BY <1>1, <1>2, <1>3

\* A call that returns or raises has no successor.
LEMMA CallEnds ==
    ASSUME TypeOK, NEW c \in calls, calls' = calls \ {c}
    PROVE  Goes(c, c)
BY CallShape DEF Goes

\* What raising leaves of the turns.
LEMMA RaiseTurns ==
    ASSUME TypeOK, NEW c \in calls, Raise(c)
    PROVE  /\ calls' = calls \ {c} /\ loose \subseteq loose'
           /\ \A t \in Threads :
                \/ turn'[t] = turn[t]
                \/ turn'[t] = Quiet /\ c \in CallsOf(t) /\ TickersOf(CallsOf(t) \ {c}) \subseteq loose'
           /\ turn' \in [Threads -> Turn] /\ loose' \subseteq Tickers
<1>1. Quiet \in Turn
    BY DEF Quiet, Turn
<1>2. TickersOf(Deserted(c)) \subseteq Tickers
    BY CallShape DEF TickersOf, Deserted, CallsOf
<1>3. ASSUME NEW t \in Threads, c \in CallsOf(t)
      PROVE  TickersOf(CallsOf(t) \ {c}) \subseteq loose'
    <2>1. CallsOf(t) \ {c} \subseteq Deserted(c)
        BY <1>3 DEF Deserted
    <2> QED
        BY <2>1 DEF Raise, TickersOf
<1> QED
    BY <1>1, <1>2, <1>3 DEF Raise, TypeOK

\* Every command of a call has no other effect.
LEMMA CallEffect ==
    ASSUME TypeOK, NEW c \in calls, CallStep(c)
    PROVE  Effect(c)
<1> DEFINE Placing == \A k \in Tickers :
             \/ tracked'[k] = tracked[k]
             \/ k = c.ticker /\ Writes(c) /\ tracked[k] \in ousted' \cup {NoJob}
           Queueing == \A j \in Jobs :
             \/ status'[j] = status[j]
             \/ j = c.job /\ c.next = "enqueue" /\ status'[j] = "queued" /\ tracked' = tracked
           Turning == \A t \in Threads :
             \/ turn'[t] = turn[t]
             \/ turn'[t] = Quiet /\ c \in CallsOf(t) /\ TickersOf(CallsOf(t) \ {c}) \subseteq loose'
           Growing == ousted \subseteq ousted' /\ loose \subseteq loose'
<1>1. UNCHANGED <<about, told, kept, crashes>>
    BY DEF CallStep
<1>2. ASSUME NEW n \in Commands, GoOn(c, [c EXCEPT !.next = n]), n # "undo", c.next \in Unplaced,
             UNCHANGED status, n = "enqueue" => tracked'[c.ticker] = c.job,
             n # "enqueue" => UNCHANGED tracked
      PROVE  (\E d : Goes(c, d)) /\ Turning /\ loose \subseteq loose'
    <2> DEFINE d == [c EXCEPT !.next = n]
    <2>1. d \in Call /\ d.next = n /\ d.ticker = c.ticker /\ d.job = c.job
        BY CallShape
    <2>2. calls' = (calls \ {c}) \cup {d} /\ UNCHANGED <<turn, loose>>
        BY <1>2 DEF GoOn
    <2> HIDE DEF d
    <2>3. Goes(c, d)
        BY <1>2, <2>1, <2>2 DEF Goes, Unplaced
    <2> QED
        BY <2>2, <2>3
<1>3. ASSUME Return(c)
      PROVE  (\E d : Goes(c, d)) /\ Turning /\ loose \subseteq loose'
    BY <1>3, CallEnds DEF Return
<1>4. ASSUME Raise(c)
      PROVE  (\E d : Goes(c, d)) /\ Turning /\ loose \subseteq loose'
    BY <1>4, CallEnds, RaiseTurns
<1>5. ASSUME TakeField(c), c.next = "take"
      PROVE  Placing /\ ousted \subseteq ousted' /\ tracked'[c.ticker] = c.job
    BY <1>5, CallShape DEF TakeField, TypeOK, Writes
<1>6. ASSUME GiveUpField(c), c.next = "undo"
      PROVE  Placing /\ ousted \subseteq ousted'
    BY <1>6, CallShape DEF GiveUpField, TypeOK, Writes
<1>7. ASSUME Queued(c), c.next = "enqueue", tracked' = tracked
      PROVE  Queueing
    BY <1>7, CallShape DEF Queued, TypeOK
<1>8. ASSUME tracked[c.ticker] = NoJob, tracked' = [tracked EXCEPT ![c.ticker] = c.job],
             UNCHANGED ousted, c.next = "claim"
      PROVE  Placing /\ tracked'[c.ticker] = c.job
    BY <1>8, CallShape DEF TypeOK, Writes
<1>9. UNCHANGED tracked => Placing
    OBVIOUS
<1>10. UNCHANGED status => Queueing
    OBVIOUS
<1> SUFFICES Placing /\ Queueing /\ Turning /\ Growing /\ \E d : Goes(c, d)
    BY <1>1 DEF Effect
<1> HIDE DEF Placing, Queueing, Turning
<1>11. CASE Claim(c)
    <2>1. CASE tracked[c.ticker] = NoJob
        <3>1. /\ tracked' = [tracked EXCEPT ![c.ticker] = c.job] /\ c.next = "claim"
              /\ GoOn(c, [c EXCEPT !.next = "enqueue"]) /\ UNCHANGED <<status, ousted>>
            BY <1>11, <2>1 DEF Claim
        <3> QED
            BY <2>1, <3>1, <1>2, <1>8, <1>10, CommandsAre DEF Unplaced
    <2>2. CASE tracked[c.ticker] # NoJob
        <3>1. /\ GoOn(c, [c EXCEPT !.next = "look"]) /\ UNCHANGED <<tracked, status, ousted>>
              /\ c.next = "claim"
            BY <1>11, <2>2 DEF Claim
        <3> QED
            BY <3>1, <1>2, <1>9, <1>10, CommandsAre DEF Unplaced
    <2> QED
        BY <2>1, <2>2
<1>12. CASE Look(c)
    <2>1. UNCHANGED <<tracked, status, ousted, turn, loose>> /\ c.next = "look"
        BY <1>12 DEF Look, GoOn
    <2>2. PICK d \in Call :
             /\ calls' = (calls \ {c}) \cup {d}
             /\ d.ticker = c.ticker /\ d.job = c.job
             /\ d.next \in {"take", "check"}
        BY <1>12, LookShape
    <2>3. Goes(c, d)
        BY <2>1, <2>2 DEF Goes, Unplaced
    <2> QED
        BY <2>1, <2>3, <1>9, <1>10 DEF Turning
<1>13. CASE Check(c)
    <2>1. UNCHANGED <<tracked, status, ousted>> /\ c.next = "check"
        BY <1>13 DEF Check
    <2>2. Return(c) \/ GoOn(c, [c EXCEPT !.next = "take"])
        BY <1>13 DEF Check
    <2> QED
        BY <2>1, <2>2, <1>2, <1>3, <1>9, <1>10, CommandsAre DEF Unplaced
<1>14. CASE Take(c)
    BY <1>14, <1>2, <1>5, <1>10, CommandsAre DEF Take, Unplaced
<1>15. CASE Enqueue(c)
    BY <1>15, <1>3, <1>7, <1>9 DEF Enqueue
<1>16. CASE EnqueueFails(c)
    <2> DEFINE d == [c EXCEPT !.next = "undo"]
    <2>1. d \in Call /\ d.next = "undo" /\ d.ticker = c.ticker /\ d.job = c.job
        BY CallShape, CommandsAre
    <2>2. /\ calls' = (calls \ {c}) \cup {d} /\ UNCHANGED <<tracked, turn, ousted>>
          /\ c.next = "enqueue" /\ loose \subseteq loose' /\ c.ticker \in loose' /\ (Queued(c) \/ UNCHANGED status)
        BY <1>16 DEF EnqueueFails
    <2> HIDE DEF d
    <2>3. Goes(c, d)
        BY <2>1, <2>2 DEF Goes, Unplaced
    <2> QED
        BY <2>2, <2>3, <1>7, <1>9, <1>10 DEF Turning
<1>17. CASE Undo(c)
    BY <1>17, <1>4, <1>6, <1>10 DEF Undo
<1>18. CASE CallFails(c)
    <2>1. Raise(c)
        BY <1>18 DEF CallFails
    <2>2. Placing /\ Queueing /\ ousted \subseteq ousted'
        BY <1>18, <1>5, <1>6, <1>7, <1>8, <1>9, <1>10 DEF CallFails
    <2> QED
        BY <2>1, <2>2, <1>4
<1> QED
    BY <1>11, <1>12, <1>13, <1>14, <1>15, <1>16, <1>17, <1>18 DEF CallStep

-----------------------------------------------------------------------------
(* Types *)

\* The initial states are typed.
LEMMA TypeInit == Init => TypeOK
BY DeskAssumption DEF Init, TypeOK, Statuses, Going, Turn, Quiet, Call

\* Forgetting keeps the type of the hash.
LEMMA ForgetType ==
    ASSUME TypeOK, NEW ended
    PROVE  Forget(ended) \in [Tickers -> Jobs \cup {NoJob}]
BY DEF Forget, TypeOK

\* The jobs a turn has read of the hash are jobs.
LEMMA PairsType ==
    ASSUME TypeOK, NEW t \in Threads
    PROVE  /\ \A p \in turn[t].unread \cup turn[t].over :
                p \in Pair /\ p = <<p[1], p[2]>> /\ p[1] \in Tickers /\ p[2] \in Jobs
           /\ JobsOf(turn[t].over) \subseteq Jobs
BY DEF TypeOK, Turn, Pair, JobsOf

\* A command of a call keeps the types.
LEMMA CallType ==
    ASSUME TypeOK, NEW c \in calls, CallStep(c)
    PROVE  TypeOK'
<1>1. /\ c \in Call /\ c.ticker \in Tickers /\ c.job \in Jobs
      /\ UNCHANGED <<about, told, kept, crashes>>
    BY CallShape DEF CallStep
<1>2. calls' \subseteq Call
    BY CallEffect DEF Effect, Goes, TypeOK
<1>3. tracked' \in [Tickers -> Jobs \cup {NoJob}]
    BY <1>1 DEF CallStep, Claim, Look, Check, Take, Enqueue, EnqueueFails, Undo, CallFails,
                TakeField, GiveUpField, TypeOK
<1>4. status' \in [Jobs -> Statuses]
    BY <1>1 DEF CallStep, Claim, Look, Check, Take, Enqueue, EnqueueFails, Undo, CallFails,
                Queued, TypeOK, Statuses, Going
<1>5. ousted' \subseteq Jobs
    BY <1>1 DEF CallStep, Claim, Look, Check, Take, Enqueue, EnqueueFails, Undo, CallFails,
                TakeField, GiveUpField, TypeOK
<1>6. errors' \in 0..MaxErrors
    BY DeskAssumption DEF CallStep, Claim, Look, Check, Take, Enqueue, EnqueueFails, Undo, CallFails,
                          TypeOK
<1>7. turn' \in [Threads -> Turn] /\ loose' \subseteq Tickers
    <2>1. CASE Raise(c)
        BY <2>1, RaiseTurns
    <2>2. CASE UNCHANGED turn /\ loose' \in {loose, loose \cup {c.ticker}}
        BY <1>1, <2>2 DEF TypeOK
    <2> QED
        BY <2>1, <2>2 DEF CallStep, Claim, Look, Check, Take, Enqueue, EnqueueFails, Undo, CallFails,
                          GoOn, Return
<1> QED
    BY <1>1, <1>2, <1>3, <1>4, <1>5, <1>6, <1>7 DEF TypeOK

\* Every step keeps the types.
LEMMA TypeStep == TypeOK /\ [Next]_vars => TypeOK'
<1> SUFFICES ASSUME TypeOK, [Next]_vars
             PROVE  TypeOK'
    OBVIOUS
<1> USE DeskAssumption
<1>1. ASSUME NEW t \in Threads, Ask(t)
      PROVE  TypeOK'
    <2>1. {<<k, tracked[k]>> : k \in {k \in Tickers : tracked[k] # NoJob}} \in SUBSET Pair
        BY DEF TypeOK, Pair
    <2>2. turn' \in [Threads -> Turn]
        BY <1>1, <2>1 DEF Ask, TypeOK, Turn, Quiet
    <2> QED
        BY <1>1, <2>2 DEF Ask, TypeOK, history
<1>2. ASSUME NEW t \in Threads, NEW p \in turn[t].unread, ReadRun(t, p)
      PROVE  TypeOK'
    <2>1. p \in Pair
        BY PairsType
    <2> DEFINE seen == IF status[p[2]] \in Going THEN turn[t].over ELSE turn[t].over \cup {p}
    <2>2. turn[t] \in Turn /\ seen \in SUBSET Pair
        BY <2>1 DEF TypeOK, Turn
    <2>3. turn' = [turn EXCEPT ![t] = [turn[t] EXCEPT !.unread = @ \ {p}, !.over = seen]]
        BY <1>2 DEF ReadRun, TypeOK, Turn
    <2> HIDE DEF seen
    <2>4. [turn[t] EXCEPT !.unread = @ \ {p}, !.over = seen] \in Turn
        BY <2>2 DEF Turn
    <2>5. turn' \in [Threads -> Turn]
        BY <2>3, <2>4 DEF TypeOK
    <2> QED
        BY <1>2, <2>5 DEF ReadRun, TypeOK, history
<1>3. ASSUME NEW t \in Threads, Talk(t)
      PROVE  TypeOK'
    <2>1. [Quiet EXCEPT !.at = "talking"] \in Turn
        BY DEF Quiet, Turn
    <2>2. [turn[t] EXCEPT !.at = "talking"] \in Turn
        BY DEF TypeOK, Turn
    <2>3. turn' \in [Threads -> Turn]
        BY <1>3, <2>1, <2>2 DEF Talk, TypeOK
    <2>4. errors' \in 0..MaxErrors
        BY <1>3 DEF Talk, TypeOK
    <2> QED
        BY <1>3, <2>3, <2>4 DEF Talk, TypeOK, history
<1>4. ASSUME NEW t \in Threads, Reply(t)
      PROVE  TypeOK'
    BY <1>4 DEF Reply, TypeOK, Turn
<1>5. ASSUME NEW t \in Threads, Notice(t)
      PROVE  TypeOK'
    <2>1. Quiet \in Turn
        BY DEF Quiet, Turn
    <2>2. tracked' \in [Tickers -> Jobs \cup {NoJob}] /\ kept' \subseteq Jobs
        BY <1>5, ForgetType, PairsType DEF Notice, TypeOK
    <2>3. turn' \in [Threads -> Turn] /\ errors' \in 0..MaxErrors
        BY <1>5, <2>1 DEF Notice, TypeOK
    <2> QED
        BY <1>5, <2>2, <2>3 DEF Notice, TypeOK
<1>6. ASSUME NEW t \in Threads, Die(t)
      PROVE  TypeOK'
    <2>1. Quiet \in Turn
        BY DEF Quiet, Turn
    <2>2. kept' \subseteq Jobs
        BY <1>6, PairsType DEF Die, TypeOK
    <2> QED
        BY <1>6, <2>1, <2>2 DEF Die, TypeOK
<1>7. ASSUME NEW t \in Threads, NEW k \in Tickers, NEW j \in Jobs, StartResearch(t, k, j)
      PROVE  TypeOK'
    <2>1. [next |-> "claim", ticker |-> k, job |-> j, found |-> NoJob] \in Call
        BY DEF Call, Commands
    <2>2. turn' \in [Threads -> Turn]
        BY <1>7 DEF StartResearch, TypeOK, Turn
    <2> QED
        BY <1>7, <2>1, <2>2 DEF StartResearch, TypeOK
<1>8. ASSUME NEW j \in Jobs, Begin(j) \/ End(j)
      PROVE  TypeOK'
    BY <1>8 DEF Begin, End, TypeOK, Statuses, Going, history
<1>9. CASE UNCHANGED vars
    BY <1>9 DEF vars, history, TypeOK
<1> QED
    BY <1>1, <1>2, <1>3, <1>4, <1>5, <1>6, <1>7, <1>8, <1>9, CallType DEF Next

\* Every variable keeps its type.
THEOREM RunsTypeCorrect == Spec => []TypeOK
BY TypeInit, TypeStep, PTL DEF Spec

-----------------------------------------------------------------------------
(* What is going on is tracked *)

\* The initial states satisfy the inductive invariant.
LEMMA RunsInit == Init => RunsInv
BY TypeInit DEF Init, RunsInv, GoingIsTracked, Drawn, Going, Quiet

\* A turn that ends or is cut off, and a step that leaves the fields and the jobs alone.
LEMMA TurnTracks ==
    ASSUME RunsInv, UNCHANGED <<tracked, status, about, told, ousted>>, calls' \subseteq calls,
           \A t \in Threads : turn'[t].at = "noticing" => turn'[t] = turn[t]
    PROVE  GoingIsTracked' /\ Drawn'
<1>1. \A t \in Threads : turn'[t].at = "noticing" => \A p \in turn'[t].over : told'[p[2]] > 0
    BY DEF RunsInv, Drawn
<1>2. GoingIsTracked'
    BY DEF RunsInv, GoingIsTracked
<1>3. /\ \A c, d \in calls' : c.job = d.job => c = d
      /\ \A j \in Jobs : about'[j] = {} => status'[j] = "none"
      /\ \A c \in calls' :
           /\ about'[c.job] = {c.ticker}
           /\ c.next # "undo" => status'[c.job] = "none"
           /\ c.next \in {"enqueue", "undo"} =>
                tracked'[c.ticker] = c.job \/ told'[c.job] > 0 \/ c.job \in ousted'
    BY DEF RunsInv, Drawn
<1> QED
    BY <1>1, <1>2, <1>3 DEF Drawn

\* What is forgotten was reported.
LEMMA NoticeTracks ==
    ASSUME RunsInv, NEW t \in Threads, Notice(t)
    PROVE  GoingIsTracked' /\ Drawn'
<1>1. /\ tracked' \in {tracked, Forget(turn[t].over)} /\ UNCHANGED <<status, about, calls, told, ousted>>
      /\ turn[t].at = "noticing" /\ turn' = [turn EXCEPT ![t] = Quiet]
    BY DEF Notice
<1>2. \A p \in turn[t].over : told[p[2]] > 0 /\ p[2] \in Jobs
    BY <1>1, PairsType DEF RunsInv, Drawn
<1>3. ASSUME NEW k \in Tickers
      PROVE  tracked'[k] = tracked[k] \/ told[tracked[k]] > 0
    <2>1. CASE <<k, tracked[k]>> \in turn[t].over
        BY <1>2, <2>1
    <2>2. CASE <<k, tracked[k]>> \notin turn[t].over
        BY <1>1, <2>2 DEF Forget
    <2> QED
        BY <2>1, <2>2
<1>4. \A j \in Jobs : told[j] > 0 => told[j] # 0
    OBVIOUS
<1>5. GoingIsTracked'
    <2> SUFFICES ASSUME NEW j \in Jobs, status[j] \in Going, told[j] = 0, j \notin ousted
                 PROVE  \E k \in about[j] : tracked'[k] = j
        BY <1>1 DEF GoingIsTracked
    <2>1. PICK k \in about[j] : tracked[k] = j
        BY DEF RunsInv, GoingIsTracked
    <2>2. k \in Tickers
        BY <2>1 DEF RunsInv, TypeOK
    <2> QED
        BY <1>3, <1>4, <2>1, <2>2
<1>6. \A s \in Threads : turn'[s].at = "noticing" => \A p \in turn'[s].over : told'[p[2]] > 0
    <2>1. ASSUME NEW s \in Threads, turn'[s].at = "noticing"
          PROVE  turn'[s] = turn[s]
        BY <1>1, <2>1 DEF RunsInv, TypeOK, Quiet
    <2> QED
        BY <1>1, <2>1 DEF RunsInv, Drawn
<1>7. \A c \in calls : c.next \in {"enqueue", "undo"} =>
        tracked'[c.ticker] = c.job \/ told[c.job] > 0 \/ c.job \in ousted
    <2> SUFFICES ASSUME NEW c \in calls, c.next \in {"enqueue", "undo"}
                 PROVE  tracked'[c.ticker] = c.job \/ told[c.job] > 0 \/ c.job \in ousted
        OBVIOUS
    <2>1. c.ticker \in Tickers
        BY CallShape DEF RunsInv
    <2>2. tracked[c.ticker] = c.job \/ told[c.job] > 0 \/ c.job \in ousted
        BY DEF RunsInv, Drawn
    <2> QED
        BY <1>3, <2>1, <2>2
<1> QED
    BY <1>1, <1>5, <1>6, <1>7 DEF RunsInv, Drawn

\* A reply reports what it will have forgotten.
LEMMA ReplyTracks ==
    ASSUME RunsInv, NEW t \in Threads, Reply(t)
    PROVE  GoingIsTracked' /\ Drawn'
<1>1. /\ UNCHANGED <<tracked, status, about, calls, ousted>>
      /\ turn' = [turn EXCEPT ![t].at = "noticing"]
      /\ \A j \in Jobs : told'[j] = IF j \in JobsOf(turn[t].over) THEN told[j] + 1 ELSE told[j]
    BY DEF Reply
<1>2. ASSUME NEW j \in Jobs
      PROVE  /\ told[j] > 0 => told'[j] > 0
             /\ told'[j] = 0 => told[j] = 0
             /\ j \in JobsOf(turn[t].over) => told'[j] > 0
    <2>1. told[j] \in Nat
        BY DEF RunsInv, TypeOK
    <2> QED
        BY <1>1, <2>1
<1>3. GoingIsTracked'
    BY <1>1, <1>2 DEF RunsInv, GoingIsTracked
<1>4. \A s \in Threads : turn'[s].at = "noticing" => \A p \in turn'[s].over : told'[p[2]] > 0
    <2>1. ASSUME NEW s \in Threads, s # t, turn'[s].at = "noticing", NEW p \in turn'[s].over
          PROVE  told'[p[2]] > 0
        <3>1. turn'[s] = turn[s]
            BY <1>1, <2>1 DEF RunsInv, TypeOK
        <3>2. told[p[2]] > 0 /\ p[2] \in Jobs
            BY <2>1, <3>1, PairsType DEF RunsInv, Drawn
        <3> QED
            BY <1>2, <3>2
    <2>2. ASSUME NEW p \in turn'[t].over
          PROVE  told'[p[2]] > 0
        <3>1. turn'[t].over = turn[t].over
            BY <1>1 DEF RunsInv, TypeOK, Turn
        <3>2. p[2] \in JobsOf(turn[t].over) /\ p[2] \in Jobs
            BY <3>1, PairsType DEF RunsInv, JobsOf
        <3> QED
            BY <1>2, <3>2
    <2> QED
        BY <2>1, <2>2
<1>5. \A c \in calls : c.next \in {"enqueue", "undo"} =>
        tracked[c.ticker] = c.job \/ told'[c.job] > 0 \/ c.job \in ousted
    <2>1. \A c \in calls : c.job \in Jobs
        BY CallShape DEF RunsInv
    <2> QED
        BY <1>2, <2>1 DEF RunsInv, Drawn
<1> QED
    BY <1>1, <1>3, <1>4, <1>5 DEF RunsInv, Drawn

\* A command of a call keeps what is going on tracked.
LEMMA CallTracks ==
    ASSUME RunsInv, NEW c \in calls, CallStep(c)
    PROVE  GoingIsTracked' /\ Drawn'
<1>1. Effect(c) /\ c.ticker \in Tickers /\ c.job \in Jobs /\ c.job # NoJob
    BY CallEffect, CallShape DEF RunsInv
<1>2. PICK d : Goes(c, d)
    BY <1>1 DEF Effect
<1>3. /\ about[c.job] = {c.ticker}
      /\ c.next # "undo" => status[c.job] = "none"
      /\ c.next \in {"enqueue", "undo"} =>
           tracked[c.ticker] = c.job \/ told[c.job] > 0 \/ c.job \in ousted
    BY DEF RunsInv, Drawn
<1>4. \A e \in calls \ {c} : e.job # c.job /\ e.job \in Jobs /\ e.job # NoJob /\ e.ticker \in Tickers
    BY CallShape DEF RunsInv, Drawn
<1>5. \A e \in calls' : e \in calls \ {c} \/ (e = d /\ e.ticker = c.ticker /\ e.job = c.job)
    BY <1>2 DEF Goes
<1>6. ASSUME NEW j \in Jobs, NEW k \in Tickers, tracked[k] = j
      PROVE  tracked'[k] = j \/ j \in ousted'
    <2>1. j # NoJob
        BY DeskAssumption
    <2> QED
        BY <1>1, <1>6, <2>1 DEF Effect
<1>7. GoingIsTracked'
    <2> SUFFICES ASSUME NEW j \in Jobs, status'[j] \in Going, told[j] = 0, j \notin ousted'
                 PROVE  \E k \in about[j] : tracked'[k] = j
        BY <1>1 DEF GoingIsTracked, Effect
    <2>0. j \notin ousted
        BY <1>1 DEF Effect
    <2>1. CASE status'[j] = status[j]
        <3>1. PICK k \in about[j] : tracked[k] = j
            BY <2>0, <2>1 DEF RunsInv, GoingIsTracked
        <3>2. k \in Tickers
            BY <3>1 DEF RunsInv, TypeOK
        <3> QED
            BY <1>6, <3>1, <3>2
    <2>2. CASE status'[j] # status[j]
        <3>1. j = c.job /\ c.next = "enqueue" /\ tracked' = tracked
            BY <1>1, <2>2 DEF Effect
        <3> QED
            BY <1>3, <2>0, <3>1
    <2> QED
        BY <2>1, <2>2
<1>8. \A e, f \in calls' : e.job = f.job => e = f
    BY <1>4, <1>5 DEF RunsInv, Drawn
<1>9. \A j \in Jobs : about'[j] = {} => status'[j] = "none"
    BY <1>1, <1>3 DEF Effect, RunsInv, Drawn
<1>10. ASSUME NEW e \in calls'
       PROVE  /\ about'[e.job] = {e.ticker}
              /\ e.next # "undo" => status'[e.job] = "none"
              /\ e.next \in {"enqueue", "undo"} =>
                   tracked'[e.ticker] = e.job \/ told'[e.job] > 0 \/ e.job \in ousted'
    <2>1. CASE e \in calls \ {c}
        <3>1. /\ about[e.job] = {e.ticker}
              /\ e.next # "undo" => status[e.job] = "none"
              /\ e.next \in {"enqueue", "undo"} =>
                   tracked[e.ticker] = e.job \/ told[e.job] > 0 \/ e.job \in ousted
            BY <2>1 DEF RunsInv, Drawn
        <3>2. status'[e.job] = status[e.job]
            BY <1>1, <1>4, <2>1 DEF Effect
        <3> QED
            BY <1>1, <1>4, <1>6, <2>1, <3>1, <3>2 DEF Effect
    <2>2. CASE e = d /\ e.ticker = c.ticker /\ e.job = c.job
        <3>1. /\ e.next = "undo" => c.next = "enqueue" /\ UNCHANGED tracked
              /\ e.next = "enqueue" => tracked'[c.ticker] = c.job
              /\ e.next # "undo" => c.next # "undo" /\ UNCHANGED status
            BY <1>2, <2>2 DEF Goes
        <3> QED
            BY <1>1, <1>3, <2>2, <3>1 DEF Effect
    <2> QED
        BY <1>5, <2>1, <2>2
<1>11. \A s \in Threads : turn'[s].at = "noticing" => \A p \in turn'[s].over : told'[p[2]] > 0
    <2>1. \A s \in Threads : turn'[s].at = "noticing" => turn'[s] = turn[s]
        <3>1. Quiet.at # "noticing"
            BY DEF Quiet
        <3>2. \A s \in Threads : turn'[s] = turn[s] \/ turn'[s] = Quiet
            BY <1>1 DEF Effect
        <3> QED
            BY <3>1, <3>2
    <2>2. told' = told
        BY <1>1 DEF Effect
    <2> QED
        BY <2>1, <2>2 DEF RunsInv, Drawn
<1> QED
    BY <1>7, <1>8, <1>9, <1>10, <1>11 DEF Drawn

\* Every step keeps the inductive invariant.
LEMMA RunsStep == RunsInv /\ [Next]_vars => RunsInv'
<1> SUFFICES ASSUME RunsInv, [Next]_vars
             PROVE  GoingIsTracked' /\ Drawn'
    BY TypeStep DEF RunsInv
<1>1. ASSUME NEW t \in Threads, Ask(t) \/ Talk(t) \/ (\E p \in turn[t].unread : ReadRun(t, p))
      PROVE  GoingIsTracked' /\ Drawn'
    <2>1. UNCHANGED <<tracked, status, about, told, ousted, calls>>
        BY <1>1 DEF Ask, Talk, ReadRun, history
    <2>2. ASSUME NEW s \in Threads, turn'[s].at = "noticing"
          PROVE  turn'[s] = turn[s]
        <3>1. turn'[t].at # "noticing"
            <4>1. turn \in [Threads -> Turn]
                BY DEF RunsInv, TypeOK
            <4>2. CASE Ask(t)
                BY <4>1, <4>2 DEF Ask, Quiet
            <4>3. CASE Talk(t)
                BY <4>1, <4>3 DEF Talk, Quiet, Turn
            <4>4. ASSUME NEW p \in turn[t].unread, ReadRun(t, p)
                  PROVE  turn'[t].at # "noticing"
                <5>1. turn[t].at = "asking" /\ turn'[t].at = turn[t].at
                    BY <4>1, <4>4 DEF ReadRun, Turn
                <5> QED
                    BY <5>1
            <4> QED
                BY <1>1, <4>2, <4>3, <4>4
        <3>2. s # t => turn'[s] = turn[s]
            BY <1>1 DEF Ask, Talk, ReadRun, RunsInv, TypeOK
        <3> QED
            BY <2>2, <3>1, <3>2
    <2> QED
        BY <2>1, <2>2, TurnTracks
<1>2. ASSUME NEW t \in Threads, Die(t)
      PROVE  GoingIsTracked' /\ Drawn'
    <2>1. /\ UNCHANGED <<tracked, status, about, told, ousted>> /\ calls' \subseteq calls
          /\ turn' = [turn EXCEPT ![t] = Quiet]
        BY <1>2 DEF Die
    <2>2. \A s \in Threads : turn'[s].at = "noticing" => turn'[s] = turn[s]
        BY <2>1 DEF RunsInv, TypeOK, Quiet
    <2> QED
        BY <2>1, <2>2, TurnTracks
<1>3. ASSUME NEW t \in Threads, NEW k \in Tickers, NEW j \in Jobs, StartResearch(t, k, j)
      PROVE  GoingIsTracked' /\ Drawn'
    <2> DEFINE e == [next |-> "claim", ticker |-> k, job |-> j, found |-> NoJob]
    <2>1. /\ about[j] = {} /\ status[j] = "none"
          /\ about' = [about EXCEPT ![j] = {k}]
          /\ calls' = calls \cup {e}
          /\ UNCHANGED <<tracked, status, told, ousted>>
        BY <1>3 DEF StartResearch, RunsInv, Drawn
    <2>2. e.next = "claim" /\ e.job = j /\ e.ticker = k
        OBVIOUS
    <2> HIDE DEF e
    <2>3. \A c \in calls : c.job # j /\ c.job \in Jobs
        BY <2>1, CallShape DEF RunsInv, Drawn
    <2>4. GoingIsTracked'
        BY <2>1 DEF RunsInv, TypeOK, GoingIsTracked, Going
    <2>5. \A c \in calls' : about'[c.job] = {c.ticker}
        BY <2>1, <2>2, <2>3 DEF RunsInv, TypeOK, Drawn
    <2>6. \A i \in Jobs : about'[i] = {} => status'[i] = "none"
        BY <2>1 DEF RunsInv, TypeOK, Drawn
    <2>7. \A c, d \in calls' : c.job = d.job => c = d
        BY <2>1, <2>2, <2>3 DEF RunsInv, Drawn
    <2>8. \A c \in calls' :
            /\ c.next # "undo" => status'[c.job] = "none"
            /\ c.next \in {"enqueue", "undo"} =>
                 tracked'[c.ticker] = c.job \/ told'[c.job] > 0 \/ c.job \in ousted'
        BY <2>1, <2>2 DEF RunsInv, Drawn
    <2>9. \A s \in Threads : turn'[s].at = "noticing" => \A p \in turn'[s].over : told'[p[2]] > 0
        <3>1. \A s \in Threads : turn'[s].at = turn[s].at /\ turn'[s].over = turn[s].over
            BY <1>3 DEF StartResearch, RunsInv, TypeOK, Turn
        <3> QED
            BY <2>1, <3>1 DEF RunsInv, Drawn
    <2> QED
        BY <2>4, <2>5, <2>6, <2>7, <2>8, <2>9 DEF Drawn
<1>4. ASSUME NEW j \in Jobs, Begin(j) \/ End(j)
      PROVE  GoingIsTracked' /\ Drawn'
    <2>1. /\ status[j] \in Going
          /\ \A i \in Jobs \ {j} : status'[i] = status[i]
          /\ UNCHANGED <<tracked, about, turn, calls, told, ousted>>
        BY <1>4 DEF Begin, End, Going, RunsInv, TypeOK, history
    <2>2. \A c \in calls : c.job \in Jobs /\ (c.next # "undo" => c.job # j)
        BY <2>1, CallShape DEF RunsInv, Drawn, Going
    <2>3. \A i \in Jobs : about[i] = {} => i # j
        BY <2>1 DEF RunsInv, Drawn, Going
    <2>4. \A i \in Jobs : status'[i] \in Going => status[i] \in Going
        BY <2>1
    <2>5. GoingIsTracked'
        BY <2>1, <2>4 DEF RunsInv, GoingIsTracked
    <2>6. \A c \in calls : c.next # "undo" => status'[c.job] = "none"
        BY <2>1, <2>2 DEF RunsInv, Drawn
    <2>7. \A i \in Jobs : about[i] = {} => status'[i] = "none"
        BY <2>1, <2>3 DEF RunsInv, Drawn
    <2> QED
        BY <2>1, <2>5, <2>6, <2>7 DEF RunsInv, Drawn
<1>5. CASE UNCHANGED vars
    BY <1>5, TurnTracks DEF vars, history
<1> QED
    BY <1>1, <1>2, <1>3, <1>4, <1>5, ReplyTracks, NoticeTracks, CallTracks DEF Next

\* Whatever turns and calls interleave, die and fail, a run going on is in the field of its company,
\* unless it was reported over or a start took the field from it.
THEOREM GoingIsTrackedHolds == Spec => []GoingIsTracked
<1>1. RunsInv => GoingIsTracked
    BY DEF RunsInv
<1> QED
    BY <1>1, RunsInit, RunsStep, PTL DEF Spec

-----------------------------------------------------------------------------
(* Nothing is forgotten untold *)

\* A field is emptied (_FORGET, HDEL) only once a reply has reported the job it held, or by the start
\* that could not queue its job, whatever commands fail.
THEOREM NothingForgottenUntoldHolds == Spec => NothingForgottenUntold
<1>1. ASSUME RunsInv, Next, NEW k \in Tickers, tracked[k] # NoJob, tracked'[k] = NoJob
      PROVE  \/ told'[tracked[k]] > 0
             \/ \E c \in calls : c.next = "undo" /\ c.ticker = k
    <2>1. ASSUME NEW t \in Threads, Notice(t)
          PROVE  told'[tracked[k]] > 0
        <3>1. <<k, tracked[k]>> \in turn[t].over
            BY <1>1, <2>1 DEF Notice, Forget
        <3>2. \A p \in turn[t].over : told[p[2]] > 0
            BY <1>1, <2>1 DEF RunsInv, Drawn, Notice
        <3>3. <<k, tracked[k]>>[2] = tracked[k]
            OBVIOUS
        <3>4. told[tracked[k]] > 0
            BY <3>1, <3>2, <3>3
        <3> QED
            BY <2>1, <3>4 DEF Notice
    <2>2. ASSUME NEW c \in calls, CallStep(c)
          PROVE  c.next = "undo" /\ c.ticker = k
        <3>1. c.job # NoJob /\ c.ticker \in Tickers
            BY <1>1, CallShape DEF RunsInv
        <3> QED
            BY <1>1, <2>2, <3>1
               DEF CallStep, Claim, Look, Check, Take, Enqueue, EnqueueFails, Undo, CallFails,
                   TakeField, GiveUpField, RunsInv, TypeOK
    <2> QED
        BY <1>1, <2>1, <2>2
           DEF Next, Ask, ReadRun, Talk, Reply, Die, StartResearch, Begin, End
<1>2. RunsInv /\ [Next]_vars =>
        [\A k \in Tickers : tracked[k] # NoJob /\ tracked'[k] = NoJob =>
             \/ told'[tracked[k]] > 0
             \/ \E c \in calls : c.next = "undo" /\ c.ticker = k]_vars
    BY <1>1
<1> QED
    BY <1>2, RunsInit, RunsStep, PTL DEF Spec, NothingForgottenUntold

-----------------------------------------------------------------------------
(* One conversation alone *)

\* A job that will not go on: nobody is to queue it, and its id is not drawn again.
Dead(j) ==
    /\ status[j] \notin Going
    /\ about[j] # {}
    /\ \A c \in calls : c.job # j

\* What turn t has read of the hash and not yet forgotten.
Read(t) == turn[t].unread \cup turn[t].over

Others(t) == \A s \in Threads \ {t} : turn[s] = Quiet

\* A field holds a job of its company, and once its job was reported it is about to be forgotten,
\* or could not be.
SoloField(t, k) ==
    /\ about[tracked[k]] = {k}
    /\ told[tracked[k]] > 0 =>
         \/ tracked[k] \in kept
         \/ turn[t].at = "noticing" /\ <<k, tracked[k]>> \in turn[t].over

\* A job read of the hash is reported once, or could not be forgotten after it was.
SoloPair(t, p) ==
    /\ about[p[2]] = {p[1]}
    /\ \/ p[2] \in kept
       \/ told[p[2]] = 0
       \/ turn[t].at = "noticing" /\ told[p[2]] <= 1

\* Until its job is in the field, only the call knows it.
SoloUnplaced(t, c) ==
    /\ \A k \in Tickers : tracked[k] # c.job
    /\ \A p \in Read(t) : p[2] # c.job
    /\ told[c.job] = 0

\* The only call on its company: the turn waits for it, and what it read in the field is still there.
SoloCall(t, c) ==
    /\ c.job \in turn[t].starts
    /\ c.next # "undo"
    /\ \A d \in calls : d.ticker = c.ticker => d = c
    /\ c.next = "enqueue" => tracked[c.ticker] = c.job
    /\ c.next \in {"check", "take"} => tracked[c.ticker] = c.found
    /\ c.next = "take" /\ c.found # NoJob => Dead(c.found)

SoloFields(t) == \A k \in Tickers : tracked[k] # NoJob => SoloField(t, k)
SoloPairs(t) ==
    /\ \A p \in Read(t) : SoloPair(t, p)
    /\ \A p \in turn[t].over : p[1] \in loose \/ Dead(p[2])
SoloCalls(t) ==
    /\ turn[t].at # "talking" => CallsOf(t) = {}
    /\ \A c \in calls : c.next \in Unplaced => SoloUnplaced(t, c)
    /\ \A c \in calls : c.ticker \in loose \/ SoloCall(t, c)
SoloTold ==
    \A j \in Jobs :
      /\ told[j] > 0 => about[j] # {} /\ (about[j] \subseteq loose \/ Dead(j))
      /\ told[j] > 1 => j \in kept
SoloGoing == \A j \in Jobs : status[j] \in Going => \A k \in about[j] \ loose : tracked[k] = j

\* What holds when conversation t alone talks.
Solo(t) == Others(t) /\ SoloFields(t) /\ SoloPairs(t) /\ SoloCalls(t) /\ SoloTold /\ SoloGoing

\* A step of a conversation that talks alone, of a call of its, of a death, or of a worker.
SoloStep(t) == Next /\ \A s \in Threads \ {t} : turn'[s] = turn[s]

\* The initial states.
LEMMA SoloInit ==
    ASSUME Init, NEW t \in Threads
    PROVE  Solo(t)
BY DEF Init, Solo, Others, SoloFields, SoloPairs, SoloCalls, SoloTold, SoloGoing, Read, CallsOf, Quiet,
       Going

\* The actor is that conversation, one of its calls, a death, or a worker.
LEMMA SoloActor ==
    ASSUME RunsInv, NEW t \in Threads, Solo(t), SoloStep(t)
    PROVE  \/ Ask(t) \/ (\E p \in turn[t].unread : ReadRun(t, p)) \/ Talk(t) \/ Reply(t) \/ Notice(t)
           \/ \E s \in Threads : Die(s)
           \/ \E k \in Tickers, j \in Jobs : StartResearch(t, k, j)
           \/ \E c \in calls : CallStep(c)
           \/ \E j \in Jobs : Begin(j) \/ End(j)
<1>1. ASSUME NEW s \in Threads \ {t}
      PROVE  ~ \/ Ask(s) \/ (\E p \in turn[s].unread : ReadRun(s, p)) \/ Talk(s) \/ Reply(s) \/ Notice(s)
               \/ \E k \in Tickers, j \in Jobs : StartResearch(s, k, j)
    <2>1. turn[s] = Quiet /\ turn'[s] = turn[s]
        BY DEF Solo, Others, SoloStep
    <2>2. turn[s].at = "idle"
        BY <2>1 DEF Quiet
    <2>3. ~Ask(s)
        <3>1. SUFFICES ASSUME Ask(s)
                       PROVE  turn'[s].at = "asking"
            BY <2>1, <2>2
        <3> QED
            BY <3>1 DEF Ask, RunsInv, TypeOK, Quiet
    <2> QED
        BY <2>2, <2>3 DEF ReadRun, Talk, Reply, Notice, StartResearch
<1> QED
    BY <1>1 DEF SoloStep, Next

\* What only grows.
LEMMA DeskGrows ==
    ASSUME RunsInv, Next
    PROVE  /\ kept \subseteq kept' /\ loose \subseteq loose'
           /\ \A j \in Jobs : about[j] # {} => about'[j] = about[j]
<1>1. ASSUME NEW c \in calls, CallStep(c)
      PROVE  /\ kept \subseteq kept' /\ loose \subseteq loose'
             /\ \A j \in Jobs : about[j] # {} => about'[j] = about[j]
    BY <1>1, CallEffect DEF Effect, RunsInv
<1>2. ASSUME NEW t \in Threads, NEW k \in Tickers, NEW j \in Jobs, StartResearch(t, k, j)
      PROVE  /\ kept \subseteq kept' /\ loose \subseteq loose'
             /\ \A i \in Jobs : about[i] # {} => about'[i] = about[i]
    BY <1>2 DEF StartResearch, RunsInv, TypeOK
<1> QED
    BY <1>1, <1>2 DEF Next, Ask, ReadRun, Talk, Reply, Notice, Die, Begin, End, history

\* A job that will not go on never does.
LEMMA DeadStays ==
    ASSUME RunsInv, Next, NEW j \in Jobs, Dead(j)
    PROVE  Dead(j)'
<1>1. about'[j] # {}
    BY DeskGrows DEF Dead
<1>2. ASSUME UNCHANGED status, calls' \subseteq calls
      PROVE  Dead(j)'
    BY <1>1, <1>2 DEF Dead
<1>3. ASSUME NEW c \in calls, CallStep(c)
      PROVE  Dead(j)'
    <2>1. PICK d : Goes(c, d)
        BY <1>3, CallEffect DEF Effect, RunsInv
    <2>2. c.job # j
        BY DEF Dead
    <2>3. status'[j] = status[j]
        BY <1>3, <2>2, CallEffect DEF Effect, RunsInv
    <2>4. \A e \in calls' : e.job # j
        BY <2>1, <2>2 DEF Goes, Dead
    <2> QED
        BY <1>1, <2>3, <2>4 DEF Dead
<1>4. ASSUME NEW t \in Threads, NEW k \in Tickers, NEW i \in Jobs, StartResearch(t, k, i)
      PROVE  Dead(j)'
    <2>1. i # j /\ UNCHANGED status
        BY <1>4 DEF StartResearch, Dead
    <2>2. \A e \in calls' : e \in calls \/ e.job = i
        BY <1>4 DEF StartResearch
    <2> QED
        BY <1>1, <2>1, <2>2 DEF Dead
<1>5. ASSUME NEW i \in Jobs, Begin(i) \/ End(i)
      PROVE  Dead(j)'
    <2>1. i # j /\ UNCHANGED calls
        BY <1>5 DEF Begin, End, Dead, Going
    <2>2. status'[j] = status[j]
        BY <1>5, <2>1 DEF Begin, End, RunsInv, TypeOK
    <2> QED
        BY <1>1, <2>1, <2>2 DEF Dead
<1> QED
    BY <1>2, <1>3, <1>4, <1>5 DEF Next, Ask, ReadRun, Talk, Reply, Notice, Die

\* What was reported stays so, as long as nothing more is reported.
LEMMA SoloToldStays ==
    ASSUME RunsInv, NEW t \in Threads, Solo(t), SoloStep(t), UNCHANGED told
    PROVE  Others(t)' /\ SoloTold'
<1>1. Next /\ kept \subseteq kept' /\ loose \subseteq loose'
    BY DeskGrows DEF SoloStep
<1>2. ASSUME NEW j \in Jobs, told'[j] > 0
      PROVE  about'[j] # {} /\ (about'[j] \subseteq loose' \/ Dead(j)')
    <2>1. about[j] # {} /\ (about[j] \subseteq loose \/ Dead(j))
        BY <1>2 DEF Solo, SoloTold
    <2>2. about'[j] = about[j]
        BY <1>1, <2>1, DeskGrows
    <2> QED
        BY <1>1, <2>1, <2>2, DeadStays
<1>3. Others(t)'
    BY DEF Solo, Others, SoloStep
<1> QED
    BY <1>1, <1>2, <1>3 DEF Solo, SoloTold

\* What the turn has read stays so, as long as it reads and reports nothing more.
LEMMA SoloPairsStay ==
    ASSUME RunsInv, NEW t \in Threads, Solo(t), SoloStep(t), UNCHANGED told,
           Read(t)' \subseteq Read(t), turn'[t].over \subseteq turn[t].over,
           turn[t].at = "noticing" => turn'[t].at = "noticing" \/ Read(t)' = {}
    PROVE  SoloPairs(t)'
<1>1. Next /\ kept \subseteq kept' /\ loose \subseteq loose'
    BY DeskGrows DEF SoloStep
<1>2. ASSUME NEW p \in Read(t)'
      PROVE  SoloPair(t, p)'
    <2>1. p \in Read(t) /\ p[2] \in Jobs
        BY <1>2, PairsType DEF Read, RunsInv
    <2>2. SoloPair(t, p)
        BY <2>1 DEF Solo, SoloPairs
    <2>3. about'[p[2]] = about[p[2]]
        BY <1>1, <2>1, <2>2, DeskGrows DEF SoloPair
    <2> QED
        BY <1>1, <1>2, <2>2, <2>3 DEF SoloPair
<1>3. ASSUME NEW p \in turn'[t].over
      PROVE  p[1] \in loose' \/ Dead(p[2])'
    <2>1. p \in turn[t].over /\ p[2] \in Jobs
        BY <1>3, PairsType DEF RunsInv
    <2>2. p[1] \in loose \/ Dead(p[2])
        BY <2>1 DEF Solo, SoloPairs
    <2> QED
        BY <1>1, <2>1, <2>2, DeadStays
<1> QED
    BY <1>2, <1>3 DEF SoloPairs

\* What a call knows stays so, as long as no call of the turn and no field is touched.
LEMMA SoloCallStays ==
    ASSUME RunsInv, NEW t \in Threads, Solo(t), SoloStep(t), NEW c \in calls,
           SoloCall(t, c), c.job \in turn'[t].starts,
           \A d \in calls' : d.ticker = c.ticker => d = c,
           tracked'[c.ticker] = tracked[c.ticker]
    PROVE  SoloCall(t, c)'
<1>1. c.next = "take" /\ c.found # NoJob => Dead(c.found)'
    <2>1. c.found \in Jobs \cup {NoJob} /\ Next
        BY CallShape DEF RunsInv, SoloStep
    <2> QED
        BY <2>1, DeadStays DEF SoloCall
<1> QED
    BY <1>1 DEF SoloCall

\* Outside a turn's talk nobody waits for a call, and every call is loose.
LEMMA SoloLoose ==
    ASSUME NEW t \in Threads, Solo(t), CallsOf(t) = {}
    PROVE  \A c \in calls : c.ticker \in loose
BY DEF Solo, SoloCalls, SoloCall, CallsOf

\* Asking and reading: the turn waits for no call.
LEMMA SoloAsks ==
    ASSUME RunsInv, NEW t \in Threads, Solo(t), SoloStep(t),
           Ask(t) \/ (\E p \in turn[t].unread : ReadRun(t, p)) \/ Talk(t)
    PROVE  Solo(t)'
<1>1. /\ UNCHANGED <<tracked, status, about, calls, told, kept, loose>> /\ turn[t] \in Turn
      /\ turn[t].at \in {"idle", "asking"}
    BY DEF Ask, ReadRun, Talk, history, RunsInv, TypeOK
<1>2. CallsOf(t) = {}
    BY <1>1 DEF Solo, SoloCalls
<1>3. \A c \in calls : c.ticker \in loose
    BY <1>2, SoloLoose
<1>4. Others(t)' /\ SoloTold'
    BY <1>1, SoloToldStays
<1>5. SoloGoing'
    BY <1>1 DEF Solo, SoloGoing
<1>6. SoloFields(t)'
    <2>1. \A k \in Tickers : tracked[k] # NoJob =>
            about[tracked[k]] = {k} /\ (told[tracked[k]] > 0 => tracked[k] \in kept)
        BY <1>1 DEF Solo, SoloFields, SoloField
    <2> QED
        BY <1>1, <2>1 DEF SoloFields, SoloField
<1>7. turn'[t].starts \subseteq turn[t].starts
    <2>1. CASE Ask(t)
        BY <2>1 DEF Ask, Quiet, RunsInv, TypeOK
    <2>2. CASE Talk(t)
        BY <2>2, <1>1 DEF Talk, Quiet, RunsInv, TypeOK, Turn
    <2>3. ASSUME NEW p \in turn[t].unread, ReadRun(t, p)
          PROVE  turn'[t].starts = turn[t].starts
        <3>1. turn \in [Threads -> Turn]
            BY DEF RunsInv, TypeOK
        <3> QED
            BY <1>1, <2>3, <3>1 DEF ReadRun, Turn
    <2> QED
        BY <2>1, <2>2, <2>3
<1>8. CallsOf(t)' = {}
    BY <1>1, <1>2, <1>7 DEF CallsOf
<1>9. ASSUME \A p \in Read(t)' : p \in Read(t) \/ \E k \in Tickers : p = <<k, tracked[k]>> /\ tracked[k] # NoJob
      PROVE  SoloCalls(t)'
    <2>1. ASSUME NEW c \in calls, c.next \in Unplaced
          PROVE  SoloUnplaced(t, c)'
        <3>1. SoloUnplaced(t, c)
            BY <2>1 DEF Solo, SoloCalls
        <3>2. \A k \in Tickers : <<k, tracked[k]>>[2] = tracked[k]
            OBVIOUS
        <3> QED
            BY <1>1, <1>9, <3>1, <3>2 DEF SoloUnplaced
    <2> QED
        BY <1>1, <1>3, <1>8, <2>1 DEF SoloCalls
<1>10. CASE Ask(t)
    <2>1. /\ turn'[t].over = {} /\ turn'[t].at = "asking" /\ turn[t].at = "idle"
          /\ Read(t)' = {<<k, tracked[k]>> : k \in {k \in Tickers : tracked[k] # NoJob}}
        BY <1>10 DEF Ask, RunsInv, TypeOK, Quiet, Read
    <2>2. ASSUME NEW k \in Tickers, tracked[k] # NoJob, NEW p, p = <<k, tracked[k]>>
          PROVE  SoloPair(t, p)'
        <3>1. p[1] = k /\ p[2] = tracked[k] /\ tracked[k] \in Jobs
            BY <2>2 DEF RunsInv, TypeOK
        <3>2. about[tracked[k]] = {k} /\ (told[tracked[k]] > 0 => tracked[k] \in kept)
            BY <2>1, <2>2 DEF Solo, SoloFields, SoloField
        <3>3. told[tracked[k]] \in Nat
            BY <3>1 DEF RunsInv, TypeOK
        <3> QED
            BY <1>1, <3>1, <3>2, <3>3 DEF SoloPair
    <2>3. SoloPairs(t)'
        BY <2>1, <2>2 DEF SoloPairs
    <2>4. SoloCalls(t)'
        BY <1>9, <2>1
    <2> QED
        BY <1>4, <1>5, <1>6, <2>3, <2>4 DEF Solo
<1>11. ASSUME NEW p \in turn[t].unread, ReadRun(t, p)
       PROVE  Solo(t)'
    <2>1. /\ turn'[t].unread = turn[t].unread \ {p} /\ turn'[t].at = turn[t].at
          /\ turn'[t].over = IF status[p[2]] \in Going THEN turn[t].over ELSE turn[t].over \cup {p}
        BY <1>1, <1>11 DEF ReadRun, RunsInv, TypeOK, Turn
    <2>2. Read(t)' \subseteq Read(t) /\ p \in Read(t) /\ p[2] \in Jobs
        BY <2>1, PairsType DEF Read, RunsInv
    <2>3. status[p[2]] \notin Going => p[1] \in loose \/ Dead(p[2])
        <3>1. SUFFICES ASSUME status[p[2]] \notin Going, p[1] \notin loose
                       PROVE  Dead(p[2])
            OBVIOUS
        <3>2. about[p[2]] = {p[1]}
            BY <2>2 DEF Solo, SoloPairs, SoloPair
        <3>3. \A c \in calls : c.job # p[2]
            BY <1>3, <3>1, <3>2 DEF RunsInv, Drawn
        <3> QED
            BY <3>1, <3>2, <3>3 DEF Dead
    <2>4. \A q \in turn'[t].over : q[1] \in loose \/ Dead(q[2])
        BY <2>1, <2>3 DEF Solo, SoloPairs
    <2>5. \A q \in Read(t)' : SoloPair(t, q)
        BY <2>2 DEF Solo, SoloPairs
    <2>6. SoloPairs(t)'
        BY <1>1, <2>1, <2>4, <2>5 DEF SoloPairs, SoloPair, Dead
    <2>7. SoloCalls(t)'
        BY <1>9, <2>2
    <2> QED
        BY <1>4, <1>5, <1>6, <2>6, <2>7 DEF Solo
<1>12. CASE Talk(t)
    <2>1. turn'[t].unread \subseteq turn[t].unread /\ turn'[t].over \subseteq turn[t].over
        BY <1>1, <1>12 DEF Talk, Quiet, RunsInv, TypeOK, Turn
    <2>2. Read(t)' \subseteq Read(t)
        BY <2>1 DEF Read
    <2>3. SoloPairs(t)'
        BY <1>1, <2>1, <2>2, SoloPairsStay
    <2>4. SoloCalls(t)'
        BY <1>9, <2>2
    <2> QED
        BY <1>4, <1>5, <1>6, <2>3, <2>4 DEF Solo
<1> QED
    BY <1>10, <1>11, <1>12

\* A reply reports what it has read, for the first time or in vain.
LEMMA SoloReplies ==
    ASSUME RunsInv, NEW t \in Threads, Solo(t), SoloStep(t), Reply(t)
    PROVE  Solo(t)'
<1>1. /\ UNCHANGED <<tracked, status, about, calls, kept, loose>> /\ CallsOf(t) = {}
      /\ turn[t].at = "talking" /\ turn'[t].at = "noticing"
      /\ turn'[t].unread = turn[t].unread /\ turn'[t].over = turn[t].over
      /\ turn'[t].starts = turn[t].starts
      /\ \A j \in Jobs : told'[j] = IF j \in JobsOf(turn[t].over) THEN told[j] + 1 ELSE told[j]
    BY DEF Reply, RunsInv, TypeOK, Turn
<1>2. \A c \in calls : c.ticker \in loose
    BY <1>1, SoloLoose
<1>3. Others(t)'
    BY DEF Solo, Others, SoloStep
<1>4. \A j \in Jobs : told[j] \in Nat
    BY DEF RunsInv, TypeOK
<1>5. \A p \in Read(t) : /\ p = <<p[1], p[2]>> /\ p[2] \in Jobs
                         /\ about[p[2]] = {p[1]} /\ (p[2] \in kept \/ told[p[2]] = 0)
    BY <1>1, PairsType DEF Read, RunsInv, Solo, SoloPairs, SoloPair
<1>6. Read(t)' = Read(t) /\ turn[t].over \subseteq Read(t)
    BY <1>1 DEF Read
<1>7. SoloFields(t)'
    <2>1. ASSUME NEW k \in Tickers, tracked[k] # NoJob
          PROVE  SoloField(t, k)'
        <3>1. about[tracked[k]] = {k} /\ (told[tracked[k]] > 0 => tracked[k] \in kept)
            BY <1>1, <2>1 DEF Solo, SoloFields, SoloField
        <3>2. tracked[k] \in Jobs
            BY <2>1 DEF RunsInv, TypeOK
        <3>3. CASE tracked[k] \in JobsOf(turn[t].over)
            <4>1. PICK p \in turn[t].over : p[2] = tracked[k]
                BY <3>3 DEF JobsOf
            <4>2. p = <<k, tracked[k]>>
                BY <1>5, <1>6, <3>1, <4>1
            <4> QED
                BY <1>1, <3>1, <4>1, <4>2 DEF SoloField
        <3>4. CASE tracked[k] \notin JobsOf(turn[t].over)
            BY <1>1, <3>1, <3>2, <3>4 DEF SoloField
        <3> QED
            BY <3>3, <3>4
    <2> QED
        BY <1>1, <2>1 DEF SoloFields
<1>8. SoloPairs(t)'
    <2>1. ASSUME NEW p \in Read(t)
          PROVE  SoloPair(t, p)'
        <3>1. told[p[2]] = 0 => told'[p[2]] <= 1
            BY <1>1, <1>5
        <3> QED
            BY <1>1, <1>5, <3>1 DEF SoloPair
    <2>2. \A p \in turn[t].over : (p[1] \in loose \/ Dead(p[2]))'
        BY <1>1 DEF Solo, SoloPairs, Dead
    <2> QED
        BY <1>1, <1>6, <2>1, <2>2 DEF SoloPairs
<1>9. SoloCalls(t)'
    <2>1. ASSUME NEW c \in calls, c.next \in Unplaced
          PROVE  SoloUnplaced(t, c)'
        <3>1. SoloUnplaced(t, c) /\ c.job \in Jobs
            BY <2>1, CallShape DEF Solo, SoloCalls, RunsInv
        <3>2. c.job \notin JobsOf(turn[t].over)
            BY <1>6, <3>1 DEF SoloUnplaced, JobsOf
        <3> QED
            BY <1>1, <1>6, <3>1, <3>2 DEF SoloUnplaced
    <2>2. CallsOf(t)' = {}
        BY <1>1 DEF CallsOf
    <2> QED
        BY <1>1, <1>2, <2>1, <2>2 DEF SoloCalls
<1>10. SoloTold'
    <2>1. ASSUME NEW j \in Jobs, j \in JobsOf(turn[t].over)
          PROVE  /\ about[j] # {} /\ (about[j] \subseteq loose \/ Dead(j))
                 /\ told[j] + 1 > 1 => j \in kept
        <3>1. PICK p \in turn[t].over : p[2] = j
            BY <2>1 DEF JobsOf
        <3>2. about[j] = {p[1]} /\ (j \in kept \/ told[j] = 0)
            BY <1>5, <1>6, <3>1
        <3>3. p[1] \in loose \/ Dead(j)
            BY <3>1 DEF Solo, SoloPairs
        <3> QED
            BY <1>4, <3>2, <3>3
    <2>2. ASSUME NEW j \in Jobs, j \notin JobsOf(turn[t].over)
          PROVE  told'[j] = told[j]
        BY <1>1, <2>2
    <2> QED
        BY <1>1, <2>1, <2>2 DEF Solo, SoloTold, Dead
<1>11. SoloGoing'
    BY <1>1 DEF Solo, SoloGoing
<1> QED
    BY <1>3, <1>7, <1>8, <1>9, <1>10, <1>11 DEF Solo

\* The fields and the calls, when the turn ends and reported jobs that are in a field could not be
\* forgotten.
LEMMA SoloFieldsStay ==
    ASSUME RunsInv, NEW t \in Threads, Solo(t), SoloStep(t), UNCHANGED told,
           \A k \in Tickers : tracked'[k] \in {tracked[k], NoJob},
           \A k \in Tickers : tracked'[k] # NoJob =>
               \/ turn'[t] = turn[t]
               \/ turn[t].at # "noticing"
               \/ <<k, tracked[k]>> \notin turn[t].over
               \/ tracked[k] \in kept'
    PROVE  SoloFields(t)'
<1> SUFFICES ASSUME NEW k \in Tickers, tracked'[k] # NoJob
             PROVE  SoloField(t, k)'
    BY DEF SoloFields
<1>1. Next /\ kept \subseteq kept'
    BY DeskGrows DEF SoloStep
<1>2. tracked'[k] = tracked[k] /\ tracked[k] \in Jobs
    BY DEF RunsInv, TypeOK
<1>3. SoloField(t, k)
    BY <1>2 DEF Solo, SoloFields
<1>4. about'[tracked[k]] = {k}
    BY <1>1, <1>2, <1>3, DeskGrows DEF SoloField
<1> QED
    BY <1>1, <1>2, <1>3, <1>4 DEF SoloField

\* A call that is still in progress when its turn is over is loose.
LEMMA SoloCallsStay ==
    ASSUME RunsInv, NEW t \in Threads, Solo(t), SoloStep(t), UNCHANGED told,
           calls' \subseteq calls, \A k \in Tickers : tracked'[k] \in {tracked[k], NoJob},
           Read(t)' \subseteq Read(t), turn'[t] = Quiet, calls' \cap CallsOf(t) = {}
    PROVE  SoloCalls(t)'
<1>1. Next /\ loose \subseteq loose'
    BY DeskGrows DEF SoloStep
<1>2. CallsOf(t)' = {}
    BY DEF CallsOf, Quiet
<1>3. \A c \in calls' : c.ticker \in loose'
    BY <1>1 DEF Solo, SoloCalls, SoloCall, CallsOf
<1>4. \A c \in calls' : c.next \in Unplaced => SoloUnplaced(t, c)'
    <2> SUFFICES ASSUME NEW c \in calls', c.next \in Unplaced
                 PROVE  SoloUnplaced(t, c)'
        OBVIOUS
    <2>1. SoloUnplaced(t, c) /\ c.job # NoJob
        BY CallShape DEF Solo, SoloCalls, RunsInv
    <2> QED
        BY <2>1 DEF SoloUnplaced
<1> QED
    BY <1>2, <1>3, <1>4 DEF SoloCalls

\* What is forgotten was reported, and what could not be is known to be kept.
LEMMA SoloNotices ==
    ASSUME RunsInv, NEW t \in Threads, Solo(t), SoloStep(t), Notice(t)
    PROVE  Solo(t)'
<1>1. /\ turn[t].at = "noticing" /\ turn'[t] = Quiet
      /\ UNCHANGED <<status, about, calls, told, loose>>
      /\ tracked' \in {tracked, Forget(turn[t].over)}
      /\ tracked' = Forget(turn[t].over) \/ JobsOf(turn[t].over) \subseteq kept'
    BY DEF Notice, RunsInv, TypeOK
<1>2. CallsOf(t) = {}
    BY <1>1 DEF Solo, SoloCalls
<1>3. Read(t)' = {} /\ turn'[t].over = {}
    BY <1>1 DEF Read, Quiet
<1>4. \A k \in Tickers : /\ tracked'[k] \in {tracked[k], NoJob}
                         /\ tracked'[k] # tracked[k] => <<k, tracked[k]>> \in turn[t].over
    BY <1>1 DEF Forget
<1>5. Others(t)' /\ SoloTold'
    BY <1>1, SoloToldStays
<1>6. SoloPairs(t)'
    BY <1>1, <1>3, SoloPairsStay
<1>7. SoloCalls(t)'
    BY <1>1, <1>2, <1>3, <1>4, SoloCallsStay
<1>8. SoloFields(t)'
    <2>1. ASSUME NEW k \in Tickers, tracked'[k] # NoJob, <<k, tracked[k]>> \in turn[t].over
          PROVE  tracked[k] \in kept'
        <3>1. tracked' # Forget(turn[t].over)
            BY <2>1 DEF Forget
        <3>2. tracked[k] \in JobsOf(turn[t].over)
            <4>1. <<k, tracked[k]>>[2] = tracked[k]
                OBVIOUS
            <4> QED
                BY <2>1, <4>1 DEF JobsOf
        <3> QED
            BY <1>1, <3>1, <3>2
    <2> QED
        BY <1>1, <1>4, <2>1, SoloFieldsStay
<1>9. SoloGoing'
    <2> SUFFICES ASSUME NEW j \in Jobs, status[j] \in Going, NEW k \in about[j] \ loose
                 PROVE  tracked'[k] = j
        BY <1>1 DEF SoloGoing
    <2>1. tracked[k] = j /\ k \in Tickers
        BY DEF Solo, SoloGoing, RunsInv, TypeOK
    <2>2. <<k, j>> \notin turn[t].over
        <3>1. <<k, j>>[1] = k /\ <<k, j>>[2] = j /\ ~Dead(j)
            BY DEF Dead
        <3> QED
            BY <3>1 DEF Solo, SoloPairs
    <2> QED
        BY <1>4, <2>1, <2>2
<1> QED
    BY <1>5, <1>6, <1>7, <1>8, <1>9 DEF Solo

\* The turn that dies takes its calls along; a death elsewhere takes some that nobody waits for.
LEMMA SoloDies ==
    ASSUME RunsInv, NEW t \in Threads, Solo(t), SoloStep(t), NEW s \in Threads, Die(s)
    PROVE  Solo(t)'
<1>1. /\ turn' = [turn EXCEPT ![s] = Quiet] /\ calls' \subseteq calls \ CallsOf(s)
      /\ UNCHANGED <<tracked, status, about, told, loose>>
      /\ turn[s].at = "noticing" => JobsOf(turn[s].over) \subseteq kept'
    BY DEF Die
<1>2. turn'[t] = turn[t] \/ (s = t /\ turn'[t] = Quiet)
    BY <1>1 DEF RunsInv, TypeOK
<1>3. Others(t)' /\ SoloTold'
    BY <1>1, SoloToldStays
<1>4. SoloGoing'
    BY <1>1 DEF Solo, SoloGoing
<1>5. Read(t)' \subseteq Read(t) /\ turn'[t].over \subseteq turn[t].over
      /\ (turn'[t] = Quiet => Read(t)' = {})
    BY <1>2 DEF Read, Quiet
<1>6. SoloPairs(t)'
    BY <1>1, <1>2, <1>5, SoloPairsStay
<1>7. SoloFields(t)'
    <2>1. ASSUME NEW k \in Tickers, <<k, tracked[k]>> \in turn[s].over, turn[s].at = "noticing"
          PROVE  tracked[k] \in kept'
        <3>1. <<k, tracked[k]>>[2] = tracked[k]
            OBVIOUS
        <3>2. tracked[k] \in JobsOf(turn[s].over)
            BY <2>1, <3>1 DEF JobsOf
        <3> QED
            BY <1>1, <2>1, <3>2
    <2>2. \A k \in Tickers : tracked'[k] = tracked[k]
        BY <1>1
    <2> QED
        BY <1>1, <1>2, <2>1, <2>2, SoloFieldsStay
<1>8. SoloCalls(t)'
    <2>1. CASE turn'[t] = turn[t]
        <3>1. \A c \in calls' : CallsOf(t)' \subseteq CallsOf(t) /\ c \in calls
            BY <1>1, <2>1 DEF CallsOf
        <3>2. ASSUME NEW c \in calls', c.next \in Unplaced
              PROVE  SoloUnplaced(t, c)'
            BY <1>1, <1>5, <3>1, <3>2 DEF Solo, SoloCalls, SoloUnplaced
        <3>3. ASSUME NEW c \in calls', c.ticker \notin loose
              PROVE  SoloCall(t, c)'
            <4>1. SoloCall(t, c) /\ c \in calls
                BY <3>1, <3>3 DEF Solo, SoloCalls
            <4>2. /\ c.job \in turn'[t].starts /\ tracked'[c.ticker] = tracked[c.ticker]
                  /\ \A d \in calls' : d.ticker = c.ticker => d = c
                BY <1>1, <2>1, <4>1 DEF SoloCall
            <4> QED
                BY <4>1, <4>2, SoloCallStays
        <3>4. CallsOf(t)' \subseteq CallsOf(t)
            BY <1>1, <2>1 DEF CallsOf
        <3> QED
            BY <1>1, <2>1, <3>2, <3>3, <3>4 DEF Solo, SoloCalls
    <2>2. CASE s = t /\ turn'[t] = Quiet
        <3>1. calls' \cap CallsOf(t) = {} /\ calls' \subseteq calls
            BY <1>1, <2>2
        <3>2. \A k \in Tickers : tracked'[k] \in {tracked[k], NoJob}
            BY <1>1
        <3> QED
            BY <1>1, <1>5, <2>2, <3>1, <3>2, SoloCallsStay
    <2> QED
        BY <1>2, <2>1, <2>2
<1> QED
    BY <1>3, <1>4, <1>6, <1>7, <1>8 DEF Solo

\* A job is drawn that is in no field and was not reported.
LEMMA SoloStarts ==
    ASSUME RunsInv, NEW t \in Threads, Solo(t), SoloStep(t),
           NEW k \in Tickers, NEW j \in Jobs, StartResearch(t, k, j)
    PROVE  Solo(t)'
<1> DEFINE c == [next |-> "claim", ticker |-> k, job |-> j, found |-> NoJob]
<1>1. /\ about[j] = {} /\ turn[t].at = "talking" /\ calls' = calls \cup {c}
      /\ turn'[t].at = "talking" /\ turn'[t].unread = turn[t].unread /\ turn'[t].over = turn[t].over
      /\ turn'[t].starts = turn[t].starts \cup {j}
      /\ loose' = loose \cup ({k} \cap TickersOf(calls))
      /\ UNCHANGED <<tracked, status, told, kept>>
    BY DEF StartResearch, RunsInv, TypeOK, Turn
<1>2. c.next = "claim" /\ c.job = j /\ c.ticker = k
    OBVIOUS
<1> HIDE DEF c
<1>3. \A i \in Jobs : about'[i] = IF i = j THEN {k} ELSE about[i]
    BY DEF StartResearch, RunsInv, TypeOK
<1>4. Others(t)' /\ SoloTold'
    BY <1>1, SoloToldStays
<1>5. Read(t)' = Read(t)
    BY <1>1 DEF Read
<1>6. SoloPairs(t)'
    BY <1>1, <1>5, SoloPairsStay
<1>7. SoloFields(t)'
    <2>1. \A i \in Tickers : tracked'[i] \in {tracked[i], NoJob}
        BY <1>1
    <2> QED
        BY <1>1, <2>1, SoloFieldsStay
<1>8. SoloGoing'
    <2>1. status[j] \notin Going
        BY <1>1 DEF RunsInv, Drawn, Going
    <2> QED
        BY <1>1, <1>3, <2>1 DEF Solo, SoloGoing
<1>9. SoloUnplaced(t, c)'
    <2>1. \A i \in Tickers : tracked[i] # j
        <3>1. SUFFICES ASSUME NEW i \in Tickers, tracked[i] = j
                       PROVE  FALSE
            OBVIOUS
        <3>2. tracked[i] # NoJob
            BY <3>1, DeskAssumption
        <3> QED
            BY <1>1, <3>1, <3>2 DEF Solo, SoloFields, SoloField
    <2>2. \A p \in Read(t) : p[2] # j
        BY <1>1 DEF Solo, SoloPairs, SoloPair
    <2>3. told[j] = 0
        <3>1. told[j] \in Nat
            BY DEF RunsInv, TypeOK
        <3> QED
            BY <1>1, <3>1 DEF Solo, SoloTold
    <2> QED
        BY <1>1, <1>2, <1>5, <2>1, <2>2, <2>3 DEF SoloUnplaced
<1>10. ASSUME NEW d \in calls', d.next \in Unplaced
       PROVE  SoloUnplaced(t, d)'
    <2>1. CASE d = c
        BY <1>9, <2>1
    <2>2. CASE d # c
        <3>1. SoloUnplaced(t, d)
            BY <1>1, <1>10, <2>2 DEF Solo, SoloCalls
        <3> QED
            BY <1>1, <1>5, <3>1 DEF SoloUnplaced
    <2> QED
        BY <2>1, <2>2
<1>11. ASSUME NEW d \in calls', d.ticker \notin loose'
       PROVE  SoloCall(t, d)'
    <2>1. k \notin loose' => \A e \in calls : e.ticker # k
        BY <1>1 DEF TickersOf
    <2>2. CASE d = c
        <3>1. \A e \in calls' : e.ticker = c.ticker => e = c
            BY <1>1, <1>2, <1>11, <2>1, <2>2
        <3> QED
            BY <1>1, <1>2, <2>2, <3>1 DEF SoloCall
    <2>3. CASE d # c
        <3>1. d \in calls /\ d.ticker \notin loose
            BY <1>1, <1>11, <2>3
        <3>2. SoloCall(t, d)
            BY <3>1 DEF Solo, SoloCalls
        <3>3. d.ticker # k
            BY <1>11, <2>1, <3>1
        <3>4. /\ d.job \in turn'[t].starts /\ tracked'[d.ticker] = tracked[d.ticker]
              /\ \A e \in calls' : e.ticker = d.ticker => e = d
            BY <1>1, <1>2, <3>2, <3>3 DEF SoloCall
        <3> QED
            BY <3>1, <3>2, <3>4, SoloCallStays
    <2> QED
        BY <2>2, <2>3
<1>12. SoloCalls(t)'
    BY <1>1, <1>10, <1>11 DEF SoloCalls
<1> QED
    BY <1>4, <1>6, <1>7, <1>8, <1>12 DEF Solo

\* The call that goes on is still the only one on its company, and knows what is in the field.
LEMMA SoloGoesOn ==
    ASSUME RunsInv, NEW t \in Threads, Solo(t), SoloStep(t), NEW c \in calls, CallStep(c),
           SoloCall(t, c), c.ticker \notin loose', NEW d \in calls', d \notin calls \ {c}
    PROVE  SoloCall(t, d)'
<1>1. /\ Effect(c) /\ c.ticker \in Tickers /\ c \in Call /\ c.job \in Jobs /\ c.job # NoJob /\ Next
      /\ c.found \in Jobs \cup {NoJob}
    BY CallEffect, CallShape DEF RunsInv, SoloStep
<1>2. PICK e : Goes(c, e)
    BY <1>1 DEF Effect
<1>3. /\ d = e /\ d.ticker = c.ticker /\ d.job = c.job /\ UNCHANGED turn
      /\ d.next # "undo"
      /\ d.next = "enqueue" => tracked'[c.ticker] = c.job
      /\ d.next \in Unplaced => c.next \in Unplaced /\ UNCHANGED <<tracked, status>>
    BY <1>2 DEF Goes, Unplaced
<1>4. d.job \in turn'[t].starts
    BY <1>3 DEF SoloCall
<1>5. \A f \in calls' : f.ticker = d.ticker => f = d
    BY <1>2, <1>3 DEF Goes, SoloCall
<1>6. ASSUME d.next \in {"check", "take"}
      PROVE  tracked[c.ticker] = d.found /\ (d.next = "take" /\ d.found # NoJob => Dead(d.found)')
    <2>1. c.next \in Unplaced /\ UNCHANGED <<tracked, status>> /\ SoloUnplaced(t, c)
        BY <1>3, <1>6 DEF Unplaced, Solo, SoloCalls
    <2>2. CASE Look(c)
        <3>1. PICK f \in Call :
                 /\ calls' = (calls \ {c}) \cup {f}
                 /\ f.found = tracked[c.ticker] /\ (f.next = "take" => f.found = NoJob)
            BY <2>2, LookShape DEF RunsInv
        <3> QED
            BY <3>1
    <2>3. CASE Check(c)
        <3> DEFINE f == [c EXCEPT !.next = "take"]
        <3>1. f.found = c.found /\ c.next = "check"
            BY <1>1, <2>3 DEF Call, Check
        <3>2. calls' = (calls \ {c}) \cup {f} /\ status[c.found] \notin Going
            BY <2>3 DEF Check, GoOn, Return
        <3>3. d = f
            BY <3>2
        <3> HIDE DEF f
        <3>4. tracked[c.ticker] = d.found /\ d.found = c.found
            BY <3>1, <3>3 DEF SoloCall
        <3>5. ASSUME d.found # NoJob
              PROVE  Dead(d.found)'
            <4>1. about[d.found] = {c.ticker}
                BY <1>1, <3>4, <3>5 DEF Solo, SoloFields, SoloField
            <4>2. \A g \in calls' : g.job # d.found
                <5>1. SUFFICES ASSUME NEW g \in calls', g.job = d.found
                               PROVE  FALSE
                    OBVIOUS
                <5>2. g.ticker = c.ticker
                    <6>1. CASE g = d
                        BY <1>3, <6>1
                    <6>2. CASE g # d
                        <7>1. g \in calls
                            BY <1>2, <1>3, <6>2 DEF Goes
                        <7>2. about[g.job] = {g.ticker}
                            BY <7>1 DEF RunsInv, Drawn
                        <7> QED
                            BY <4>1, <5>1, <7>2
                    <6> QED
                        BY <6>1, <6>2
                <5>3. g = d
                    BY <1>3, <1>5, <5>2
                <5> QED
                    BY <1>1, <1>3, <2>1, <3>4, <5>1, <5>3 DEF SoloUnplaced
            <4>3. status'[d.found] \notin Going /\ about'[d.found] # {}
                BY <1>1, <2>1, <3>2, <3>4, <4>1 DEF Effect
            <4> QED
                BY <4>2, <4>3 DEF Dead
        <3> QED
            BY <3>4, <3>5
    <2>4. CASE ~Look(c) /\ ~Check(c)
        <3>1. c.next \in Unplaced /\ ~CallFails(c)
            <4>1. CallFails(c) => calls' = calls \ {c}
                BY DEF CallFails, Raise
            <4> QED
                BY <2>1, <4>1
        <3>2. \/ calls' = (calls \ {c}) \cup {[c EXCEPT !.next = "enqueue"]}
              \/ calls' = (calls \ {c}) \cup {[c EXCEPT !.next = "look"]}
            BY <2>4, <3>1 DEF CallStep, Claim, Take, Enqueue, EnqueueFails, Undo, GoOn, Unplaced
        <3>3. [c EXCEPT !.next = "enqueue"].next = "enqueue" /\ [c EXCEPT !.next = "look"].next = "look"
            BY <1>1 DEF Call
        <3> QED
            BY <1>6, <3>2, <3>3
    <2> QED
        BY <2>2, <2>3, <2>4
<1>7. d.next \in {"check", "take"} => tracked'[d.ticker] = d.found
    BY <1>3, <1>6 DEF Unplaced
<1> QED
    BY <1>3, <1>4, <1>5, <1>6, <1>7 DEF SoloCall

\* A command of a call.
LEMMA SoloCommands ==
    ASSUME RunsInv, NEW t \in Threads, Solo(t), SoloStep(t), NEW c \in calls, CallStep(c)
    PROVE  Solo(t)'
<1>1. /\ Effect(c) /\ c.ticker \in Tickers /\ c.job \in Jobs /\ c.job # NoJob /\ Next
      /\ loose \subseteq loose'
    BY CallEffect, CallShape, DeskGrows DEF RunsInv, SoloStep
<1>2. PICK d : Goes(c, d)
    BY <1>1 DEF Effect
<1>3. UNCHANGED <<about, told, kept>>
    BY <1>1 DEF Effect
<1>4. /\ about[c.job] = {c.ticker}
      /\ \A e \in calls \ {c} : e.job # c.job /\ e \in Call /\ e.ticker \in Tickers
    BY CallShape DEF RunsInv, Drawn
<1>5. \/ turn'[t] = turn[t]
      \/ /\ turn'[t] = Quiet /\ c \in CallsOf(t) /\ TickersOf(CallsOf(t) \ {c}) \subseteq loose'
         /\ turn[t].at = "talking"
    BY <1>1 DEF Effect, Solo, SoloCalls
<1>6. \A e \in calls' : e \in calls \ {c} \/ (e = d /\ e.ticker = c.ticker /\ e.job = c.job)
    BY <1>2 DEF Goes
<1>7. /\ Read(t)' \subseteq Read(t) /\ turn'[t].over \subseteq turn[t].over
      /\ turn[t].at = "noticing" => turn'[t].at = "noticing"
      /\ turn'[t] = Quiet => CallsOf(t)' = {}
    BY <1>5 DEF Read, Quiet, CallsOf
<1>8. Others(t)' /\ SoloTold'
    BY <1>3, SoloToldStays
<1>9. SoloPairs(t)'
    BY <1>3, <1>7, SoloPairsStay
<1>10. \A k \in Tickers : \/ tracked'[k] = tracked[k]
                          \/ k = c.ticker /\ Writes(c) /\ tracked[k] \in ousted' \cup {NoJob}
    BY <1>1 DEF Effect
<1>11. SoloFields(t)'
    <2> SUFFICES ASSUME NEW k \in Tickers, tracked'[k] # NoJob
                 PROVE  SoloField(t, k)'
        BY DEF SoloFields
    <2>1. CASE tracked'[k] = tracked[k]
        <3>1. SoloField(t, k)
            BY <2>1 DEF Solo, SoloFields
        <3> QED
            BY <1>3, <1>5, <2>1, <3>1 DEF SoloField
    <2>2. CASE tracked'[k] # tracked[k]
        <3>1. k = c.ticker /\ tracked'[k] = c.job /\ c.next \in Unplaced
            BY <1>10, <2>2 DEF Writes, Unplaced
        <3>2. told[c.job] = 0
            BY <3>1 DEF Solo, SoloCalls, SoloUnplaced
        <3> QED
            BY <1>3, <1>4, <3>1, <3>2 DEF SoloField
    <2> QED
        BY <2>1, <2>2
<1>12. SoloGoing'
    <2> SUFFICES ASSUME NEW j \in Jobs, status'[j] \in Going, NEW k \in about[j] \ loose'
                 PROVE  tracked'[k] = j
        BY <1>3 DEF SoloGoing
    <2>1. k \in Tickers /\ k \notin loose /\ j # NoJob
        BY <1>1, DeskAssumption DEF RunsInv, TypeOK
    <2>2. CASE status'[j] = status[j]
        <3>1. tracked[k] = j
            BY <2>1, <2>2 DEF Solo, SoloGoing
        <3>2. ASSUME k = c.ticker, Writes(c)
              PROVE  FALSE
            <4>1. SoloCall(t, c) /\ c.next # "undo"
                BY <2>1, <3>2 DEF Solo, SoloCalls, SoloCall
            <4>2. c.next = "take" /\ Dead(j)
                BY <2>1, <3>1, <3>2, <4>1 DEF Writes, SoloCall
            <4> QED
                BY <2>2, <4>2 DEF Dead
        <3> QED
            BY <1>10, <2>1, <3>1, <3>2
    <2>3. CASE status'[j] # status[j]
        <3>1. j = c.job /\ c.next = "enqueue" /\ tracked' = tracked
            BY <1>1, <2>3 DEF Effect
        <3>2. k = c.ticker
            BY <1>4, <3>1
        <3> QED
            BY <2>1, <3>1, <3>2 DEF Solo, SoloCalls, SoloCall
    <2> QED
        BY <2>2, <2>3
<1>13. turn'[t].at # "talking" => CallsOf(t)' = {}
    <2>1. CASE turn'[t] = turn[t] /\ turn[t].at # "talking"
        <3>1. \A e \in calls : e.job \notin turn[t].starts
            BY <2>1 DEF Solo, SoloCalls, CallsOf
        <3>2. \A e \in calls' : e.job \notin turn[t].starts
            BY <1>6, <3>1
        <3> QED
            BY <2>1, <3>2 DEF CallsOf
    <2> QED
        BY <1>5, <1>7, <2>1
<1>14. ASSUME NEW e \in calls', e.next \in Unplaced
       PROVE  SoloUnplaced(t, e)'
    <2>1. CASE e \in calls \ {c}
        <3>1. SoloUnplaced(t, e)
            BY <1>14, <2>1 DEF Solo, SoloCalls
        <3>2. e.job # NoJob /\ e.job # c.job
            BY <1>4, <2>1, CallShape DEF RunsInv
        <3>3. \A k \in Tickers : tracked'[k] # e.job
            <4>1. SUFFICES ASSUME NEW k \in Tickers
                           PROVE  tracked'[k] # e.job
                OBVIOUS
            <4>2. tracked'[k] = tracked[k] \/ tracked'[k] \in {c.job, NoJob}
                BY <1>10 DEF Writes
            <4> QED
                BY <3>1, <3>2, <4>2 DEF SoloUnplaced
        <3> QED
            BY <1>3, <1>7, <3>1, <3>3 DEF SoloUnplaced
    <2>2. CASE e = d /\ e.job = c.job
        <3>1. c.next \in Unplaced /\ UNCHANGED tracked
            BY <1>2, <1>14, <2>2 DEF Goes
        <3>2. SoloUnplaced(t, c)
            BY <3>1 DEF Solo, SoloCalls
        <3> QED
            BY <1>3, <1>7, <2>2, <3>1, <3>2 DEF SoloUnplaced
    <2> QED
        BY <1>6, <2>1, <2>2
<1>15. ASSUME NEW e \in calls', e.ticker \notin loose'
       PROVE  SoloCall(t, e)'
    <2>1. e.ticker \notin loose
        BY <1>1, <1>15
    <2>2. CASE e \in calls \ {c}
        <3>1. SoloCall(t, e)
            BY <2>1, <2>2 DEF Solo, SoloCalls
        <3>2. e.ticker # c.ticker /\ e.job \in turn[t].starts
            BY <2>2, <3>1 DEF SoloCall
        <3>3. turn'[t] = turn[t]
            <4>1. e \in CallsOf(t) \ {c}
                BY <2>2, <3>2 DEF CallsOf
            <4>2. e.ticker \in TickersOf(CallsOf(t) \ {c})
                BY <4>1 DEF TickersOf
            <4> QED
                BY <1>5, <1>15, <4>2
        <3>4. \A f \in calls' : f.ticker = e.ticker => f = e
            BY <1>6, <3>1, <3>2 DEF SoloCall
        <3>5. tracked'[e.ticker] = tracked[e.ticker]
            BY <1>4, <1>10, <2>2, <3>2
        <3> QED
            BY <2>2, <3>1, <3>2, <3>3, <3>4, <3>5, SoloCallStays
    <2>3. CASE e \notin calls \ {c}
        <3>1. e.ticker = c.ticker
            BY <1>6, <2>3
        <3>2. SoloCall(t, c)
            BY <2>1, <3>1 DEF Solo, SoloCalls
        <3> QED
            BY <1>15, <2>3, <3>1, <3>2, SoloGoesOn
    <2> QED
        BY <2>2, <2>3
<1>16. SoloCalls(t)'
    BY <1>13, <1>14, <1>15 DEF SoloCalls
<1> QED
    BY <1>8, <1>9, <1>11, <1>12, <1>16 DEF Solo

\* A worker begins or ends a job that is going.
LEMMA SoloWorks ==
    ASSUME RunsInv, NEW t \in Threads, Solo(t), SoloStep(t), NEW j \in Jobs, Begin(j) \/ End(j)
    PROVE  Solo(t)'
<1>1. /\ status[j] \in Going
      /\ \A i \in Jobs \ {j} : status'[i] = status[i]
      /\ UNCHANGED <<tracked, about, turn, calls, told, kept, loose>>
    BY DEF Begin, End, Going, RunsInv, TypeOK, history
<1>2. Others(t)' /\ SoloTold'
    BY <1>1, SoloToldStays
<1>3. SoloPairs(t)'
    BY <1>1, SoloPairsStay DEF Read
<1>4. SoloFields(t)'
    BY <1>1 DEF Solo, SoloFields, SoloField
<1>5. \A i \in Jobs : status'[i] \in Going => status[i] \in Going
    BY <1>1
<1>6. SoloGoing'
    BY <1>1, <1>5 DEF Solo, SoloGoing
<1>7. ASSUME NEW c \in calls, c.ticker \notin loose
      PROVE  SoloCall(t, c)'
    <2>1. SoloCall(t, c)
        BY <1>7 DEF Solo, SoloCalls
    <2>2. /\ c.job \in turn'[t].starts /\ tracked'[c.ticker] = tracked[c.ticker]
          /\ \A d \in calls' : d.ticker = c.ticker => d = c
        BY <1>1, <2>1 DEF SoloCall
    <2> QED
        BY <2>1, <2>2, SoloCallStays
<1>8. ASSUME NEW c \in calls, c.next \in Unplaced
      PROVE  SoloUnplaced(t, c)'
    BY <1>1, <1>8 DEF Solo, SoloCalls, SoloUnplaced, Read
<1>9. SoloCalls(t)'
    BY <1>1, <1>7, <1>8 DEF Solo, SoloCalls, CallsOf
<1> QED
    BY <1>2, <1>3, <1>4, <1>6, <1>9 DEF Solo

\* Every step of a conversation that talks alone keeps what it knows.
LEMMA SoloNext ==
    ASSUME RunsInv, NEW t \in Threads, Solo(t), SoloStep(t)
    PROVE  Solo(t)'
BY SoloActor, SoloAsks, SoloReplies, SoloNotices, SoloDies, SoloStarts, SoloCommands, SoloWorks

\* What one conversation keeps is that nobody is put on a company twice, that a run is reported once,
\* and only when it will not go on.
LEMMA SoloOnce ==
    ASSUME RunsInv, NEW t \in Threads, Solo(t)
    PROVE  OneRunUnlessLoose /\ ToldOnce /\ ToldIsOver
<1>1. ToldOnce /\ ToldIsOver
    BY DEF Solo, SoloTold, ToldOnce, ToldIsOver, Dead
<1>2. OneRunUnlessLoose
    <2> SUFFICES ASSUME NEW i \in Jobs, NEW j \in Jobs, Twice(i, j), NEW k \in about[i], k \notin loose
                 PROVE  FALSE
        BY DEF OneRunUnlessLoose
    <2>1. tracked[k] = i /\ tracked[k] = j
        BY DEF Twice, Solo, SoloGoing
    <2> QED
        BY <2>1 DEF Twice
<1> QED
    BY <1>1, <1>2

-----------------------------------------------------------------------------
(* SubmitOnce *)

Unqueued == {"idle", "get", "check", "watch", "getAgain", "checkAgain", "previous",
             "checkPrevious", "exec"}
Watching == {"getAgain", "checkAgain", "previous", "checkPrevious", "exec"}
Alive(j) == jobStatus[j] \in {"going", "done"}

\* A record names a job that was queued for it.
RecordIsQueued(k) ==
    record[k] # NoJob => jobStatus[record[k]] # "none" /\ request[record[k]].key = k

\* A job that may still be attached to is in its record until that is forgotten.
AliveIsRecorded(j) == Alive(j) /\ j \notin forgotten => record[request[j].key] = j

\* What a request has read of its record is still so, unless it will notice.
Knows(r) ==
    /\ request[r].at \in Unqueued => jobStatus[r] = "none"
    /\ request[r].at \in Watching => watched[r] = Submit!Watches(r)
    /\ request[r].at = "checkAgain" /\ ~request[r].changed => request[r].found = record[request[r].key]
    /\ request[r].at \in {"previous", "checkPrevious", "exec"} /\ ~request[r].changed =>
         ~Submit!Attachable(record[request[r].key])
    /\ request[r].at = "idle" => request[r].job = NoJob
    /\ \A j \in request[r].failed : jobStatus[j] = "failed"
    /\ request[r].job \notin request[r].failed
    /\ request[r].at \in {"follow", "release", "delete"} => request[r].job # NoJob

SubmitInv ==
    /\ Submit!TypeOK
    /\ \A k \in Tickers : RecordIsQueued(k)
    /\ \A j \in Jobs : AliveIsRecorded(j)
    /\ \A r \in Jobs : Knows(r)

\* Truth values are set apart from the other fields for the provers' sake.
LEMMA RequestFlags ==
    ASSUME NEW x \in Submit!Request, NEW b \in BOOLEAN
    PROVE  /\ [x EXCEPT !.changed = b] \in Submit!Request /\ [x EXCEPT !.changed = b].changed = b
           /\ [x EXCEPT !.behind = b] \in Submit!Request
BY DEF Submit!Request

\* A request goes on with something else changed too.
LEMMA RequestGoes ==
    ASSUME NEW x \in Submit!Request, NEW step \in Submit!Steps, NEW past \in SUBSET Jobs,
           NEW b \in BOOLEAN
    PROVE  /\ [x EXCEPT !.at = step] \in Submit!Request
           /\ [x EXCEPT !.at = step, !.failed = past] \in Submit!Request
           /\ [x EXCEPT !.at = step, !.changed = b] \in Submit!Request
           /\ [x EXCEPT !.at = step, !.behind = b] \in Submit!Request
<1>1. [x EXCEPT !.at = step] \in Submit!Request
    BY DEF Submit!Request
<1>2. [x EXCEPT !.at = step, !.failed = past] \in Submit!Request
    BY DEF Submit!Request
<1>3. /\ [x EXCEPT !.at = step, !.changed = b] = [[x EXCEPT !.at = step] EXCEPT !.changed = b]
      /\ [x EXCEPT !.at = step, !.behind = b] = [[x EXCEPT !.at = step] EXCEPT !.behind = b]
    OBVIOUS
<1> QED
    BY <1>1, <1>2, <1>3, RequestFlags

\* Noticing changes nothing else of a request.
LEMMA NoticedFields ==
    ASSUME NEW f \in [Jobs -> Submit!Request], NEW keys
    PROVE  /\ Submit!Noticed(f, keys) \in [Jobs -> Submit!Request]
           /\ \A q \in Jobs :
                /\ Submit!Noticed(f, keys)[q].at = f[q].at
                /\ Submit!Noticed(f, keys)[q].key = f[q].key
                /\ Submit!Noticed(f, keys)[q].thread = f[q].thread
                /\ Submit!Noticed(f, keys)[q].found = f[q].found
                /\ Submit!Noticed(f, keys)[q].job = f[q].job
                /\ Submit!Noticed(f, keys)[q].failed = f[q].failed
                /\ Submit!Noticed(f, keys)[q].changed = (f[q].changed \/ watched[q] \cap keys # {})
<1>1. ASSUME NEW q \in Jobs
      PROVE  /\ [f[q] EXCEPT !.changed = @ \/ watched[q] \cap keys # {}] \in Submit!Request
             /\ [f[q] EXCEPT !.changed = @ \/ watched[q] \cap keys # {}].changed
                  = (f[q].changed \/ watched[q] \cap keys # {})
    <2> DEFINE b == f[q].changed \/ watched[q] \cap keys # {}
    <2>1. b \in BOOLEAN /\ f[q] \in Submit!Request
        OBVIOUS
    <2> HIDE DEF b
    <2>2. [f[q] EXCEPT !.changed = b] \in Submit!Request /\ [f[q] EXCEPT !.changed = b].changed = b
        BY <2>1, RequestFlags
    <2> QED
        BY <2>2 DEF b
<1> QED
    BY <1>1 DEF Submit!Noticed, Submit!Request

\* A step that changes no record and no job disturbs only what its own request knows.
LEMMA SubmitLocal ==
    ASSUME SubmitInv, Submit!TypeOK', NEW r \in Jobs, Knows(r)',
           UNCHANGED <<record, latest, jobStatus, forgotten>>, request'[r].key = request[r].key,
           \A q \in Jobs \ {r} : request'[q] = request[q] /\ watched'[q] = watched[q]
    PROVE  SubmitInv'
<1>1. \A q \in Jobs : request'[q].key = request[q].key
    OBVIOUS
<1>2. \A k \in Tickers : record[k] \in Jobs \cup {NoJob}
    BY DEF SubmitInv, Submit!TypeOK
<1>3. \A k \in Tickers : RecordIsQueued(k)'
    BY <1>1, <1>2 DEF SubmitInv, RecordIsQueued
<1>4. \A j \in Jobs : AliveIsRecorded(j)'
    BY <1>1 DEF SubmitInv, AliveIsRecorded, Alive
<1>5. ASSUME NEW q \in Jobs \ {r}
      PROVE  Knows(q)'
    BY <1>5 DEF SubmitInv, Knows, Submit!Watches, Submit!Attachable
<1> QED
    BY <1>3, <1>4, <1>5 DEF SubmitInv

\* The requests' own steps.
LEMMA SubmitReads ==
    ASSUME SubmitInv, NEW r \in Jobs,
           \/ Submit!Arrive(r) \/ Submit!Get(r) \/ Submit!Check(r) \/ Submit!Watch(r)
           \/ Submit!GetAgain(r) \/ Submit!CheckAgain(r) \/ Submit!Previous(r)
           \/ Submit!CheckPrevious(r) \/ Submit!Deliver(r) \/ Submit!Leave(r) \/ Submit!Release(r)
    PROVE  SubmitInv'
<1>1. /\ UNCHANGED <<record, latest, jobStatus, forgotten>>
      /\ \A q \in Jobs \ {r} : request'[q] = request[q] /\ watched'[q] = watched[q]
    BY DEF Submit!Arrive, Submit!Get, Submit!Check, Submit!Watch, Submit!GetAgain, Submit!CheckAgain,
           Submit!Previous, Submit!CheckPrevious, Submit!Deliver, Submit!Leave, Submit!Release,
           Submit!GoTo, Submit!broker, SubmitInv, Submit!TypeOK
<1> USE SubmitAssumption DEF Submit!SubmitAssumption
<1>2. request[r] \in Submit!Request /\ Knows(r)
    BY DEF SubmitInv, Submit!TypeOK
<1>3. CASE Submit!Arrive(r)
    <2> DEFINE past == {j \in Jobs : jobStatus[j] = "failed"}
    <2>0. /\ request' = [request EXCEPT ![r].at = "get", ![r].failed = past]
          /\ past \in SUBSET Jobs
          /\ UNCHANGED <<record, latest, jobStatus, watched, delivered, forgotten, expiries, failures>>
          /\ request[r].at = "idle"
        BY <1>3 DEF Submit!Arrive, Submit!At, Submit!broker, Submit!faults
    <2>3. \A j \in past : jobStatus[j] = "failed"
        OBVIOUS
    <2> HIDE DEF past
    <2>1. /\ Submit!TypeOK'
          /\ request'[r].key = request[r].key
          /\ request'[r].at = "get" /\ request'[r].job = request[r].job
          /\ request'[r].failed = past
        <3>1. [request[r] EXCEPT !.at = "get", !.failed = past] \in Submit!Request
            BY <1>2, <2>0, RequestGoes DEF Submit!Steps
        <3>2. request' = [request EXCEPT ![r] = [request[r] EXCEPT !.at = "get", !.failed = past]]
            BY <2>0
        <3> QED
            BY <1>2, <2>0, <3>1, <3>2 DEF SubmitInv, Submit!TypeOK, Submit!Request
    <2>2. Knows(r)'
        BY <1>1, <1>2, <2>0, <2>1, <2>3 DEF Knows, Unqueued, Watching, Submit!Request
    <2> QED
        BY <1>1, <2>1, <2>2, SubmitLocal
<1>4. CASE Submit!Get(r)
    <2>1. /\ Submit!TypeOK'
          /\ request'[r].key = request[r].key
          /\ request'[r].at \in {"watch", "check"} /\ request'[r].job = request[r].job
          /\ request'[r].failed = request[r].failed
          /\ request[r].at = "get"
        BY <1>4 DEF Submit!Get, Submit!At, Submit!broker, Submit!faults, SubmitInv, Submit!TypeOK,
                    Submit!Request, Submit!Steps
    <2>2. Knows(r)'
        BY <1>1, <1>2, <2>1 DEF Knows, Unqueued, Watching
    <2> QED
        BY <1>1, <2>1, <2>2, SubmitLocal
<1>5. CASE Submit!Check(r)
    <2>1. /\ Submit!TypeOK'
          /\ request'[r].key = request[r].key
          /\ request'[r].failed = request[r].failed
          /\ \/ request'[r].at = "watch" /\ request'[r].job = NoJob
             \/ request'[r].at = "follow" /\ request'[r].job = request[r].found
                /\ Submit!Attachable(request[r].found)
          /\ request[r].at = "check"
        BY <1>5 DEF Submit!Check, Submit!At, Submit!broker, Submit!faults, SubmitInv, Submit!TypeOK,
                    Submit!Request, Submit!Steps
    <2>2. Knows(r)'
        BY <1>1, <1>2, <2>1 DEF Knows, Unqueued, Watching, Submit!Attachable, Submit!Request
    <2> QED
        BY <1>1, <2>1, <2>2, SubmitLocal
<1>6. CASE Submit!Watch(r)
    <2>0. Submit!Watches(r) \subseteq {Submit!RequestKey(k) : k \in Tickers}
                                        \cup {Submit!ThreadKey(h) : h \in Threads}
        BY <1>2 DEF Submit!Watches, Submit!Request
    <2>3. watched' \in [Jobs -> SUBSET ({Submit!RequestKey(k) : k \in Tickers}
                                        \cup {Submit!ThreadKey(h) : h \in Threads})]
        BY <1>6, <2>0 DEF Submit!Watch, SubmitInv, Submit!TypeOK
    <2>1. /\ Submit!TypeOK'
          /\ request'[r].key = request[r].key /\ request'[r].thread = request[r].thread
          /\ request'[r].at = "getAgain" /\ request'[r].job = request[r].job
          /\ request'[r].failed = request[r].failed
          /\ watched'[r] = Submit!Watches(r)
          /\ request[r].at = "watch"
        <3>1. [request[r] EXCEPT !.at = "getAgain", !.changed = FALSE] \in Submit!Request
            BY <1>2, RequestGoes DEF Submit!Steps
        <3>2. request' = [request EXCEPT ![r] = [request[r] EXCEPT !.at = "getAgain", !.changed = FALSE]]
            BY <1>6 DEF Submit!Watch
        <3>3. /\ UNCHANGED <<record, latest, jobStatus, delivered, forgotten, expiries, failures>>
              /\ request[r].at = "watch" /\ watched' = [watched EXCEPT ![r] = Submit!Watches(r)]
            BY <1>6 DEF Submit!Watch, Submit!At, Submit!broker, Submit!faults
        <3>4. Submit!TypeOK'
            BY <2>3, <3>1, <3>2, <3>3 DEF SubmitInv, Submit!TypeOK
        <3> QED
            BY <1>2, <3>1, <3>2, <3>3, <3>4 DEF SubmitInv, Submit!TypeOK, Submit!Request
    <2>2. Knows(r)'
        BY <1>1, <1>2, <2>1 DEF Knows, Unqueued, Watching, Submit!Watches
    <2> QED
        BY <1>1, <2>1, <2>2, SubmitLocal
<1>7. CASE Submit!GetAgain(r)
    <2>1. /\ Submit!TypeOK'
          /\ request'[r].key = request[r].key /\ request'[r].thread = request[r].thread
          /\ request'[r].job = request[r].job
          /\ request'[r].failed = request[r].failed
          /\ request'[r].found = record[request[r].key]
          /\ \/ request'[r].at = "previous" /\ record[request[r].key] = NoJob
             \/ request'[r].at = "checkAgain"
          /\ UNCHANGED watched
          /\ request[r].at = "getAgain"
        BY <1>7 DEF Submit!GetAgain, Submit!At, Submit!broker, Submit!faults, SubmitInv,
                    Submit!TypeOK, Submit!Request, Submit!Steps
    <2>2. Knows(r)'
        BY <1>1, <1>2, <2>1 DEF Knows, Unqueued, Watching, Submit!Watches, Submit!Attachable
    <2> QED
        BY <1>1, <2>1, <2>2, SubmitLocal
<1>8. CASE Submit!CheckAgain(r)
    <2>1. /\ Submit!TypeOK'
          /\ request'[r].key = request[r].key /\ request'[r].thread = request[r].thread
          /\ request'[r].failed = request[r].failed
          /\ request'[r].changed = request[r].changed
          /\ \/ /\ request'[r].at = "previous" /\ request'[r].job = request[r].job
                /\ ~Submit!Attachable(request[r].found) /\ UNCHANGED watched
             \/ /\ request'[r].at = "follow" /\ request'[r].job = request[r].found
                /\ Submit!Attachable(request[r].found)
          /\ request[r].at = "checkAgain"
        BY <1>8 DEF Submit!CheckAgain, Submit!At, Submit!GoTo, Submit!broker, Submit!faults, SubmitInv,
                    Submit!TypeOK, Submit!Request, Submit!Steps
    <2>2. Knows(r)'
        BY <1>1, <1>2, <2>1 DEF Knows, Unqueued, Watching, Submit!Watches, Submit!Attachable,
                    Submit!Request
    <2> QED
        BY <1>1, <2>1, <2>2, SubmitLocal
<1>9. CASE Submit!Previous(r) \/ Submit!CheckPrevious(r)
    <2>1. /\ Submit!TypeOK'
          /\ request'[r].key = request[r].key /\ request'[r].thread = request[r].thread
          /\ request'[r].failed = request[r].failed
          /\ request'[r].changed = request[r].changed
          /\ request'[r].at \in {"exec", "checkPrevious"} /\ request'[r].job = request[r].job
          /\ UNCHANGED watched
          /\ request[r].at \in {"previous", "checkPrevious"}
        <3>1. CASE Submit!Previous(r)
            BY <3>1 DEF Submit!Previous, Submit!At, Submit!broker, Submit!faults, SubmitInv,
                        Submit!TypeOK, Submit!Request, Submit!Steps
        <3>2. CASE Submit!CheckPrevious(r)
            <4> DEFINE b == jobStatus[request[r].found] = "going"
            <4>1. /\ request' = [request EXCEPT ![r].at = "exec", ![r].behind = b]
                  /\ b \in BOOLEAN
                  /\ UNCHANGED <<record, latest, jobStatus, watched, delivered, forgotten, expiries, failures>>
                  /\ request[r].at = "checkPrevious"
                BY <3>2 DEF Submit!CheckPrevious, Submit!At, Submit!broker, Submit!faults
            <4> HIDE DEF b
            <4>2. [request[r] EXCEPT !.at = "exec", !.behind = b] \in Submit!Request
                BY <1>2, <4>1, RequestGoes DEF Submit!Steps
            <4>3. request' = [request EXCEPT ![r] = [request[r] EXCEPT !.at = "exec", !.behind = b]]
                BY <4>1
            <4> QED
                BY <1>2, <4>1, <4>2, <4>3 DEF SubmitInv, Submit!TypeOK, Submit!Request
        <3> QED
            BY <1>9, <3>1, <3>2
    <2>2. Knows(r)'
        BY <1>1, <1>2, <2>1 DEF Knows, Unqueued, Watching, Submit!Watches, Submit!Attachable
    <2> QED
        BY <1>1, <2>1, <2>2, SubmitLocal
<1>10. CASE Submit!Deliver(r) \/ Submit!Leave(r) \/ Submit!Release(r)
    <2>1. /\ Submit!TypeOK'
          /\ request'[r].key = request[r].key
          /\ request'[r].failed = request[r].failed
          /\ request'[r].at \in {"release", "over", "delete"} /\ request'[r].job = request[r].job
          /\ request[r].at \in {"follow", "release"}
        <3>1. CASE Submit!Deliver(r)
            <4>1. request[r].job \in Jobs
                BY <1>2, <3>1 DEF Knows, Submit!Deliver, Submit!At, Submit!Request
            <4> QED
                BY <3>1, <4>1 DEF Submit!Deliver, Submit!At, Submit!GoTo, Submit!broker, Submit!faults,
                        SubmitInv, Submit!TypeOK, Submit!Request, Submit!Steps
        <3>2. CASE Submit!Leave(r)
            BY <3>2 DEF Submit!Leave, Submit!At, Submit!GoTo, Submit!broker, Submit!faults,
                        SubmitInv, Submit!TypeOK, Submit!Request, Submit!Steps
        <3>3. CASE Submit!Release(r)
            BY <3>3 DEF Submit!Release, Submit!At, Submit!GoTo, Submit!broker, Submit!faults,
                        SubmitInv, Submit!TypeOK, Submit!Request, Submit!Steps
        <3> QED
            BY <1>10, <3>1, <3>2, <3>3
    <2>2. Knows(r)'
        BY <1>1, <1>2, <2>1 DEF Knows, Unqueued, Watching
    <2> QED
        BY <1>1, <2>1, <2>2, SubmitLocal
<1> QED
    BY <1>3, <1>4, <1>5, <1>6, <1>7, <1>8, <1>9, <1>10

\* The transaction's EXEC, which may be carried out though the broker's answer is lost: the record it
\* takes names no job that could still be attached to.
LEMMA SubmitQueues ==
    ASSUME SubmitInv, NEW r \in Jobs, request[r].at = "exec", ~request[r].changed, Submit!Queue(r),
           NEW x \in Submit!Request, x.key = request[r].key, x.thread = request[r].thread,
           x.failed = request[r].failed,
           (x.at = "follow" /\ x.job = r) \/ (x.at = "over" /\ x.job = request[r].job),
           request' = Submit!Noticed([request EXCEPT ![r] = x], Submit!Watches(r)),
           watched' = [watched EXCEPT ![r] = {}],
           UNCHANGED <<delivered, forgotten, expiries>>, failures' \in 0..MaxFailures
    PROVE  SubmitInv'
<1> USE SubmitAssumption DEF Submit!SubmitAssumption
<1> DEFINE k == request[r].key
           f == [request EXCEPT ![r] = x]
<1>1. /\ request[r] \in Submit!Request /\ k \in Tickers /\ Knows(r) /\ r # NoJob
      /\ f \in [Jobs -> Submit!Request] /\ f[r] = x /\ \A q \in Jobs \ {r} : f[q] = request[q]
    BY DEF SubmitInv, Submit!TypeOK, Submit!Request
<1>9. request' = Submit!Noticed(f, Submit!Watches(r))
    OBVIOUS
<1> HIDE DEF f
<1>10. /\ request' \in [Jobs -> Submit!Request]
       /\ \A q \in Jobs :
            /\ request'[q].at = f[q].at /\ request'[q].key = f[q].key
            /\ request'[q].thread = f[q].thread /\ request'[q].found = f[q].found
            /\ request'[q].job = f[q].job /\ request'[q].failed = f[q].failed
            /\ request'[q].changed = (f[q].changed \/ watched[q] \cap Submit!Watches(r) # {})
    <2>1. f \in [Jobs -> Submit!Request]
        BY <1>1
    <2> QED
        BY ONLY <1>9, <2>1, NoticedFields
<1>2. /\ request' \in [Jobs -> Submit!Request]
      /\ \A q \in Jobs :
           /\ request'[q].at = f[q].at /\ request'[q].key = request[q].key
           /\ request'[q].thread = request[q].thread /\ request'[q].found = f[q].found
           /\ request'[q].job = f[q].job /\ request'[q].failed = request[q].failed
    <2>1. \A q \in Jobs : f[q].key = request[q].key /\ f[q].thread = request[q].thread
                            /\ f[q].failed = request[q].failed
        BY <1>1
    <2> QED
        BY <1>10, <2>1
<1>3. /\ \A i \in Tickers : record'[i] = IF i = k THEN r ELSE record[i]
      /\ \A j \in Jobs : jobStatus'[j] = IF j = r THEN "going" ELSE jobStatus[j]
      /\ jobStatus[r] = "none"
      /\ ~Submit!Attachable(record[k])
    BY <1>1 DEF Submit!Queue, SubmitInv, Submit!TypeOK, Knows, Unqueued
<1>4. Submit!TypeOK'
    BY <1>2 DEF Submit!Queue, SubmitInv, Submit!TypeOK
<1>5. \A i \in Tickers : record[i] \in Jobs \cup {NoJob} /\ record[i] # r
    <2>1. \A i \in Tickers : record[i] \in Jobs \cup {NoJob} /\ RecordIsQueued(i)
        BY DEF SubmitInv, Submit!TypeOK
    <2> QED
        BY <1>1, <1>3, <2>1 DEF RecordIsQueued
<1>6. ASSUME NEW i \in Tickers
      PROVE  RecordIsQueued(i)'
    <2>1. RecordIsQueued(i) /\ record[i] \in Jobs \cup {NoJob} /\ record[i] # r
        BY <1>5 DEF SubmitInv
    <2>2. \A j \in Jobs : request'[j].key = request[j].key
        BY <1>2
    <2>3. CASE i = k
        <3>1. record'[i] = r /\ jobStatus'[r] = "going" /\ request'[r].key = i
            BY <1>3, <2>2, <2>3
        <3> QED
            BY <3>1 DEF RecordIsQueued
    <2>4. CASE i # k
        <3>1. record'[i] = record[i] /\ \A j \in Jobs \ {r} : jobStatus'[j] = jobStatus[j]
            BY <1>3, <2>4
        <3> QED
            BY <2>1, <2>2, <3>1 DEF RecordIsQueued
    <2> QED
        BY <2>3, <2>4
<1>7. ASSUME NEW j \in Jobs
      PROVE  AliveIsRecorded(j)'
    <2>1. CASE j = r
        BY <1>1, <1>2, <1>3, <2>1 DEF AliveIsRecorded
    <2>2. CASE j # r
        <3>1. request[j].key \in Tickers
            BY DEF SubmitInv, Submit!TypeOK, Submit!Request
        <3>2. Alive(j) /\ j \notin forgotten => record[request[j].key] = j
            BY DEF SubmitInv, AliveIsRecorded
        <3>3. Alive(j) => Submit!Attachable(j)
            BY DEF Alive, Submit!Attachable
        <3> QED
            BY <1>2, <1>3, <2>2, <3>1, <3>2, <3>3 DEF AliveIsRecorded, Alive
    <2> QED
        BY <2>1, <2>2
<1>8. ASSUME NEW q \in Jobs
      PROVE  Knows(q)'
    <2>1. \A j \in request[q].failed : jobStatus'[j] = "failed"
        BY <1>3 DEF SubmitInv, Knows, Submit!TypeOK, Submit!Request
    <2>2. CASE q = r
        <3>1. r \notin request[r].failed
            BY <1>1, <1>3 DEF Knows
        <3>2. request'[r].at = x.at /\ request'[r].job = x.job /\ request'[r].failed = request[r].failed
            BY <1>1, <1>2
        <3>3. /\ x.at \in {"follow", "over"} /\ x.job \notin request[r].failed
              /\ x.at = "follow" => x.job # NoJob
            BY <1>1, <3>1 DEF Knows
        <3> QED
            BY <2>1, <2>2, <3>2, <3>3 DEF Knows, Unqueued, Watching
    <2>3. CASE q # r
        <3>0. f[q] = request[q]
            BY <1>1, <2>3
        <3>1. /\ Knows(q) /\ request'[q].at = request[q].at /\ request'[q].found = request[q].found
              /\ request'[q].job = request[q].job /\ watched'[q] = watched[q]
              /\ request[q].key \in Tickers
              /\ jobStatus'[q] = jobStatus[q]
            <4>1. request[q] \in Submit!Request /\ Knows(q) /\ watched'[q] = watched[q]
                BY <2>3 DEF SubmitInv, Submit!TypeOK
            <4>2. /\ request'[q].at = request[q].at /\ request'[q].found = request[q].found
                  /\ request'[q].job = request[q].job
                BY <1>2, <3>0
            <4> QED
                BY <1>3, <2>3, <4>1, <4>2 DEF Submit!Request
        <3>2. ~request'[q].changed =>
                 ~request[q].changed /\ watched[q] \cap Submit!Watches(r) = {}
            BY <1>10, <3>0
        <3>3. request[q].at \in Watching /\ ~request'[q].changed => request[q].key # k
            BY <3>1, <3>2 DEF Knows, Submit!Watches
        <3>4. request[q].key # k =>
                /\ record'[request[q].key] = record[request[q].key]
                /\ Submit!Attachable(record[request[q].key])' <=> Submit!Attachable(record[request[q].key])
            <4>1. request'[q].key = request[q].key
                BY <1>2
            <4>2. record[request[q].key] \in Jobs \cup {NoJob} /\ record[request[q].key] # r
                BY <1>5, <3>1
            <4> HIDE DEF k
            <4>3. request[q].key # k =>
                    /\ record'[request[q].key] = record[request[q].key]
                    /\ record[request[q].key] # NoJob =>
                         jobStatus'[record[request[q].key]] = jobStatus[record[request[q].key]]
                BY <1>3, <3>1, <4>2
            <4> QED
                BY <4>1, <4>3 DEF Submit!Attachable
        <3>5. request'[q].at = "checkAgain" /\ ~request'[q].changed =>
                 request'[q].found = record'[request'[q].key]
            BY <1>2, <3>1, <3>2, <3>3, <3>4 DEF Knows, Watching
        <3>6. request'[q].at \in {"previous", "checkPrevious", "exec"} /\ ~request'[q].changed =>
                 ~Submit!Attachable(record[request[q].key])'
            BY <1>2, <3>1, <3>2, <3>3, <3>4 DEF Knows, Watching
        <3>7. Submit!Watches(q)' = Submit!Watches(q)
            BY <1>2 DEF Submit!Watches
        <3> QED
            BY <1>2, <2>1, <3>1, <3>5, <3>6, <3>7 DEF Knows
    <2> QED
        BY <2>2, <2>3
<1> QED
    BY <1>4, <1>6, <1>7, <1>8 DEF SubmitInv

\* A record goes, and every request that watches it will notice.
LEMMA SubmitForgets ==
    ASSUME SubmitInv, NEW k \in Tickers, NEW f \in [Jobs -> Submit!Request], NEW keys,
           \A q \in Jobs :
             /\ f[q].at \in {request[q].at, "over"} /\ f[q].key = request[q].key
             /\ f[q].thread = request[q].thread /\ f[q].found = request[q].found
             /\ f[q].job = request[q].job /\ f[q].failed = request[q].failed
             /\ f[q].changed = request[q].changed,
           record[k] # NoJob => Submit!RequestKey(k) \in keys,
           request' = Submit!Noticed(f, keys),
           record' = [record EXCEPT ![k] = NoJob],
           forgotten' = forgotten \cup ({record[k]} \ {NoJob}),
           UNCHANGED <<latest, jobStatus, watched, delivered, failures>>, expiries' \in 0..MaxExpiries
    PROVE  SubmitInv'
<1> USE SubmitAssumption DEF Submit!SubmitAssumption
<1>1. /\ request' \in [Jobs -> Submit!Request]
      /\ \A q \in Jobs :
           /\ request'[q].at \in {request[q].at, "over"} /\ request'[q].key = request[q].key
           /\ request'[q].thread = request[q].thread /\ request'[q].found = request[q].found
           /\ request'[q].job = request[q].job /\ request'[q].failed = request[q].failed
           /\ request'[q].changed = (request[q].changed \/ watched[q] \cap keys # {})
    BY NoticedFields
<1>2. \A i \in Tickers : record'[i] = IF i = k THEN NoJob ELSE record[i]
    BY DEF SubmitInv, Submit!TypeOK
<1>3. record[k] \in Jobs \cup {NoJob}
    BY DEF SubmitInv, Submit!TypeOK
<1>4. Submit!TypeOK'
    BY <1>1, <1>3 DEF SubmitInv, Submit!TypeOK
<1>5. \A i \in Tickers : RecordIsQueued(i)'
    <2>1. \A i \in Tickers : record[i] \in Jobs \cup {NoJob}
        BY DEF SubmitInv, Submit!TypeOK
    <2> QED
        BY <1>1, <1>2, <2>1 DEF SubmitInv, RecordIsQueued
<1>6. \A j \in Jobs : request[j].key \in Tickers /\ j # NoJob
    BY DEF SubmitInv, Submit!TypeOK, Submit!Request
<1>7. \A j \in Jobs : AliveIsRecorded(j)'
    BY <1>1, <1>2, <1>6 DEF SubmitInv, AliveIsRecorded, Alive
<1>8. ASSUME NEW q \in Jobs
      PROVE  Knows(q)'
    <2>1. Knows(q) /\ request[q].key \in Tickers
        BY <1>6 DEF SubmitInv
    <2>2. ~request'[q].changed => ~request[q].changed /\ watched[q] \cap keys = {}
        BY <1>1
    <2>3. request[q].at \in Watching /\ ~request'[q].changed =>
             record'[request[q].key] = record[request[q].key]
        BY <1>2, <2>1, <2>2 DEF Knows, Submit!Watches
    <2>4. request'[q].at = "checkAgain" /\ ~request'[q].changed =>
             request'[q].found = record'[request'[q].key]
        BY <1>1, <2>1, <2>2, <2>3 DEF Knows, Watching
    <2>5. request'[q].at \in {"previous", "checkPrevious", "exec"} /\ ~request'[q].changed =>
             ~Submit!Attachable(record[request[q].key])'
        BY <1>1, <2>1, <2>2, <2>3 DEF Knows, Watching, Submit!Attachable
    <2>6. Submit!Watches(q)' = Submit!Watches(q)
        BY <1>1 DEF Submit!Watches
    <2> QED
        BY <1>1, <2>1, <2>4, <2>5, <2>6 DEF Knows, Unqueued, Watching
<1> QED
    BY <1>4, <1>5, <1>7, <1>8 DEF SubmitInv

\* A job that could not be attached to still cannot once a job has finished.
LEMMA SubmitFinishes ==
    ASSUME SubmitInv, NEW j \in Jobs, Submit!Finish(j)
    PROVE  SubmitInv'
<1>1. /\ jobStatus[j] = "going" /\ jobStatus'[j] \in {"done", "failed"}
      /\ \A i \in Jobs \ {j} : jobStatus'[i] = jobStatus[i]
      /\ UNCHANGED <<record, latest, request, watched, delivered, forgotten, expiries, failures>>
    BY DEF Submit!Finish, Submit!faults, SubmitInv, Submit!TypeOK
<1>2. Submit!TypeOK'
    BY DEF Submit!Finish, Submit!faults, SubmitInv, Submit!TypeOK
<1>3. \A k \in Tickers : record[k] \in Jobs \cup {NoJob}
    BY DEF SubmitInv, Submit!TypeOK
<1>4. \A k \in Tickers : RecordIsQueued(k)'
    BY <1>1, <1>3 DEF SubmitInv, RecordIsQueued
<1>5. \A i \in Jobs : AliveIsRecorded(i)'
    BY <1>1 DEF SubmitInv, AliveIsRecorded, Alive
<1>6. ASSUME NEW q \in Jobs
      PROVE  Knows(q)'
    <2>1. /\ Knows(q) /\ request[q].key \in Tickers /\ request[q].failed \subseteq Jobs
        BY DEF SubmitInv, Submit!TypeOK, Submit!Request
    <2>2. ~Submit!Attachable(record[request[q].key]) => ~Submit!Attachable(record[request[q].key])'
        BY <1>1, <1>3, <2>1 DEF Submit!Attachable
    <2> QED
        BY <1>1, <2>1, <2>2 DEF Knows, Submit!Watches
<1> QED
    BY <1>2, <1>4, <1>5, <1>6 DEF SubmitInv

\* The request forgets its watches; nothing else happened.
LEMMA SubmitGivesUp ==
    ASSUME SubmitInv, NEW r \in Jobs, NEW step \in {"watch", "over"}, request[r].at # "idle",
           step = "watch" => request[r].at = "exec",
           request' = [request EXCEPT ![r].at = step], watched' = [watched EXCEPT ![r] = {}],
           UNCHANGED <<record, latest, jobStatus, delivered, forgotten, expiries>>,
           failures' \in 0..MaxFailures
    PROVE  SubmitInv'
<1>1. request[r] \in Submit!Request /\ Knows(r)
    BY DEF SubmitInv, Submit!TypeOK
<1>2. /\ \A q \in Jobs \ {r} : request'[q] = request[q] /\ watched'[q] = watched[q]
      /\ request'[r] = [request[r] EXCEPT !.at = step]
    BY DEF SubmitInv, Submit!TypeOK
<1>3. [request[r] EXCEPT !.at = step] \in Submit!Request
    BY <1>1, RequestGoes DEF Submit!Steps
<1>4. Submit!TypeOK'
    BY <1>2, <1>3 DEF SubmitInv, Submit!TypeOK
<1>5. Knows(r)'
    BY <1>1, <1>2 DEF Knows, Unqueued, Watching, Submit!Request
<1> QED
    BY <1>1, <1>2, <1>4, <1>5, SubmitLocal DEF Submit!Request

\* Every step of a request, a worker or the clock.
LEMMA SubmitStep ==
    ASSUME SubmitInv, Submit!Next \/ UNCHANGED submitVars
    PROVE  SubmitInv'
<1> USE SubmitAssumption DEF Submit!SubmitAssumption
<1>1. failures \in 0..MaxFailures /\ expiries \in 0..MaxExpiries
    BY DEF SubmitInv, Submit!TypeOK
<1>2. ASSUME NEW r \in Jobs, request[r].at = "exec", ~request[r].changed, NEW x,
             \/ x = [request[r] EXCEPT !.at = "follow", !.job = r]
             \/ x = [request[r] EXCEPT !.at = "over"]
      PROVE  /\ x \in Submit!Request /\ x.key = request[r].key /\ x.thread = request[r].thread
             /\ x.failed = request[r].failed
             /\ (x.at = "follow" /\ x.job = r) \/ (x.at = "over" /\ x.job = request[r].job)
    <2>1. request[r] \in Submit!Request
        BY DEF SubmitInv, Submit!TypeOK
    <2> QED
        BY <1>2, <2>1 DEF Submit!Request, Submit!Steps
<1>3. ASSUME NEW r \in Jobs, Submit!Exec(r)
      PROVE  SubmitInv'
    <2>1. CASE request[r].changed
        BY <1>1, <1>3, <2>1, SubmitGivesUp
           DEF Submit!Exec, Submit!At, Submit!GoTo, Submit!broker, Submit!faults
    <2>2. CASE ~request[r].changed
        <3> DEFINE x == [request[r] EXCEPT !.at = "follow", !.job = r]
        <3>1. /\ request[r].at = "exec" /\ Submit!Queue(r)
              /\ watched' = [watched EXCEPT ![r] = {}]
              /\ UNCHANGED <<delivered, forgotten, expiries, failures>>
            BY <1>3, <2>2 DEF Submit!Exec, Submit!At, Submit!faults
        <3>2. request' = Submit!Noticed([request EXCEPT ![r].at = "follow", ![r].job = r],
                                        Submit!Watches(r))
            BY <1>3, <2>2 DEF Submit!Exec
        <3>3. [request EXCEPT ![r].at = "follow", ![r].job = r] = [request EXCEPT ![r] = x]
            OBVIOUS
        <3> HIDE DEF x
        <3>4. request' = Submit!Noticed([request EXCEPT ![r] = x], Submit!Watches(r))
            BY <3>2, <3>3
        <3>5. /\ x \in Submit!Request /\ x.key = request[r].key /\ x.thread = request[r].thread
              /\ x.failed = request[r].failed
              /\ (x.at = "follow" /\ x.job = r) \/ (x.at = "over" /\ x.job = request[r].job)
            BY <1>2, <2>2, <3>1 DEF x
        <3> QED
            BY <1>1, <2>2, <3>1, <3>4, <3>5, SubmitQueues
    <2> QED
        BY <2>1, <2>2
<1>4. ASSUME NEW r \in Jobs, Submit!Fail(r)
      PROVE  SubmitInv'
    <2>1. failures' \in 0..MaxFailures /\ UNCHANGED <<delivered, forgotten, expiries>>
        BY <1>1, <1>4 DEF Submit!Fail
    <2>2. request[r].at # "idle" /\ watched' = [watched EXCEPT ![r] = {}]
        BY <1>4 DEF Submit!Fail
    <2>3. CASE Submit!GoTo(r, "over") /\ UNCHANGED <<record, latest, jobStatus>>
        BY <2>1, <2>2, <2>3, SubmitGivesUp DEF Submit!GoTo
    <2>4. CASE /\ request[r].at = "exec" /\ ~request[r].changed /\ Submit!Queue(r)
               /\ request' = Submit!Noticed([request EXCEPT ![r].at = "over"], Submit!Watches(r))
        <3> DEFINE x == [request[r] EXCEPT !.at = "over"]
        <3>1. [request EXCEPT ![r].at = "over"] = [request EXCEPT ![r] = x]
            OBVIOUS
        <3> HIDE DEF x
        <3>2. request' = Submit!Noticed([request EXCEPT ![r] = x], Submit!Watches(r))
            BY <2>4, <3>1
        <3>3. /\ x \in Submit!Request /\ x.key = request[r].key /\ x.thread = request[r].thread
              /\ x.failed = request[r].failed
              /\ (x.at = "follow" /\ x.job = r) \/ (x.at = "over" /\ x.job = request[r].job)
            BY <1>2, <2>4 DEF x
        <3> QED
            BY <2>1, <2>2, <2>4, <3>2, <3>3, SubmitQueues
    <2> QED
        BY <1>4, <2>3, <2>4 DEF Submit!Fail, Submit!At, Submit!broker
<1>5. ASSUME NEW r \in Jobs, Submit!Delete(r)
      PROVE  SubmitInv'
    <2> DEFINE k == request[r].key
               f == [request EXCEPT ![r].at = "over"]
               keys == IF record[k] = NoJob THEN {} ELSE {Submit!RequestKey(k)}
    <2>1. request[r] \in Submit!Request /\ k \in Tickers
        BY DEF SubmitInv, Submit!TypeOK, Submit!Request
    <2>2. [request[r] EXCEPT !.at = "over"] \in Submit!Request
        BY <2>1, RequestGoes DEF Submit!Steps
    <2>3. /\ f \in [Jobs -> Submit!Request]
          /\ \A q \in Jobs :
               /\ f[q].at \in {request[q].at, "over"} /\ f[q].key = request[q].key
               /\ f[q].thread = request[q].thread /\ f[q].found = request[q].found
               /\ f[q].job = request[q].job /\ f[q].failed = request[q].failed
               /\ f[q].changed = request[q].changed
        BY <2>1, <2>2 DEF SubmitInv, Submit!TypeOK, Submit!Request
    <2>4. /\ request' = Submit!Noticed(f, keys)
          /\ record' = [record EXCEPT ![k] = NoJob]
          /\ forgotten' = forgotten \cup ({record[k]} \ {NoJob})
          /\ UNCHANGED <<latest, jobStatus, watched, delivered, failures, expiries>>
          /\ record[k] # NoJob => Submit!RequestKey(k) \in keys
        BY <1>5 DEF Submit!Delete, Submit!faults
    <2> HIDE DEF f, keys, k
    <2> QED
        BY <1>1, <2>1, <2>3, <2>4, SubmitForgets
<1>6. ASSUME NEW k \in Tickers, Submit!Expire(k)
      PROVE  SubmitInv'
    <2>1. /\ request' = Submit!Noticed(request, {Submit!RequestKey(k)})
          /\ record' = [record EXCEPT ![k] = NoJob]
          /\ forgotten' = forgotten \cup {record[k]} /\ record[k] # NoJob
          /\ UNCHANGED <<latest, jobStatus, watched, delivered, failures>>
          /\ expiries' \in 0..MaxExpiries
        BY <1>1, <1>6 DEF Submit!Expire
    <2>2. forgotten' = forgotten \cup ({record[k]} \ {NoJob})
        BY <2>1
    <2>3. request \in [Jobs -> Submit!Request]
        BY DEF SubmitInv, Submit!TypeOK
    <2> QED
        BY <2>1, <2>2, <2>3, SubmitForgets
<1>7. CASE UNCHANGED submitVars
    <2>1. /\ Submit!TypeOK'
          /\ UNCHANGED <<record, jobStatus, request, watched, forgotten>>
        BY <1>7 DEF submitVars, SubmitInv, Submit!TypeOK
    <2> QED
        BY <2>1 DEF SubmitInv, RecordIsQueued, AliveIsRecorded, Alive, Knows, Submit!Watches,
                    Submit!Attachable
<1> QED
    BY <1>3, <1>4, <1>5, <1>6, <1>7, SubmitReads, SubmitFinishes DEF Submit!Next, Submit!RequestStep

\* The initial states.
LEMMA SubmitStart == Submit!Init => SubmitInv
<1> SUFFICES ASSUME Submit!Init
             PROVE  SubmitInv
    OBVIOUS
<1> USE SubmitAssumption DEF Submit!SubmitAssumption
<1>1. PICK key \in [Jobs -> Tickers], thread \in [Jobs -> Threads] :
        request = [r \in Jobs |->
            [at |-> "idle", key |-> key[r], thread |-> thread[r], found |-> NoJob, job |-> NoJob,
             behind |-> FALSE, changed |-> FALSE, failed |-> {}]]
    BY DEF Submit!Init
<1>2. request \in [Jobs -> Submit!Request]
    BY <1>1 DEF Submit!Request, Submit!Steps
<1>3. \A r \in Jobs : request[r].at = "idle" /\ request[r].job = NoJob /\ request[r].failed = {}
    BY <1>1
<1>4. Submit!TypeOK
    BY <1>2 DEF Submit!Init, Submit!TypeOK
<1> QED
    BY <1>3, <1>4 DEF Submit!Init, SubmitInv, RecordIsQueued, AliveIsRecorded, Alive, Knows, Watching

\* What the invariant says of the investor's requests.
LEMMA SubmitOnceKept ==
    ASSUME SubmitInv
    PROVE  Submit!OneJobPerRequest /\ Submit!FailedIsRetried
<1>1. \A j \in Jobs : request[j].key \in Tickers
    BY DEF SubmitInv, Submit!TypeOK, Submit!Request
<1> QED
    BY <1>1 DEF SubmitInv, AliveIsRecorded, Alive, Knows, Submit!OneJobPerRequest,
                Submit!FailedIsRetried

-----------------------------------------------------------------------------
(* LocalRuns *)

\* A run that a turn is to report over is over, was in no reply, and is of that ticker.
ReportedIsOver ==
    \A p \in over : ~Local!Running(p[2]) /\ heard[p[2]] = 0 /\ run[p[2]].ticker = p[1]

\* A run that is kept was in no reply, and is of the ticker it is kept for.
KeptIsUnheard ==
    \A k \in Tickers : tasks[k] # 0 => heard[tasks[k]] = 0 /\ run[tasks[k]].ticker = k

\* main waits for every run still going, and cuts one off only if the investor would not wait.
DrainKnows ==
    /\ desk = "draining" => \A i \in DOMAIN run : Local!Running(i) => i \in awaited
    /\ \A i \in DOMAIN run : run[i].task = "cancelled" => gaveUp

LocalInv ==
    /\ Local!TypeOK
    /\ Local!RunningIsKept
    /\ ReportedIsOver
    /\ KeptIsUnheard
    /\ DrainKnows
    /\ Local!NoneAbandoned
    /\ Local!HeardOnce

\* What the types say of the runs one by one.
LEMMA LocalTypes ==
    ASSUME Local!TypeOK
    PROVE  /\ DOMAIN run = 1..Len(run) /\ DOMAIN heard = 1..Len(run) /\ Len(run) \in Nat
           /\ \A i \in DOMAIN run : run[i] \in Local!Run /\ heard[i] \in Nat /\ i # 0 /\ i \in Nat
           /\ \A k \in Tickers : tasks[k] # 0 => tasks[k] \in DOMAIN run
           /\ \A p \in over : /\ p[1] \in Tickers /\ p[2] \in DOMAIN run /\ p = <<p[1], p[2]>>
BY LocalAssumption DEF Local!TypeOK, Local!LocalAssumption

\* A run starts in place of none or of one that is over.
LEMMA LocalStarts ==
    ASSUME LocalInv, NEW k \in Tickers, Local!Start(k)
    PROVE  LocalInv'
<1> USE LocalAssumption DEF Local!LocalAssumption
<1> DEFINE n == Len(run) + 1
<1>1. /\ DOMAIN run = 1..Len(run) /\ DOMAIN heard = 1..Len(run) /\ Len(run) \in Nat
      /\ \A i \in DOMAIN run : run[i] \in Local!Run /\ heard[i] \in Nat /\ i # 0 /\ i \in Nat
      /\ \A h \in Tickers : tasks[h] # 0 => tasks[h] \in DOMAIN run
      /\ \A p \in over : /\ p[1] \in Tickers /\ p[2] \in DOMAIN run /\ p = <<p[1], p[2]>>
    BY LocalTypes DEF LocalInv
<1>2. /\ desk = "turn" /\ ~Local!Running(tasks[k]) /\ n <= MaxRuns
      /\ UNCHANGED <<desk, over, awaited, gaveUp>>
    BY <1>1 DEF Local!Start
<1>3. [ticker |-> k, task |-> "running"] \in Local!Run
    BY DEF Local!Run
<1>4. /\ run' \in Seq(Local!Run) /\ Len(run') = n /\ DOMAIN run' = 1..n
      /\ run'[n] = [ticker |-> k, task |-> "running"]
      /\ \A i \in DOMAIN run : run'[i] = run[i]
    BY <1>1, <1>3 DEF Local!Start, LocalInv, Local!TypeOK
<1>5. /\ heard' \in Seq(0..MaxRuns) /\ Len(heard') = n /\ heard'[n] = 0
      /\ \A i \in DOMAIN run : heard'[i] = heard[i]
    BY <1>1 DEF Local!Start, LocalInv, Local!TypeOK
<1>6. /\ tasks' \in [Tickers -> 0..n]
      /\ \A h \in Tickers : tasks'[h] = IF h = k THEN n ELSE tasks[h]
    BY <1>1 DEF Local!Start, LocalInv, Local!TypeOK
<1>7. n \in Nat /\ n \notin DOMAIN run /\ n # 0 /\ 1..n = DOMAIN run \cup {n}
    BY <1>1
<1>8. Local!TypeOK'
    BY <1>1, <1>2, <1>4, <1>5, <1>6 DEF LocalInv, Local!TypeOK
<1> HIDE DEF n
<1>9. Local!RunningIsKept'
    <2>1. ASSUME NEW i \in DOMAIN run, run[i].task = "running"
          PROVE  tasks[run[i].ticker] = i /\ run[i].ticker \in Tickers /\ run[i].ticker # k
        BY <1>1, <1>2, <2>1 DEF LocalInv, Local!RunningIsKept, Local!Running, Local!Run
    <2> QED
        BY <1>1, <1>4, <1>6, <1>7, <2>1 DEF Local!RunningIsKept, Local!Running
<1>10. ReportedIsOver'
    BY <1>1, <1>2, <1>4, <1>5 DEF LocalInv, ReportedIsOver, Local!Running
<1>11. KeptIsUnheard'
    BY <1>1, <1>4, <1>5, <1>6 DEF LocalInv, KeptIsUnheard
<1>12. DrainKnows'
    BY <1>1, <1>2, <1>4, <1>7 DEF LocalInv, DrainKnows
<1>13. Local!NoneAbandoned'
    BY <1>2 DEF Local!NoneAbandoned
<1>14. Local!HeardOnce'
    BY <1>1, <1>4, <1>5, <1>7 DEF LocalInv, Local!HeardOnce, Local!Running
<1> QED
    BY <1>8, <1>9, <1>10, <1>11, <1>12, <1>13, <1>14 DEF LocalInv

\* Runs end, by themselves or cut off as the process goes down.
LEMMA LocalEnds ==
    ASSUME LocalInv, run' \in Seq(Local!Run), Len(run') = Len(run),
           \A i \in DOMAIN run : /\ run'[i].ticker = run[i].ticker
                                 /\ run'[i].task = "running" => run[i].task = "running"
                                 /\ run'[i].task = "cancelled" => run[i].task = "cancelled" \/ gaveUp',
           UNCHANGED <<tasks, over, awaited, heard>>, gaveUp' \in BOOLEAN, gaveUp => gaveUp',
           desk' \in {desk, "left"},
           desk' = "left" => \A i \in DOMAIN run : run'[i].task # "running"
    PROVE  LocalInv'
<1>1. /\ DOMAIN run = 1..Len(run) /\ DOMAIN heard = 1..Len(run) /\ Len(run) \in Nat
      /\ \A i \in DOMAIN run : run[i] \in Local!Run /\ heard[i] \in Nat /\ i # 0 /\ i \in Nat
      /\ \A h \in Tickers : tasks[h] # 0 => tasks[h] \in DOMAIN run
      /\ \A p \in over : /\ p[1] \in Tickers /\ p[2] \in DOMAIN run /\ p = <<p[1], p[2]>>
    BY LocalTypes DEF LocalInv
<1>2. DOMAIN run' = DOMAIN run
    BY <1>1
<1>3. Local!TypeOK'
    BY DEF LocalInv, Local!TypeOK
<1>4. Local!RunningIsKept'
    BY <1>1, <1>2 DEF LocalInv, Local!RunningIsKept, Local!Running
<1>5. ReportedIsOver'
    BY <1>1, <1>2 DEF LocalInv, ReportedIsOver, Local!Running
<1>6. KeptIsUnheard'
    BY <1>1, <1>2 DEF LocalInv, KeptIsUnheard
<1>7. DrainKnows'
    BY <1>1, <1>2 DEF LocalInv, DrainKnows, Local!Running
<1>8. Local!NoneAbandoned'
    BY <1>1, <1>2, <1>7 DEF DrainKnows, Local!NoneAbandoned, Local!Running
<1>9. Local!HeardOnce'
    BY <1>1, <1>2 DEF LocalInv, Local!HeardOnce, Local!Running
<1> QED
    BY <1>3, <1>4, <1>5, <1>6, <1>7, <1>8, <1>9 DEF LocalInv

\* Turns begin and end, and the investor leaves, while the runs go on.
LEMMA LocalTurns ==
    ASSUME LocalInv, Local!Turn \/ Local!Reply \/ Local!TurnFails \/ Local!Leave
    PROVE  LocalInv'
<1> USE LocalAssumption DEF Local!LocalAssumption
<1>1. /\ DOMAIN run = 1..Len(run) /\ DOMAIN heard = 1..Len(run) /\ Len(run) \in Nat
      /\ \A i \in DOMAIN run : run[i] \in Local!Run /\ heard[i] \in Nat /\ i # 0 /\ i \in Nat
      /\ \A h \in Tickers : tasks[h] # 0 => tasks[h] \in DOMAIN run
      /\ \A p \in over : /\ p[1] \in Tickers /\ p[2] \in DOMAIN run /\ p = <<p[1], p[2]>>
    BY LocalTypes DEF LocalInv
<1>2. UNCHANGED <<run, gaveUp>> /\ desk' # "left"
    BY DEF Local!Turn, Local!Reply, Local!TurnFails, Local!Leave
<1>3. CASE Local!Turn
    <2>1. UNCHANGED <<tasks, run, awaited, heard, gaveUp>> /\ desk' = "turn" /\ over' = Local!Over
        BY <1>3 DEF Local!Turn
    <2>2. \A p \in over' : \E k \in Tickers : tasks[k] # 0 /\ ~Local!Running(tasks[k]) /\ p = <<k, tasks[k]>>
        BY <2>1 DEF Local!Over, Local!Kept
    <2>3. Local!TypeOK'
        BY <1>1, <2>1, <2>2 DEF LocalInv, Local!TypeOK
    <2>4. ReportedIsOver'
        BY <1>1, <2>1, <2>2 DEF LocalInv, ReportedIsOver, KeptIsUnheard, Local!Running
    <2> QED
        BY <1>1, <2>1, <2>3, <2>4 DEF LocalInv, Local!RunningIsKept, Local!Running, KeptIsUnheard,
           DrainKnows, Local!NoneAbandoned, Local!HeardOnce
<1>4. CASE Local!Reply
    <2>1. /\ UNCHANGED <<run, awaited, gaveUp>> /\ desk' = "prompt" /\ over' = {}
          /\ tasks' = [k \in Tickers |-> IF <<k, tasks[k]>> \in over THEN 0 ELSE tasks[k]]
          /\ heard' = [i \in DOMAIN heard |-> IF \E p \in over : p[2] = i THEN heard[i] + 1 ELSE heard[i]]
        BY <1>4 DEF Local!Reply, Local!Clear
    <2>2. \A i \in DOMAIN run : heard'[i] \in 0..MaxRuns
        <3>1. ASSUME NEW i \in DOMAIN run
              PROVE  heard'[i] = heard[i] \/ (heard[i] = 0 /\ heard'[i] = 1)
            BY <1>1, <2>1 DEF LocalInv, ReportedIsOver
        <3>2. \A i \in DOMAIN run : heard[i] \in 0..MaxRuns /\ 1 <= MaxRuns
            BY <1>1 DEF LocalInv, Local!TypeOK
        <3> QED
            BY <3>1, <3>2
    <2>3. heard' \in [1..Len(run) -> 0..MaxRuns]
        BY <1>1, <2>1, <2>2
    <2>4. Local!TypeOK'
        BY <1>1, <2>1, <2>3 DEF LocalInv, Local!TypeOK
    <2>5. Local!RunningIsKept'
        <3>1. ASSUME NEW i \in DOMAIN run, Local!Running(i)
              PROVE  <<run[i].ticker, i>> \notin over /\ tasks[run[i].ticker] = i /\ run[i].ticker \in Tickers
            BY <1>1, <3>1 DEF LocalInv, Local!RunningIsKept, ReportedIsOver, Local!Run
        <3> QED
            BY <1>1, <2>1, <3>1 DEF Local!RunningIsKept, Local!Running
    <2>6. KeptIsUnheard'
        <3>1. ASSUME NEW k \in Tickers, tasks'[k] # 0
              PROVE  heard'[tasks'[k]] = 0 /\ run'[tasks'[k]].ticker = k
            <4>1. tasks'[k] = tasks[k] /\ <<k, tasks[k]>> \notin over /\ tasks[k] \in DOMAIN run
                BY <1>1, <2>1, <3>1
            <4>2. heard[tasks[k]] = 0 /\ run[tasks[k]].ticker = k
                BY <3>1, <4>1 DEF LocalInv, KeptIsUnheard
            <4>3. ~\E p \in over : p[2] = tasks[k]
                BY <1>1, <4>1, <4>2 DEF LocalInv, ReportedIsOver
            <4> QED
                BY <1>1, <2>1, <4>1, <4>2, <4>3
        <3> QED
            BY <3>1 DEF KeptIsUnheard
    <2>7. Local!HeardOnce'
        BY <1>1, <2>1 DEF LocalInv, Local!HeardOnce, ReportedIsOver, Local!Running
    <2> QED
        BY <2>1, <2>4, <2>5, <2>6, <2>7
           DEF LocalInv, ReportedIsOver, DrainKnows, Local!NoneAbandoned
<1>5. CASE Local!TurnFails
    <2>1. /\ UNCHANGED <<tasks, run, awaited, heard, gaveUp>> /\ desk' = "prompt" /\ over' = {}
        BY <1>5 DEF Local!TurnFails
    <2>2. Local!TypeOK'
        BY <2>1 DEF LocalInv, Local!TypeOK
    <2> QED
        BY <2>1, <2>2 DEF LocalInv, Local!RunningIsKept, Local!Running, ReportedIsOver, KeptIsUnheard,
           DrainKnows, Local!NoneAbandoned, Local!HeardOnce
<1>6. CASE Local!Leave
    <2>1. /\ UNCHANGED <<tasks, run, heard, gaveUp>> /\ desk' = "draining" /\ over' = {}
          /\ awaited' = {tasks[k] : k \in {k \in Local!Kept : Local!Running(tasks[k])}}
        BY <1>6 DEF Local!Leave
    <2>2. Local!TypeOK'
        BY <1>1, <2>1 DEF LocalInv, Local!TypeOK, Local!Kept
    <2>3. DrainKnows'
        <3>1. ASSUME NEW i \in DOMAIN run, Local!Running(i)
              PROVE  i \in awaited'
            <4>1. tasks[run[i].ticker] = i /\ run[i].ticker \in Tickers
                BY <1>1, <3>1 DEF LocalInv, Local!RunningIsKept, Local!Run
            <4> QED
                BY <1>1, <2>1, <3>1, <4>1 DEF Local!Kept
        <3> QED
            BY <2>1, <3>1 DEF LocalInv, DrainKnows, Local!Running
    <2> QED
        BY <2>1, <2>2, <2>3 DEF LocalInv, Local!RunningIsKept, Local!Running, ReportedIsOver,
           KeptIsUnheard, Local!NoneAbandoned, Local!HeardOnce
<1> QED
    BY <1>3, <1>4, <1>5, <1>6

\* Every step of a turn, a run or the process.
LEMMA LocalStep ==
    ASSUME LocalInv, Local!Next \/ UNCHANGED localVars
    PROVE  LocalInv'
<1>1. /\ DOMAIN run = 1..Len(run) /\ DOMAIN heard = 1..Len(run) /\ Len(run) \in Nat
      /\ \A i \in DOMAIN run : run[i] \in Local!Run /\ heard[i] \in Nat /\ i # 0 /\ i \in Nat
    BY LocalTypes DEF LocalInv
<1>2. ASSUME NEW i \in DOMAIN run, Local!End(i)
      PROVE  LocalInv'
    <2>1. PICK task \in {"done", "failed"} : run' = [run EXCEPT ![i].task = task]
        BY <1>2 DEF Local!End
    <2>2. run' \in Seq(Local!Run) /\ Len(run') = Len(run)
        BY <1>1, <2>1 DEF LocalInv, Local!TypeOK, Local!Run
    <2>3. \A h \in DOMAIN run : /\ run'[h].ticker = run[h].ticker
                                /\ run'[h].task = "running" => run[h].task = "running"
                                /\ run'[h].task = "cancelled" => run[h].task = "cancelled"
        BY <1>1, <2>1 DEF Local!Run
    <2> QED
        BY <1>2, <2>2, <2>3, LocalEnds DEF Local!End, LocalInv, Local!TypeOK
<1>3. CASE Local!Drained
    <2>1. desk = "draining" /\ UNCHANGED <<tasks, run, over, awaited, heard, gaveUp>> /\ desk' = "left"
        BY <1>3 DEF Local!Drained
    <2>2. \A i \in DOMAIN run : run[i].task # "running"
        BY <1>1, <1>3 DEF LocalInv, DrainKnows, Local!Drained, Local!Running
    <2> QED
        BY <2>1, <2>2, LocalEnds DEF LocalInv, Local!TypeOK
<1>4. CASE Local!GiveUp
    <2>1. /\ UNCHANGED <<tasks, over, awaited, heard>> /\ desk' = "left" /\ gaveUp' = TRUE
          /\ run' = [i \in DOMAIN run |->
                IF Local!Running(i) THEN [run[i] EXCEPT !.task = "cancelled"] ELSE run[i]]
        BY <1>4 DEF Local!GiveUp
    <2>2. \A i \in DOMAIN run : /\ run'[i] \in Local!Run /\ run'[i].ticker = run[i].ticker
                                /\ run'[i].task # "running"
        BY <1>1, <2>1 DEF Local!Run, Local!Running
    <2>3. run' \in [1..Len(run) -> Local!Run]
        BY <1>1, <2>1, <2>2
    <2>4. run' \in Seq(Local!Run) /\ Len(run') = Len(run)
        BY <1>1, <2>3
    <2> QED
        BY <2>1, <2>2, <2>4, LocalEnds
<1>5. CASE UNCHANGED localVars
    BY <1>5 DEF localVars, LocalInv, Local!TypeOK, Local!RunningIsKept, Local!Running, ReportedIsOver,
       KeptIsUnheard, DrainKnows, Local!NoneAbandoned, Local!HeardOnce
<1> QED
    BY <1>2, <1>3, <1>4, <1>5, LocalStarts, LocalTurns DEF Local!Next

\* The initial states.
LEMMA LocalStart == Local!Init => LocalInv
<1> SUFFICES ASSUME Local!Init
             PROVE  LocalInv
    OBVIOUS
<1> USE LocalAssumption DEF Local!Init, Local!LocalAssumption
<1>1. Len(run) = 0 /\ Len(heard) = 0 /\ DOMAIN run = {} /\ DOMAIN heard = {}
    OBVIOUS
<1>2. run \in Seq(Local!Run) /\ heard \in Seq(0..MaxRuns) /\ Len(run) <= MaxRuns
    <2>1. \A S : <<>> \in Seq(S)
        OBVIOUS
    <2> QED
        BY <1>1, <2>1
<1>3. tasks \in [Tickers -> 0..Len(run)] /\ over \subseteq Tickers \X (1..Len(run))
    BY <1>1
<1>4. Local!TypeOK
    BY <1>1, <1>2, <1>3 DEF Local!TypeOK
<1> QED
    BY <1>1, <1>4 DEF LocalInv, Local!RunningIsKept, ReportedIsOver, KeptIsUnheard, DrainKnows,
       Local!NoneAbandoned, Local!HeardOnce

-----------------------------------------------------------------------------
(* The parts together *)

QueuedInv ==
    /\ RunsInv
    /\ speakers \subseteq Threads
    /\ \A t \in Threads : speakers = {t} => Solo(t)
    /\ part = "submit" => SubmitInv
    /\ part = "local" => LocalInv

QueuedVars == <<part, deskVars, submitVars, localVars>>

\* The initial states.
LEMMA QueuedStart == QueuedInit => QueuedInv
<1> SUFFICES ASSUME QueuedInit
             PROVE  QueuedInv
    OBVIOUS
<1>1. Init /\ speakers \subseteq Threads
    BY DEF QueuedInit, DeskOff
<1>2. RunsInv
    BY <1>1, RunsInit
<1>3. part = "submit" => Submit!Init
    BY DEF QueuedInit
<1>4. part = "local" => Local!Init
    BY DEF QueuedInit
<1> QED
    BY <1>1, <1>2, <1>3, <1>4, SoloInit, SubmitStart, LocalStart DEF QueuedInv

\* The desk goes on; if one conversation talks, no other acts.
LEMMA DeskGoesOn ==
    ASSUME QueuedInv, DeskNext
    PROVE  /\ RunsInv' /\ speakers' \subseteq Threads
           /\ \A t \in Threads : speakers' = {t} => Solo(t)'
<1>1. Next /\ speakers' = speakers
    BY DEF DeskNext
<1>2. RunsInv'
    BY <1>1, RunsStep DEF QueuedInv
<1>3. ASSUME NEW t \in Threads, speakers = {t}
      PROVE  Solo(t)'
    <2>1. RunsInv /\ Solo(t)
        BY <1>3 DEF QueuedInv
    <2>2. SoloStep(t)
        BY <1>1, <1>3 DEF DeskNext, SoloStep
    <2> QED
        BY <2>1, <2>2, SoloNext
<1> QED
    BY <1>1, <1>2, <1>3 DEF QueuedInv

\* Nothing of the desk changes.
LEMMA DeskRests ==
    ASSUME QueuedInv, UNCHANGED deskVars
    PROVE  /\ RunsInv' /\ speakers' \subseteq Threads
           /\ \A t \in Threads : speakers' = {t} => Solo(t)'
<1>1. UNCHANGED vars /\ speakers' = speakers
    BY DEF deskVars
<1>2. RunsInv'
    BY <1>1, RunsStep DEF QueuedInv
<1>3. ASSUME NEW t \in Threads, Solo(t)
      PROVE  Solo(t)'
    <2>1. UNCHANGED <<tracked, status, about, turn, calls, told, kept, loose>>
        BY <1>1 DEF vars, history
    <2>2. \A j : Dead(j)' <=> Dead(j)
        BY <2>1 DEF Dead
    <2>3. Others(t)' /\ SoloFields(t)' /\ SoloGoing'
        BY <1>3, <2>1 DEF Solo, Others, SoloFields, SoloField, SoloGoing
    <2>4. SoloPairs(t)'
        BY <1>3, <2>1, <2>2 DEF Solo, SoloPairs, SoloPair, Read
    <2>5. SoloCalls(t)'
        <3>1. \A c \in calls : SoloUnplaced(t, c)' <=> SoloUnplaced(t, c)
            BY <2>1 DEF SoloUnplaced, Read
        <3>2. \A c \in calls : SoloCall(t, c)' <=> SoloCall(t, c)
            BY <2>1, <2>2 DEF SoloCall
        <3> QED
            BY <1>3, <2>1, <3>1, <3>2 DEF Solo, SoloCalls, CallsOf
    <2>6. SoloTold'
        BY <1>3, <2>1, <2>2 DEF Solo, SoloTold
    <2> QED
        BY <2>3, <2>4, <2>5, <2>6 DEF Solo
<1> QED
    BY <1>1, <1>2, <1>3 DEF QueuedInv, vars

\* Every step keeps the invariant.
LEMMA QueuedStep == QueuedInv /\ [QueuedNext]_QueuedVars => QueuedInv'
<1> SUFFICES ASSUME QueuedInv, [QueuedNext]_QueuedVars
             PROVE  QueuedInv'
    OBVIOUS
<1>1. part' = part
    BY DEF QueuedNext, QueuedVars
<1>2. DeskNext \/ UNCHANGED deskVars
    BY DEF QueuedNext, QueuedVars
<1>3. /\ RunsInv' /\ speakers' \subseteq Threads
      /\ \A t \in Threads : speakers' = {t} => Solo(t)'
    BY <1>2, DeskGoesOn, DeskRests
<1>4. (part = "submit" /\ Submit!Next) \/ UNCHANGED submitVars
    BY DEF QueuedNext, QueuedVars
<1>5. (part = "local" /\ Local!Next) \/ UNCHANGED localVars
    BY DEF QueuedNext, QueuedVars
<1>6. part = "submit" => SubmitInv'
    BY <1>4, SubmitStep DEF QueuedInv
<1>7. part = "local" => LocalInv'
    BY <1>5, LocalStep DEF QueuedInv
<1> QED
    BY <1>1, <1>3, <1>6, <1>7 DEF QueuedInv

\* The invariant holds of every behaviour.
LEMMA QueuedInvHolds == QueuedSpec => []QueuedInv
<1>1. QueuedInv /\ [QueuedNext]_<<part, deskVars, submitVars, localVars>> => QueuedInv'
    BY QueuedStep DEF QueuedVars
<1> QED
    BY QueuedStart, <1>1, PTL DEF QueuedSpec

\* Every variable keeps its type, in each of the three ways a piece of work is begun.
THEOREM QueuedTypeCorrect == QueuedSpec => []TypesOK
<1>1. QueuedInv => TypesOK
    BY DEF QueuedInv, RunsInv, SubmitInv, LocalInv, TypesOK
<1> QED
    BY <1>1, QueuedInvHolds, PTL

\* graph/research.py 27-28, runs.py 8-9 and 23-24: the turns of one conversation, of any number of
\* companies, with any calls at once, any deaths and any failed commands, put nobody on a company
\* twice unless two starts of it overlapped, one failed or outlived its turn, and report a run once it
\* will not go on, and in one reply unless it could not be forgotten then.
THEOREM OnceAloneHolds == QueuedSpec => []OnceAlone
<1>1. ASSUME QueuedInv
      PROVE  OnceAlone
    <2> SUFFICES ASSUME Alone
                 PROVE  OneRunUnlessLoose /\ ToldOnce /\ ToldIsOver
        BY DEF OnceAlone
    <2>1. IsFiniteSet(speakers)
        BY <1>1, ConversationsAssumption, FS_Subset DEF QueuedInv
    <2>2. PICK t \in Threads : speakers = {t}
        BY <1>1, <2>1, FS_Singleton DEF Alone, QueuedInv
    <2>3. Solo(t) /\ RunsInv
        BY <1>1, <2>2 DEF QueuedInv
    <2> QED
        BY <2>3, SoloOnce
<1> QED
    BY <1>1, QueuedInvHolds, PTL

\* runs.py 8-9 and 151: of a chat of the command line, a run going on is the one kept for its ticker,
\* is told of in one reply, and is waited for when the investor leaves, unless ctrl-c cuts it off.
THEOREM LocalRunsHeldHolds == QueuedSpec => []LocalRunsHeld
<1>1. QueuedInv => LocalRunsHeld
    BY DEF QueuedInv, LocalInv, LocalRunsHeld
<1> QED
    BY <1>1, QueuedInvHolds, PTL

\* routes.py 6-7 and submit.py 47: of the jobs queued for identical requests at most one has neither
\* failed nor been forgotten, and no request attaches to one that had failed when it came in, however
\* the commands of the requests interleave, fail, or are carried out unanswered.
THEOREM SubmittedOnceHolds == QueuedSpec => []SubmittedOnce
<1>1. QueuedInv => SubmittedOnce
    BY SubmitOnceKept DEF QueuedInv, SubmittedOnce
<1> QED
    BY <1>1, QueuedInvHolds, PTL

=============================
